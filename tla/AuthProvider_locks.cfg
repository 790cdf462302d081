CONSTANTS
  Tabs = {t1, t2}
  Sessions = {s1, s2}
  Null = Null
  NoEffect = NoEffect
  WebLocks = TRUE
  MayLeave = {}
SPECIFICATION Spec
INVARIANTS
  TypeOK
  StoredTokenUsable
  TabsAgree
PROPERTIES
  NoResurrection
  NoFalseLogout
  RefreshCatchesUp
SYMMETRY Symmetry
