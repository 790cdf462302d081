CONSTANTS
  Tabs = {t1}
  Sessions = {s1, s2}
  Null = Null
  NoEffect = NoEffect
  WebLocks = TRUE
  MayLeave = {}
  HookTabs = {t1}
SPECIFICATION HookSpec
PROPERTY
  InFlightResponsesCannotRestore
