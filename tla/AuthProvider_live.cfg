CONSTANTS
  Tabs = {t1, t2}
  Sessions = {s1}
  Null = Null
  NoEffect = NoEffect
  WebLocks = TRUE
  MayLeave = {t2}
SPECIFICATION FairSpec
PROPERTIES
  RefreshReturns
  LogoutReachesTabs
