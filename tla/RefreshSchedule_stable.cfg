CONSTANTS
  Lifetimes = {8, 11}
  MinDelay = 2
  Early = 3
  RetryDelays <- Retries
  Fallback = 3
  RetryAfters = {0, 5}
  CallTimeout = 4
  MaxTimeout = 8
  MaxLoose = 2
  UnstableProps = FALSE
  Off = Off
SPECIFICATION FairSpec
INVARIANTS
  TypeOK
  ExpiryShown
  NeverStranded
  BoundedRetries
PROPERTIES
  RetryAfterHonoured
  FreshSessionLeftAlone
  RefreshKeepsComing
