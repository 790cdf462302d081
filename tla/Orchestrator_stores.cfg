CONSTANTS
  Parts = {"tokens", "logins", "password", "mfa", "ageGate"}
  g1 = g1
  g2 = g2
  m1 = m1
  Operations = {p1, p2, p3}
  Users = {u1, u2}
  Tokens = {k1, k2, k3}
  Identities <- ThreeIdentities
  Provider <- TwoProviders
  OwnMethod = "Password"
  Passwords = {w1, w2}
  Secrets = {k1, k2, k3}
  Null = Null
  Years <- ThreeYears
  DaysOfYear <- EdgesOfMonths
  MinimumAges = {1, 2}
  NoDate = NoDate
  RotateOnRefresh = TRUE
  RevokeOnUseOfRevokedAncestor = TRUE
  TransparentLegacyUpgradeEnabled = TRUE
  ConditionalRotate = TRUE
  ConditionalUpdate = TRUE
  UniqueLinks = FALSE
  SerialIdentities = TRUE
  SerialRemovals = TRUE
SPECIFICATION MCSpec
INVARIANTS
  TypesOK
  OneActivePerFamily
  SessionStoreNotBehindClient
  OneOwner
  NoAccountLeftBehind
  ChosenPasswordKept
  LoginsUpgradeHashes
  ConfirmedUnlessTangled
  EnrollmentsNeverReturn
  RecoveryCodesFit
  AgeCountsBirthdays
  GatesAgree
PROPERTIES
  LoginsAreLines
  LastMethodKept
SYMMETRY Symmetry
