CONSTANTS
  e1 = e1
  e2 = e2
  k1 = k1
  k2 = k2
  Emails = {e1, e2}
  AccountEmails = {e1}
  Challenges = {c1, c2}
  Linkable = {p1}
  Keys = {k1, k2}
  InvitedAs <- Invited
  Restricted = {k1}
  Handlers = {h1, h2}
  MaxChanges = 1
  MaxPage = 2
  MaxSent = 2
  Pages = {"login"}
  Null = Null
SPECIFICATION MCFairSpec
CHECK_DEADLOCK FALSE
PROPERTY
  FailedScriptIsReported
