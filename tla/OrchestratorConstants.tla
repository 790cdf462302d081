----------------------- MODULE OrchestratorConstants ------------------------
(***************************************************************************)
(* What the modules of DefaultAuthOrchestrator are about, and what they    *)
(* assume of the host application whose stores it calls.                   *)
(***************************************************************************)
CONSTANTS
  Operations,      \* operations that can be under way at once
  Users,           \* accounts; finite, so a bound where they are created
  Tokens,          \* refresh tokens the store can issue; finite, so a bound
  Identities,      \* ExternalIdentity: a provider and its subject
  Provider,        \* identity -> its provider
  OwnMethod,       \* a login method that needs no link, such as the password
  Passwords,
  Secrets,         \* MFA secrets; finite, so a bound
  Null,
  RotateOnRefresh,               \* RefreshTokenOptions.RotateOnRefresh
  RevokeOnUseOfRevokedAncestor,  \* RefreshTokenOptions, the same name
  TransparentLegacyUpgradeEnabled,  \* PasswordMigrationOptions, the same name
  ConditionalRotate,  \* the host's RotateAsync replaces only a token that is
                      \* still active, in one transaction
  ConditionalUpdate,  \* the host's UpdatePasswordHashAsync replaces only the hash
                      \* of the user it is given
  UniqueLinks,      \* the host's LinkAsync refuses an identity of another user
  SerialIdentities, \* the host handles one operation per identity at a time
  SerialRemovals    \* the host handles one unlink per user at a time

ASSUME ConstantsOK ==
  /\ Null \notin Users \cup Tokens \cup Identities \cup Passwords \cup Secrets
  /\ OwnMethod \notin {Provider[i] : i \in Identities}
  /\ RotateOnRefresh \in BOOLEAN
  /\ RevokeOnUseOfRevokedAncestor \in BOOLEAN
  /\ TransparentLegacyUpgradeEnabled \in BOOLEAN
  /\ ConditionalRotate \in BOOLEAN
  /\ ConditionalUpdate \in BOOLEAN

=============================================================================
