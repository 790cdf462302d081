---------------------------- MODULE PasswordLogin ---------------------------
(***************************************************************************)
(* LoginWithPasswordAsync (121-153) and the hash it may replace: a login   *)
(* reads the user, verifies the password against the hash it has read, and *)
(* stores a new hash of that password when the old one is out of date.     *)
(* Meanwhile the host's workflows change, reset and remove passwords.      *)
(***************************************************************************)
EXTENDS OrchestratorConstants

VARIABLES
  hash,    \* user -> AuthUser.PasswordHash in the host's store
  chosen,  \* user -> the password the user has set last, Null for none
  passwordOp       \* operation -> where it stands

passwordVars == <<hash, chosen, passwordOp>>

\* "legacy": only ILegacyPasswordVerifier knows it, and it requires an upgrade; "old":
\* PasswordVerificationResult.RequiresRehash.
HashOf(password, format) == [password |-> password, format |-> format]

Hashes == [password: Passwords, format: {"legacy", "old", "current"}]

\* A user without a password.
NoHash == HashOf(Null, "current")

\* Where an operation stands: its user, the hash it has read, and the one it computed.
PasswordAt(step, user, read, new) == [step |-> step, user |-> user, read |-> read, new |-> new]

PasswordIdle == PasswordAt("idle", Null, Null, Null)

PasswordPositions ==
  {PasswordIdle} \cup [step: {"update"}, user: Users, read: Hashes, new: Hashes]
         \cup [step: {"issue"}, user: Users, read: Hashes, new: {Null}]

PasswordTypeOK ==
  /\ hash \in [Users -> Hashes \cup {NoHash}]
  /\ chosen \in [Users -> Passwords \cup {Null}]
  /\ passwordOp \in [Operations -> PasswordPositions]

PasswordInit ==
  /\ hash \in [Users -> Hashes]
  /\ chosen = [u \in Users |-> hash[u].password]
  /\ passwordOp = [p \in Operations |-> PasswordIdle]

\* The password is right, and the hash is to be replaced: every legacy one when the option
\* is set (133-143), and the others by the decision of the policy (145).
OutOfDate(h) ==
  \/ h.format = "legacy" /\ TransparentLegacyUpgradeEnabled
  \/ h.format = "old"

\* Variant: only legacy hashes are replaced.
VerifyPassword_LegacyOnly(p) ==
  /\ passwordOp[p].step = "idle"
  /\ \E u \in Users :
       /\ hash[u] # NoHash
       /\ passwordOp' = [passwordOp EXCEPT ![p] =
            IF OutOfDate(hash[u]) /\ hash[u].format = "legacy"
            THEN PasswordAt("update", u, hash[u], HashOf(hash[u].password, "current"))
            ELSE PasswordAt("issue", u, hash[u], Null)]
  /\ UNCHANGED <<hash, chosen>>

\* The user is found, and the password given is the one of the hash that was read
\* (123-147); with another, the operation throws and nothing changes.
VerifyPassword(p) ==
  /\ passwordOp[p].step = "idle"
  /\ \E u \in Users :
       /\ hash[u] # NoHash
       /\ passwordOp' = [passwordOp EXCEPT ![p] =
            IF OutOfDate(hash[u])
            THEN PasswordAt("update", u, hash[u], HashOf(hash[u].password, "current"))
            ELSE PasswordAt("issue", u, hash[u], Null)]
  /\ UNCHANGED <<hash, chosen>>

\* Variant: the host stores the hash, whatever has become of the old one.
UpdateHash_Unconditional(p) ==
  /\ passwordOp[p].step = "update"
  /\ hash' = [hash EXCEPT ![passwordOp[p].user] = passwordOp[p].new]
  /\ passwordOp' = [passwordOp EXCEPT ![p] = PasswordAt("issue", @.user, @.read, Null)]
  /\ UNCHANGED chosen

\* UpdatePasswordHashAsync (142, 148), with the user that was read.
UpdateHash(p) ==
  /\ passwordOp[p].step = "update"
  /\ ConditionalUpdate => hash[passwordOp[p].user] = passwordOp[p].read
  /\ hash' = [hash EXCEPT ![passwordOp[p].user] = passwordOp[p].new]
  /\ passwordOp' = [passwordOp EXCEPT ![p] = PasswordAt("issue", @.user, @.read, Null)]
  /\ UNCHANGED chosen

\* The session is issued (151-152), as LogIn of RefreshTokens, or a call throws, as
\* UpdatePasswordHashAsync does when it refuses.
PasswordEnds(p) ==
  /\ passwordOp[p].step # "idle"
  /\ passwordOp' = [passwordOp EXCEPT ![p] = PasswordIdle]
  /\ UNCHANGED <<hash, chosen>>

\* The host's workflows set a password (CompletePasswordResetAsync, ChangePasswordAsync,
\* CompletePasswordSetupAsync) or remove it (RemovePasswordLoginAsync).
SetPassword ==
  \E u \in Users, w \in Passwords :
    /\ hash' = [hash EXCEPT ![u] = HashOf(w, "current")]
    /\ chosen' = [chosen EXCEPT ![u] = w]
    /\ UNCHANGED passwordOp

RemovePassword ==
  \E u \in Users :
    /\ hash' = [hash EXCEPT ![u] = NoHash]
    /\ chosen' = [chosen EXCEPT ![u] = Null]
    /\ UNCHANGED passwordOp

PasswordNext ==
  \/ \E p \in Operations : VerifyPassword(p) \/ UpdateHash(p) \/ PasswordEnds(p)
  \/ SetPassword
  \/ RemovePassword

PasswordSpec == PasswordInit /\ [][PasswordNext]_passwordVars

-----------------------------------------------------------------------------
\* A login that rehashes never undoes a change or a removal of the password that came
\* after it had read the user: what is stored is what the user has chosen last.  The
\* hash is written long after it was read (123, 148), so this rests on the host's
\* UpdatePasswordHashAsync being conditional on the hash of the user it is given.
ChosenPasswordKept == \A u \in Users : hash[u].password = chosen[u]

\* A login that is about to issue a session leaves no hash behind that it should have
\* replaced, whatever other logins and changes of the password it overlaps with.
LoginsUpgradeHashes ==
  \A p \in Operations : passwordOp[p].step = "issue" => ~OutOfDate(hash[passwordOp[p].user])

=============================================================================
