------------------------ MODULE Orchestrator_proofs -------------------------
(***************************************************************************)
(* Theorems about the orchestrator: its password logins, its MFA           *)
(* enrolment, the age gate, and all of its parts together.  Those about    *)
(* its refresh tokens and its external logins have modules of their own.   *)
(***************************************************************************)
EXTENDS Orchestrator, RefreshTokens_proofs, ExternalLogins_proofs, FiniteSetTheorems

-----------------------------------------------------------------------------
(***************************************************************************)
(* Password logins: with a conditional UpdatePasswordHashAsync no rehash   *)
(* undoes a change of the password, for any users, passwords and           *)
(* operations; and no login leaves a hash that is out of date.             *)
(***************************************************************************)

\* What an operation holds, by the step at which it stands.
LEMMA PasswordPositionFields ==
  ASSUME PasswordTypeOK, NEW p \in Operations
  PROVE  /\ passwordOp[p].step \in {"idle", "update", "issue"}
         /\ passwordOp[p].step # "idle" => passwordOp[p].user \in Users /\ passwordOp[p].read \in Hashes
         /\ passwordOp[p].step = "update" => passwordOp[p].new \in Hashes
  BY DEF PasswordTypeOK, PasswordPositions, PasswordIdle, PasswordAt

\* A hash that an operation is about to store is a current one of the password of the
\* hash it has read.
UpdatesOK ==
  \A p \in Operations :
    passwordOp[p].step = "update" => passwordOp[p].new = HashOf(passwordOp[p].read.password, "current")

\* So what it stores differs from what it read in the format alone.
LEMMA UpdateFields ==
  ASSUME UpdatesOK, NEW p \in Operations, passwordOp[p].step = "update"
  PROVE  passwordOp[p].new.format = "current" /\ passwordOp[p].new.password = passwordOp[p].read.password
<1>1. passwordOp[p].new = HashOf(passwordOp[p].read.password, "current")
  BY DEF UpdatesOK
<1> QED BY <1>1 DEF HashOf

\* What holds of the operations, and that a login about to issue has upgraded.
PasswordInv == PasswordTypeOK /\ UpdatesOK /\ LoginsUpgradeHashes

\* It holds in the beginning, and every step of a login or of the host keeps it.
LEMMA PasswordInvInit == PasswordInit => PasswordInv
<1> SUFFICES ASSUME PasswordInit PROVE PasswordInv
  OBVIOUS
<1>1. PasswordTypeOK
  BY DEF PasswordInit, PasswordTypeOK, Hashes, PasswordPositions
<1>2. \A p \in Operations : passwordOp[p].step = "idle"
  BY DEF PasswordInit, PasswordIdle, PasswordAt
<1> QED BY <1>1, <1>2 DEF PasswordInv, UpdatesOK, LoginsUpgradeHashes

\* Every step keeps them.
LEMMA PasswordInvStep == PasswordInv /\ [PasswordNext]_passwordVars => PasswordInv'
<1> SUFFICES ASSUME PasswordInv, [PasswordNext]_passwordVars
             PROVE  PasswordInv'
  OBVIOUS
<1> USE DEF PasswordInv
<1>1. CASE \E p \in Operations : VerifyPassword(p)
  <2> PICK p \in Operations, u \in Users :
        /\ passwordOp[p].step = "idle" /\ hash[u] # NoHash
        /\ passwordOp' = [passwordOp EXCEPT ![p] =
             IF OutOfDate(hash[u])
             THEN PasswordAt("update", u, hash[u], HashOf(hash[u].password, "current"))
             ELSE PasswordAt("issue", u, hash[u], Null)]
        /\ UNCHANGED <<hash, chosen>>
    BY <1>1 DEF VerifyPassword
  <2>1. hash[u] \in Hashes /\ HashOf(hash[u].password, "current") \in Hashes
    BY DEF PasswordTypeOK, Hashes, HashOf
  <2>2. PasswordTypeOK'
    BY <2>1 DEF PasswordTypeOK, PasswordPositions, PasswordAt
  <2>3. UpdatesOK'
    BY <2>1 DEF PasswordTypeOK, UpdatesOK, PasswordAt
  <2>4. LoginsUpgradeHashes'
    BY <2>1 DEF PasswordTypeOK, LoginsUpgradeHashes, OutOfDate, PasswordAt
  <2> QED BY <2>2, <2>3, <2>4
<1>2. CASE \E p \in Operations : UpdateHash(p)
  <2> PICK p \in Operations : UpdateHash(p)
    BY <1>2
  <2>0. passwordOp[p].step = "update"
    BY DEF UpdateHash
  <2>1. /\ passwordOp[p].user \in Users /\ passwordOp[p].read \in Hashes /\ passwordOp[p].new \in Hashes
        /\ passwordOp[p].new.format = "current"
    BY <2>0, PasswordPositionFields, UpdateFields
  <2>2. PasswordTypeOK'
    BY <2>1 DEF UpdateHash, PasswordTypeOK, PasswordPositions, PasswordAt
  <2>3. UpdatesOK'
    BY <2>1 DEF UpdateHash, PasswordTypeOK, UpdatesOK, PasswordAt
  <2>4. LoginsUpgradeHashes'
    BY <2>1 DEF UpdateHash, PasswordTypeOK, LoginsUpgradeHashes, OutOfDate, PasswordAt
  <2> QED BY <2>2, <2>3, <2>4
<1>3. CASE \E p \in Operations : PasswordEnds(p)
  BY <1>3 DEF PasswordEnds, PasswordTypeOK, UpdatesOK, LoginsUpgradeHashes, OutOfDate, PasswordPositions, PasswordIdle, PasswordAt
<1>4. CASE SetPassword
  <2> PICK u \in Users, w \in Passwords :
        /\ hash' = [hash EXCEPT ![u] = HashOf(w, "current")]
        /\ chosen' = [chosen EXCEPT ![u] = w]
        /\ UNCHANGED passwordOp
    BY <1>4 DEF SetPassword
  <2>1. HashOf(w, "current") \in Hashes /\ ~OutOfDate(HashOf(w, "current"))
    BY DEF HashOf, Hashes, OutOfDate
  <2>2. PasswordTypeOK' /\ UpdatesOK'
    BY <2>1 DEF PasswordTypeOK, UpdatesOK
  <2>3. LoginsUpgradeHashes'
    BY <2>1, PasswordPositionFields DEF PasswordTypeOK, LoginsUpgradeHashes, OutOfDate
  <2> QED BY <2>2, <2>3
<1>5. CASE RemovePassword
  <2> PICK u \in Users :
        /\ hash' = [hash EXCEPT ![u] = NoHash]
        /\ chosen' = [chosen EXCEPT ![u] = Null]
        /\ UNCHANGED passwordOp
    BY <1>5 DEF RemovePassword
  <2>1. ~OutOfDate(NoHash)
    BY DEF NoHash, HashOf, OutOfDate
  <2>2. PasswordTypeOK' /\ UpdatesOK'
    BY DEF PasswordTypeOK, UpdatesOK
  <2>3. LoginsUpgradeHashes'
    BY <2>1, PasswordPositionFields DEF PasswordTypeOK, LoginsUpgradeHashes, OutOfDate
  <2> QED BY <2>2, <2>3
<1>6. CASE UNCHANGED passwordVars
  BY <1>6 DEF passwordVars, PasswordTypeOK, UpdatesOK, LoginsUpgradeHashes, OutOfDate
<1> QED BY <1>1, <1>2, <1>3, <1>4, <1>5, <1>6 DEF PasswordNext

\* Every variable keeps its type, and no login that is about to issue a session leaves a
\* hash behind that it should have replaced (131-149), for any users and operations.
THEOREM LoginsAlwaysUpgrade == PasswordSpec => [](PasswordTypeOK /\ LoginsUpgradeHashes)
<1>1. PasswordInv => PasswordTypeOK /\ LoginsUpgradeHashes
  BY DEF PasswordInv
<1> QED BY <1>1, PasswordInvInit, PasswordInvStep, PTL DEF PasswordSpec

-----------------------------------------------------------------------------
\* A step changes the password that is stored only as the user chooses.
LEMMA ChosenStep ==
  ASSUME ConditionalUpdate, PasswordInv, ChosenPasswordKept, [PasswordNext]_passwordVars
  PROVE  ChosenPasswordKept'
<1> USE DEF PasswordInv
<1>1. CASE \E p \in Operations : VerifyPassword(p) \/ PasswordEnds(p)
  BY <1>1 DEF VerifyPassword, PasswordEnds, ChosenPasswordKept
<1>2. CASE \E p \in Operations : UpdateHash(p)
  <2> PICK p \in Operations : UpdateHash(p)
    BY <1>2
  <2>1. passwordOp[p].step = "update" /\ hash[passwordOp[p].user] = passwordOp[p].read
    BY DEF UpdateHash
  <2>2. passwordOp[p].new.password = passwordOp[p].read.password
    BY <2>1, UpdateFields
  <2> QED BY <2>1, <2>2 DEF UpdateHash, PasswordTypeOK, ChosenPasswordKept
<1>3. CASE SetPassword
  BY <1>3 DEF SetPassword, PasswordTypeOK, ChosenPasswordKept, HashOf
<1>4. CASE RemovePassword
  BY <1>4 DEF RemovePassword, PasswordTypeOK, ChosenPasswordKept, NoHash, HashOf
<1>5. CASE UNCHANGED passwordVars
  BY <1>5 DEF passwordVars, ChosenPasswordKept
<1> QED BY <1>1, <1>2, <1>3, <1>4, <1>5 DEF PasswordNext

\* What is stored is what the user has chosen last: with a host that updates only the hash
\* of the user it is given, no login undoes a change of the password (142, 148).
THEOREM ChosenPasswordStays ==
  ASSUME ConditionalUpdate
  PROVE  PasswordSpec => []ChosenPasswordKept
<1>1. PasswordInit => ChosenPasswordKept
  BY DEF PasswordInit, ChosenPasswordKept
<1>2. PasswordInv /\ ChosenPasswordKept /\ [PasswordNext]_passwordVars
        => ChosenPasswordKept'
  BY ChosenStep
<1> QED BY <1>1, <1>2, PasswordInvInit, PasswordInvStep, PTL DEF PasswordSpec

-----------------------------------------------------------------------------
(***************************************************************************)
(* MFA: unless an enrolment is replaced in the middle of a verification, a *)
(* confirmed secret was verified, no enrolment comes back, and the         *)
(* recovery codes are those of the confirmed secret, for any users,        *)
(* operations and secrets, and wherever a call throws.                     *)
(***************************************************************************)

\* What an operation holds, by the step at which it stands.
LEMMA MfaPositionFields ==
  ASSUME MfaTypeOK, NEW p \in Operations
  PROVE  /\ mfaOp[p].step \in {"idle", "save", "get", "confirm", "redeem"}
         /\ mfaOp[p].step # "idle" => mfaOp[p].user \in Users
         /\ mfaOp[p].step \in {"save", "confirm", "redeem"} => mfaOp[p].secret \in Secrets
BY DEF MfaTypeOK, MfaPositions, MfaIdle, MfaAt

\* What is stored is an enrolment or nothing.
LEMMA StoredSecrets ==
  ASSUME MfaTypeOK, NEW u \in Users
  PROVE  /\ Secret(u) \subseteq Secrets
         /\ enrollment[u] # Nothing =>
              enrollment[u].secret \in Secrets /\ Secret(u) = {enrollment[u].secret}
         /\ enrollment[u].confirmed => enrollment[u] # Nothing
BY ConstantsOK DEF MfaTypeOK, Secret, Nothing, Enrolled

\* Every variable keeps its type.
LEMMA MfaTypeStep == MfaTypeOK /\ [MfaNext]_mfaVars => MfaTypeOK'
<1> SUFFICES ASSUME MfaTypeOK, [MfaNext]_mfaVars PROVE MfaTypeOK'
  OBVIOUS
<1>0. MfaIdle \in MfaPositions
  BY DEF MfaPositions
<1>1. ASSUME NEW p \in Operations, BeginEnrollment(p) PROVE MfaTypeOK'
  BY <1>1 DEF BeginEnrollment, MfaTypeOK, MfaPositions, MfaAt
<1>2. ASSUME NEW p \in Operations, SaveBegun(p) PROVE MfaTypeOK'
  <2>1. mfaOp[p].user \in Users /\ Enrolled(mfaOp[p].secret, FALSE) \in
          [secret: Secrets, confirmed: BOOLEAN]
    BY <1>2, MfaPositionFields DEF SaveBegun, Enrolled
  <2>2. past' \subseteq Secrets /\ tangled' \subseteq Users
    BY <1>2, <2>1, StoredSecrets DEF SaveBegun, Replaced, MfaTypeOK
  <2> QED BY <1>0, <1>2, <2>1, <2>2 DEF SaveBegun, MfaTypeOK
<1>3. ASSUME NEW p \in Operations, VerifyEnrollment(p) PROVE MfaTypeOK'
  <2> PICK u \in Users : /\ verified' = verified \cup Secret(u)
                         /\ recovery' = [recovery EXCEPT ![u] = Secret(u)]
                         /\ mfaOp' = [mfaOp EXCEPT ![p] = MfaAt("get", u, Null)]
    BY <1>3 DEF VerifyEnrollment
  <2>1. Secret(u) \subseteq Secrets /\ MfaAt("get", u, Null) \in MfaPositions
    BY StoredSecrets DEF MfaAt, MfaPositions
  <2> QED BY <1>3, <2>1 DEF VerifyEnrollment, MfaTypeOK
<1>4. ASSUME NEW p \in Operations, Get(p) PROVE MfaTypeOK'
  <2> DEFINE u == mfaOp[p].user
  <2>1. u \in Users
    BY <1>4, MfaPositionFields DEF Get
  <2>2. enrollment[u] # Nothing => MfaAt("confirm", u, enrollment[u].secret) \in MfaPositions
    BY <2>1, StoredSecrets DEF MfaAt, MfaPositions
  <2> QED BY <1>0, <1>4, <2>1, <2>2 DEF Get, MfaTypeOK
<1>5. ASSUME NEW p \in Operations, Confirm(p) PROVE MfaTypeOK'
  <2>1. mfaOp[p].user \in Users /\ Enrolled(mfaOp[p].secret, TRUE) \in
          [secret: Secrets, confirmed: BOOLEAN]
    BY <1>5, MfaPositionFields DEF Confirm, Enrolled
  <2>2. past' \subseteq Secrets
    BY <1>5, <2>1, StoredSecrets DEF Confirm, MfaTypeOK
  <2> QED BY <1>0, <1>5, <2>1, <2>2 DEF Confirm, MfaTypeOK
<1>6. CASE Disable
  <2> PICK u \in Users : enrollment' = [enrollment EXCEPT ![u] = Nothing] /\ Replaced(u)
    BY <1>6 DEF Disable
  <2>1. past' \subseteq Secrets /\ tangled' \subseteq Users
    BY StoredSecrets DEF Replaced, MfaTypeOK
  <2> QED BY <1>6, <2>1 DEF Disable, MfaTypeOK
<1>7. ASSUME NEW p \in Operations, Challenge(p) PROVE MfaTypeOK'
  <2> PICK u \in Users : \E s \in begun[u] :
        mfaOp' = [mfaOp EXCEPT ![p] = MfaAt("redeem", u, s)]
    BY <1>7 DEF Challenge
  <2> PICK s \in begun[u] : mfaOp' = [mfaOp EXCEPT ![p] = MfaAt("redeem", u, s)]
    OBVIOUS
  <2>1. s \in Secrets
    BY DEF MfaTypeOK
  <2>2. MfaAt("redeem", u, s) \in MfaPositions
    BY <2>1 DEF MfaAt, MfaPositions
  <2> QED BY <1>7, <2>2 DEF Challenge, MfaTypeOK
<1>8. ASSUME NEW p \in Operations, Redeem(p) \/ MfaThrows(p) PROVE MfaTypeOK'
  BY <1>0, <1>8 DEF Redeem, MfaThrows, MfaTypeOK
<1>9. CASE UNCHANGED mfaVars
  BY <1>9 DEF mfaVars, MfaTypeOK
<1> QED BY <1>1, <1>2, <1>3, <1>4, <1>5, <1>6, <1>7, <1>8, <1>9 DEF MfaNext

\* A host begins without enrolments.
LEMMA MfaTypeInit == MfaInit => MfaTypeOK
BY DEF MfaInit, MfaTypeOK, MfaPositions

\* Every variable keeps its type.
THEOREM MfaTypeCorrect == MfaSpec => []MfaTypeOK
BY MfaTypeInit, MfaTypeStep, PTL DEF MfaSpec

\* A secret is known to the user it was handed out to alone, and none is past before.
OwnSecrets ==
  /\ past \subseteq UNION {begun[u] : u \in Users}
  /\ \A u, v \in Users : u # v => begun[u] \cap begun[v] = {}
  /\ \A u \in Users : Secret(u) \subseteq begun[u]
  /\ \A p \in Operations :
       mfaOp[p].step \in {"save", "confirm"} => mfaOp[p].secret \in begun[mfaOp[p].user]

\* A secret that has not been saved yet is known to its operation alone.
UnsavedOK ==
  \A p \in Operations :
    mfaOp[p].step = "save" =>
      /\ mfaOp[p].secret \notin past \cup Secret(mfaOp[p].user)
      /\ \A q \in Operations :
           mfaOp[q].step \in {"save", "confirm"} /\ mfaOp[q].secret = mfaOp[p].secret => q = p

\* The secret of a user was verified, and the recovery codes came with it.
Proved(u) ==
  /\ enrollment[u].secret \in verified
  /\ recovery[u] \subseteq Secret(u)

\* The enrolment of a user is not past; while it is being verified, which will save that
\* same secret, and when it is confirmed, it is proved.
Settled(u) ==
  /\ Secret(u) \cap past = {}
  /\ Verifying(u) \/ enrollment[u].confirmed => Proved(u)
  /\ \A p \in Operations :
       mfaOp[p].step = "confirm" /\ mfaOp[p].user = u => mfaOp[p].secret = enrollment[u].secret

SettledOK == \A u \in Users \ tangled : Settled(u)

MfaInv == OwnSecrets /\ UnsavedOK /\ SettledOK

\* A host begins without enrolments, which settles them.
LEMMA MfaInvInit == MfaInit => MfaInv
<1> SUFFICES ASSUME MfaInit PROVE MfaInv
  OBVIOUS
<1>1. \A p \in Operations : mfaOp[p].step = "idle"
  BY DEF MfaInit, MfaIdle, MfaAt
<1>2. \A u \in Users : Secret(u) = {} /\ enrollment[u].confirmed = FALSE /\ begun[u] = {}
  BY DEF MfaInit, Secret, Nothing, Enrolled
<1>3. past = {}
  BY DEF MfaInit
<1> QED
  BY <1>1, <1>2, <1>3 DEF MfaInv, OwnSecrets, UnsavedOK, SettledOK, Settled, Verifying

\* A step that leaves a user's enrolment, recovery codes and verifications alone leaves
\* it settled, also when secrets of others become past.
LEMMA StaysSettled ==
  ASSUME OwnSecrets, NEW u \in Users, Settled(u),
         enrollment'[u] = enrollment[u],
         recovery'[u] \subseteq recovery[u],
         verified \subseteq verified',
         \A x \in past' \ past : x \notin begun[u],
         \A p \in Operations :
           mfaOp'[p].step \in {"get", "confirm"} /\ mfaOp'[p].user = u => mfaOp'[p] = mfaOp[p]
  PROVE  Settled(u)'
<1>1. Secret(u)' = Secret(u) /\ Secret(u) \subseteq begun[u]
  BY DEF Secret, OwnSecrets
<1>2. Secret(u)' \cap past' = {}
  BY <1>1 DEF Settled
<1>3. Verifying(u)' => Verifying(u)
  BY DEF Verifying
<1>4. Proved(u) => Proved(u)'
  BY <1>1 DEF Proved
<1>5. \A p \in Operations :
        mfaOp'[p].step = "confirm" /\ mfaOp'[p].user = u => mfaOp'[p].secret = enrollment'[u].secret
  BY DEF Settled
<1> QED BY <1>2, <1>3, <1>4, <1>5 DEF Settled

\* A new secret is nobody's.
LEMMA BeginStep ==
  ASSUME MfaTypeOK, MfaInv, NEW p \in Operations, BeginEnrollment(p)
  PROVE  MfaInv'
<1> PICK u \in Users, s \in Secrets \ UNION {begun[v] : v \in Users} :
      /\ begun' = [begun EXCEPT ![u] = @ \cup {s}]
      /\ mfaOp' = [mfaOp EXCEPT ![p] = MfaAt("save", u, s)]
  BY DEF BeginEnrollment
<1>0. /\ mfaOp[p].step = "idle"
      /\ UNCHANGED <<enrollment, recovery, verified, past, tangled>>
      /\ \A v \in Users : s \notin begun[v]
  BY DEF BeginEnrollment
<1>1. /\ \A q \in Operations \ {p} : mfaOp'[q] = mfaOp[q]
      /\ mfaOp'[p].step = "save" /\ mfaOp'[p].user = u /\ mfaOp'[p].secret = s
  BY DEF MfaTypeOK, MfaAt
<1>2. /\ begun'[u] = begun[u] \cup {s}
      /\ \A v \in Users \ {u} : begun'[v] = begun[v]
      /\ \A v \in Users : Secret(v)' = Secret(v)
  BY <1>0 DEF MfaTypeOK, Secret
<1>3. OwnSecrets'
  <2>1. \A v, w \in Users : v # w => begun'[v] \cap begun'[w] = {}
    BY <1>0, <1>2 DEF MfaInv, OwnSecrets
  <2>2. \A v \in Users : begun[v] \subseteq begun'[v]
    BY <1>2
  <2>3. \A q \in Operations : mfaOp'[q].step \in {"save", "confirm"} =>
          mfaOp'[q].secret \in begun'[mfaOp'[q].user]
    <3> SUFFICES ASSUME NEW q \in Operations \ {p}, mfaOp[q].step \in {"save", "confirm"}
                 PROVE  mfaOp[q].secret \in begun'[mfaOp[q].user]
      BY <1>1, <1>2
    <3>1. mfaOp[q].user \in Users /\ mfaOp[q].secret \in begun[mfaOp[q].user]
      BY MfaPositionFields DEF MfaInv, OwnSecrets
    <3> QED BY <2>2, <3>1
  <2>4. past' \subseteq UNION {begun'[v] : v \in Users}
    BY <1>0, <2>2 DEF MfaInv, OwnSecrets
  <2> QED BY <1>2, <2>1, <2>2, <2>3, <2>4 DEF MfaInv, OwnSecrets
<1>4. UnsavedOK'
  <2>1. s \notin past /\ \A v \in Users : s \notin Secret(v)
    BY <1>0 DEF MfaInv, OwnSecrets
  <2>2. \A q \in Operations : mfaOp[q].step \in {"save", "confirm"} => mfaOp[q].secret # s
    BY <1>0, MfaPositionFields DEF MfaInv, OwnSecrets
  <2>3. \A q \in Operations : mfaOp[q].step = "save" => mfaOp[q].user \in Users
    BY MfaPositionFields
  <2> QED BY <1>0, <1>1, <1>2, <2>1, <2>2, <2>3 DEF MfaInv, UnsavedOK
<1>5. SettledOK'
  BY <1>0, <1>1, StaysSettled DEF MfaInv, SettledOK
<1> QED BY <1>3, <1>4, <1>5 DEF MfaInv

\* What is past is the user's own.
LEMMA ReplacedSecrets ==
  ASSUME MfaTypeOK, OwnSecrets, UNCHANGED begun, NEW u \in Users,
         past' \subseteq past \cup Secret(u)
  PROVE  /\ past' \subseteq UNION {begun'[v] : v \in Users}
         /\ \A v \in Users \ {u} : \A x \in past' \ past : x \notin begun[v]
<1>1. Secret(u) \subseteq begun[u]
  BY DEF OwnSecrets
<1>2. \A v \in Users \ {u} : begun[u] \cap begun[v] = {}
  BY DEF OwnSecrets
<1> QED BY <1>1, <1>2 DEF OwnSecrets

\* A begun enrolment takes the place of what was there.
LEMMA SaveBegunStep ==
  ASSUME MfaTypeOK, MfaInv, NEW p \in Operations, SaveBegun(p)
  PROVE  MfaInv'
<1> PICK u \in Users, s \in Secrets : mfaOp[p].user = u /\ mfaOp[p].secret = s
  BY MfaPositionFields DEF SaveBegun
<1>0. /\ mfaOp[p].step = "save"
      /\ enrollment' = [enrollment EXCEPT ![u] = Enrolled(s, FALSE)]
      /\ past' = past \cup Secret(u)
      /\ tangled' = IF Verifying(u) THEN tangled \cup {u} ELSE tangled \ {u}
      /\ mfaOp' = [mfaOp EXCEPT ![p] = MfaIdle]
      /\ UNCHANGED <<recovery, begun, verified>>
  BY DEF SaveBegun, Replaced
<1>1. /\ \A q \in Operations \ {p} : mfaOp'[q] = mfaOp[q]
      /\ mfaOp'[p].step = "idle"
  BY <1>0 DEF MfaTypeOK, MfaIdle, MfaAt
<1>2. /\ enrollment'[u].secret = s /\ enrollment'[u].confirmed = FALSE
      /\ \A v \in Users \ {u} : enrollment'[v] = enrollment[v] /\ Secret(v)' = Secret(v)
      /\ Secret(u)' = {s}
  BY <1>0, ConstantsOK DEF MfaTypeOK, Enrolled, Secret
<1>3. /\ s \notin past \cup Secret(u)
      /\ s \in begun[u]
      /\ \A q \in Operations :
           mfaOp[q].step \in {"save", "confirm"} /\ mfaOp[q].secret = s => q = p
  BY <1>0 DEF MfaInv, UnsavedOK, OwnSecrets
<1>4. /\ past' \subseteq UNION {begun'[v] : v \in Users}
      /\ \A v \in Users \ {u} : \A x \in past' \ past : x \notin begun[v]
  BY <1>0, ReplacedSecrets DEF MfaInv
<1>5. OwnSecrets'
  BY <1>0, <1>1, <1>2, <1>3, <1>4 DEF MfaInv, OwnSecrets
<1>6. UnsavedOK'
  <2> SUFFICES ASSUME NEW q \in Operations \ {p}, NEW w \in Users,
                      mfaOp[q].step = "save", mfaOp[q].user = w
               PROVE  /\ mfaOp[q].secret \notin past' \cup Secret(w)'
                      /\ \A r \in Operations \ {p} :
                           mfaOp[r].step \in {"save", "confirm"}
                             /\ mfaOp[r].secret = mfaOp[q].secret => r = q
    BY <1>1, MfaPositionFields DEF UnsavedOK
  <2>1. /\ mfaOp[q].secret \in begun[w]
        /\ mfaOp[q].secret \notin past \cup Secret(w)
        /\ \A r \in Operations :
             mfaOp[r].step \in {"save", "confirm"} /\ mfaOp[r].secret = mfaOp[q].secret => r = q
        /\ mfaOp[q].secret # s
    BY <1>3 DEF MfaInv, UnsavedOK, OwnSecrets
  <2>2. CASE w = u
    BY <1>0, <1>2, <2>1, <2>2
  <2>3. CASE w # u
    BY <1>2, <1>4, <2>1, <2>3
  <2> QED BY <2>1, <2>2, <2>3
<1>7. SettledOK'
  <2> SUFFICES ASSUME NEW v \in Users \ tangled' PROVE Settled(v)'
    BY DEF SettledOK
  <2>1. CASE v = u
    <3>1. ~Verifying(u)
      BY <1>0, <2>1
    <3>2. \A q \in Operations : ~(mfaOp'[q].step \in {"get", "confirm"} /\ mfaOp'[q].user = u)
      BY <1>1, <3>1 DEF Verifying
    <3>3. Secret(u)' \cap past' = {}
      BY <1>0, <1>2, <1>3
    <3>4. ~Verifying(u)'
      BY <3>2 DEF Verifying
    <3> QED BY <1>2, <2>1, <3>2, <3>3, <3>4 DEF Settled
  <2>2. CASE v # u
    <3>1. v \notin tangled
      BY <1>0, <2>2
    <3>2. enrollment'[v] = enrollment[v] /\ \A x \in past' \ past : x \notin begun[v]
      BY <1>2, <1>4, <2>2
    <3> QED BY <1>0, <1>1, <3>1, <3>2, StaysSettled DEF MfaInv, SettledOK
  <2> QED BY <2>1, <2>2
<1> QED BY <1>5, <1>6, <1>7 DEF MfaInv

\* A code of the stored secret is accepted, and new recovery codes come with it.
LEMMA VerifyStep ==
  ASSUME MfaTypeOK, MfaInv, NEW p \in Operations, VerifyEnrollment(p)
  PROVE  MfaInv'
<1> PICK u \in Users :
      /\ enrollment[u] # Nothing
      /\ verified' = verified \cup Secret(u)
      /\ recovery' = [recovery EXCEPT ![u] = Secret(u)]
      /\ mfaOp' = [mfaOp EXCEPT ![p] = MfaAt("get", u, Null)]
  BY DEF VerifyEnrollment
<1>0. /\ mfaOp[p].step = "idle"
      /\ UNCHANGED <<enrollment, begun, past, tangled>>
      /\ \A v \in Users : Secret(v)' = Secret(v)
  BY DEF VerifyEnrollment, Secret
<1>1. /\ \A q \in Operations \ {p} : mfaOp'[q] = mfaOp[q]
      /\ mfaOp'[p].step = "get" /\ mfaOp'[p].user = u
  BY DEF MfaTypeOK, MfaAt
<1>2. OwnSecrets'
  BY <1>0, <1>1 DEF MfaInv, OwnSecrets
<1>3. UnsavedOK'
  <2>1. \A q \in Operations : mfaOp[q].step = "save" => mfaOp[q].user \in Users
    BY MfaPositionFields
  <2> QED BY <1>0, <1>1, <2>1 DEF MfaInv, UnsavedOK
<1>4. SettledOK'
  <2> SUFFICES ASSUME NEW v \in Users \ tangled PROVE Settled(v)'
    BY <1>0 DEF SettledOK
  <2>1. Settled(v)
    BY DEF MfaInv, SettledOK
  <2>2. CASE v = u
    <3>1. enrollment'[u].secret \in verified' /\ recovery'[u] = Secret(u)
      BY <1>0, StoredSecrets DEF MfaTypeOK
    <3>2. Proved(u)'
      BY <1>0, <3>1 DEF Proved
    <3>3. Secret(u)' \cap past' = {}
      BY <1>0, <2>1, <2>2 DEF Settled
    <3>4. \A q \in Operations :
            mfaOp'[q].step = "confirm" /\ mfaOp'[q].user = u =>
              mfaOp'[q].secret = enrollment'[u].secret
      BY <1>0, <1>1, <2>1, <2>2 DEF Settled
    <3> QED BY <2>2, <3>2, <3>3, <3>4 DEF Settled
  <2>3. CASE v # u
    <3>1. recovery'[v] = recovery[v]
      BY <2>3 DEF MfaTypeOK
    <3>2. \A q \in Operations :
            mfaOp'[q].step \in {"get", "confirm"} /\ mfaOp'[q].user = v => mfaOp'[q] = mfaOp[q]
      BY <1>1, <2>3
    <3> QED BY <1>0, <2>1, <3>1, <3>2, StaysSettled DEF MfaInv
  <2> QED BY <2>2, <2>3
<1> QED BY <1>2, <1>3, <1>4 DEF MfaInv

\* The enrolment that is read again is the one that was verified, if it is settled.
LEMMA GetStep ==
  ASSUME MfaTypeOK, MfaInv, NEW p \in Operations, Get(p)
  PROVE  MfaInv'
<1> PICK u \in Users : mfaOp[p].user = u
  BY MfaPositionFields DEF Get
<1>0. /\ mfaOp[p].step = "get"
      /\ UNCHANGED <<enrollment, recovery, begun, verified, past, tangled>>
      /\ \A v \in Users : Secret(v)' = Secret(v)
  BY DEF Get, Secret
<1>1. /\ \A q \in Operations \ {p} : mfaOp'[q] = mfaOp[q]
      /\ \/ mfaOp'[p].step = "idle"
         \/ /\ mfaOp'[p].step = "confirm" /\ mfaOp'[p].user = u
            /\ mfaOp'[p].secret = enrollment[u].secret
            /\ Secret(u) = {enrollment[u].secret}
  BY <1>0, StoredSecrets DEF Get, MfaTypeOK, MfaIdle, MfaAt
<1>2. OwnSecrets'
  BY <1>0, <1>1 DEF MfaInv, OwnSecrets
<1>3. UnsavedOK'
  <2> SUFFICES ASSUME NEW q \in Operations \ {p}, NEW w \in Users,
                      mfaOp[q].step = "save", mfaOp[q].user = w
               PROVE  /\ mfaOp[q].secret \notin past' \cup Secret(w)'
                      /\ \A r \in Operations :
                           mfaOp'[r].step \in {"save", "confirm"}
                             /\ mfaOp'[r].secret = mfaOp[q].secret => r = q
    BY <1>1, MfaPositionFields DEF UnsavedOK
  <2>1. /\ mfaOp[q].secret \in begun[w]
        /\ mfaOp[q].secret \notin past \cup Secret(w)
        /\ \A r \in Operations :
             mfaOp[r].step \in {"save", "confirm"} /\ mfaOp[r].secret = mfaOp[q].secret => r = q
    BY DEF MfaInv, UnsavedOK, OwnSecrets
  <2>2. mfaOp[q].secret \notin Secret(u)
    BY <1>0, <2>1 DEF MfaInv, OwnSecrets
  <2>3. mfaOp'[p].step \in {"save", "confirm"} => mfaOp'[p].secret # mfaOp[q].secret
    BY <1>1, <2>2
  <2> QED BY <1>0, <1>1, <2>1, <2>3
<1>4. SettledOK'
  <2> SUFFICES ASSUME NEW v \in Users \ tangled PROVE Settled(v)'
    BY <1>0 DEF SettledOK
  <2>1. Settled(v)
    BY DEF MfaInv, SettledOK
  <2>2. Verifying(v)' => Verifying(v)
    BY <1>0, <1>1 DEF Verifying
  <2>3. Proved(v) => Proved(v)'
    BY <1>0 DEF Proved
  <2>4. \A q \in Operations :
          mfaOp'[q].step = "confirm" /\ mfaOp'[q].user = v =>
            mfaOp'[q].secret = enrollment'[v].secret
    BY <1>0, <1>1, <2>1 DEF Settled
  <2> QED BY <1>0, <2>1, <2>2, <2>3, <2>4 DEF Settled
<1> QED BY <1>2, <1>3, <1>4 DEF MfaInv

\* It is confirmed; if it is settled nothing else of it changes.
LEMMA ConfirmStep ==
  ASSUME MfaTypeOK, MfaInv, NEW p \in Operations, Confirm(p)
  PROVE  MfaInv'
<1> PICK u \in Users, s \in Secrets : mfaOp[p].user = u /\ mfaOp[p].secret = s
  BY MfaPositionFields DEF Confirm
<1>0. /\ mfaOp[p].step = "confirm"
      /\ enrollment' = [enrollment EXCEPT ![u] = Enrolled(s, TRUE)]
      /\ past' = past \cup (Secret(u) \ {s})
      /\ mfaOp' = [mfaOp EXCEPT ![p] = MfaIdle]
      /\ UNCHANGED <<recovery, begun, verified, tangled>>
  BY DEF Confirm
<1>1. /\ \A q \in Operations \ {p} : mfaOp'[q] = mfaOp[q]
      /\ mfaOp'[p].step = "idle"
  BY <1>0 DEF MfaTypeOK, MfaIdle, MfaAt
<1>2. /\ enrollment'[u].secret = s
      /\ \A v \in Users \ {u} : enrollment'[v] = enrollment[v] /\ Secret(v)' = Secret(v)
      /\ Secret(u)' = {s}
  BY <1>0, ConstantsOK DEF MfaTypeOK, Enrolled, Secret
<1>3. /\ past' \subseteq UNION {begun'[v] : v \in Users}
      /\ \A v \in Users \ {u} : \A x \in past' \ past : x \notin begun[v]
  BY <1>0, ReplacedSecrets DEF MfaInv
<1>4. s \in begun[u]
  BY <1>0 DEF MfaInv, OwnSecrets
<1>5. OwnSecrets'
  BY <1>0, <1>1, <1>2, <1>3, <1>4 DEF MfaInv, OwnSecrets
<1>6. UnsavedOK'
  <2> SUFFICES ASSUME NEW q \in Operations \ {p}, NEW w \in Users,
                      mfaOp[q].step = "save", mfaOp[q].user = w
               PROVE  /\ mfaOp[q].secret \notin past' \cup Secret(w)'
                      /\ \A r \in Operations \ {p} :
                           mfaOp[r].step \in {"save", "confirm"}
                             /\ mfaOp[r].secret = mfaOp[q].secret => r = q
    BY <1>1, MfaPositionFields DEF UnsavedOK
  <2>1. /\ mfaOp[q].secret \in begun[w]
        /\ mfaOp[q].secret \notin past \cup Secret(w)
        /\ \A r \in Operations :
             mfaOp[r].step \in {"save", "confirm"} /\ mfaOp[r].secret = mfaOp[q].secret => r = q
    BY DEF MfaInv, UnsavedOK, OwnSecrets
  <2>2. mfaOp[q].secret # s
    BY <1>0, <2>1
  <2>3. CASE w = u
    BY <1>0, <1>2, <2>1, <2>2, <2>3
  <2>4. CASE w # u
    BY <1>2, <1>3, <2>1, <2>4
  <2> QED BY <2>1, <2>3, <2>4
<1>7. SettledOK'
  <2> SUFFICES ASSUME NEW v \in Users \ tangled PROVE Settled(v)'
    BY <1>0 DEF SettledOK
  <2>1. Settled(v)
    BY DEF MfaInv, SettledOK
  <2>2. CASE v = u
    <3>1. Verifying(u)
      BY <1>0 DEF Verifying
    <3>2. Proved(u) /\ s = enrollment[u].secret
      BY <1>0, <2>1, <2>2, <3>1 DEF Settled
    <3>3. Secret(u) = {s} /\ past' = past
      <4>1. s # Null
        BY ConstantsOK
      <4>2. Secret(u) = {s}
        BY <3>2, <4>1 DEF Secret
      <4>3. past' = past \cup ({s} \ {s})
        BY <1>0, <4>2
      <4> QED BY <4>2, <4>3
    <3>4. Proved(u)'
      <4>1. enrollment'[u].secret \in verified'
        <5>1. s \in verified
          BY <3>2 DEF Proved
        <5>2. verified' = verified /\ enrollment'[u].secret = s
          BY <1>0, <1>2
        <5> QED BY <5>1, <5>2
      <4>2. recovery' = recovery /\ Secret(u)' = Secret(u)
        BY <1>0, <1>2, <3>3
      <4> QED BY <3>2, <4>1, <4>2 DEF Proved
    <3>5. Secret(u)' \cap past' = {}
      BY <1>2, <2>1, <2>2, <3>3 DEF Settled
    <3>6. \A q \in Operations :
            mfaOp'[q].step = "confirm" /\ mfaOp'[q].user = u =>
              mfaOp'[q].secret = enrollment'[u].secret
      BY <1>1, <1>2, <2>1, <2>2, <3>2 DEF Settled
    <3> QED BY <2>2, <3>4, <3>5, <3>6 DEF Settled
  <2>3. CASE v # u
    <3>1. enrollment'[v] = enrollment[v] /\ \A x \in past' \ past : x \notin begun[v]
      BY <1>2, <1>3, <2>3
    <3> QED BY <1>0, <1>1, <2>1, <3>1, StaysSettled DEF MfaInv
  <2> QED BY <2>2, <2>3
<1> QED BY <1>5, <1>6, <1>7 DEF MfaInv

\* An enrolment is disabled at any moment.
LEMMA DisableStep ==
  ASSUME MfaTypeOK, MfaInv, Disable
  PROVE  MfaInv'
<1> PICK u \in Users :
      /\ enrollment' = [enrollment EXCEPT ![u] = Nothing]
      /\ Replaced(u)
      /\ UNCHANGED <<recovery, begun, verified, mfaOp>>
  BY DEF Disable
<1>0. /\ past' = past \cup Secret(u)
      /\ tangled' = IF Verifying(u) THEN tangled \cup {u} ELSE tangled \ {u}
  BY DEF Replaced
<1>1. /\ enrollment'[u].confirmed = FALSE /\ Secret(u)' = {}
      /\ \A v \in Users \ {u} : enrollment'[v] = enrollment[v] /\ Secret(v)' = Secret(v)
  BY DEF MfaTypeOK, Nothing, Enrolled, Secret
<1>2. /\ past' \subseteq UNION {begun'[v] : v \in Users}
      /\ \A v \in Users \ {u} : \A x \in past' \ past : x \notin begun[v]
  BY <1>0, ReplacedSecrets DEF MfaInv
<1>3. OwnSecrets'
  BY <1>1, <1>2 DEF MfaInv, OwnSecrets
<1>4. UnsavedOK'
  <2> SUFFICES ASSUME NEW q \in Operations, NEW w \in Users,
                      mfaOp[q].step = "save", mfaOp[q].user = w
               PROVE  mfaOp[q].secret \notin past' \cup Secret(w)'
    BY MfaPositionFields DEF MfaInv, UnsavedOK
  <2>1. /\ mfaOp[q].secret \in begun[w]
        /\ mfaOp[q].secret \notin past \cup Secret(w)
    BY DEF MfaInv, UnsavedOK, OwnSecrets
  <2>2. CASE w = u
    BY <1>0, <1>1, <2>1, <2>2
  <2>3. CASE w # u
    BY <1>1, <1>2, <2>1, <2>3
  <2> QED BY <2>2, <2>3
<1>5. SettledOK'
  <2> SUFFICES ASSUME NEW v \in Users \ tangled' PROVE Settled(v)'
    BY DEF SettledOK
  <2>1. CASE v = u
    <3>1. ~Verifying(u) /\ ~Verifying(u)'
      BY <1>0, <2>1 DEF Verifying
    <3>2. \A q \in Operations : ~(mfaOp'[q].step = "confirm" /\ mfaOp'[q].user = u)
      BY <3>1 DEF Verifying
    <3> QED BY <1>1, <2>1, <3>1, <3>2 DEF Settled
  <2>2. CASE v # u
    <3>1. v \notin tangled
      BY <1>0, <2>2
    <3>2. enrollment'[v] = enrollment[v] /\ \A x \in past' \ past : x \notin begun[v]
      BY <1>1, <1>2, <2>2
    <3> QED BY <3>1, <3>2, StaysSettled DEF MfaInv, SettledOK
  <2> QED BY <2>1, <2>2
<1> QED BY <1>3, <1>4, <1>5 DEF MfaInv

\* A recovery code is tried and used up, or a call throws.
LEMMA OtherSteps ==
  ASSUME MfaTypeOK, MfaInv, NEW p \in Operations, Challenge(p) \/ Redeem(p) \/ MfaThrows(p)
  PROVE  MfaInv'
<1>0. /\ UNCHANGED <<enrollment, begun, verified, past, tangled>>
      /\ \A v \in Users : Secret(v)' = Secret(v)
  BY DEF Challenge, Redeem, MfaThrows, Secret
<1>1. /\ \A q \in Operations \ {p} : mfaOp'[q] = mfaOp[q]
      /\ mfaOp'[p].step \in {"idle", "redeem"}
  BY DEF Challenge, Redeem, MfaThrows, MfaTypeOK, MfaIdle, MfaAt
<1>2. \A u \in Users : recovery'[u] \subseteq recovery[u]
  BY DEF Challenge, Redeem, MfaThrows, MfaTypeOK
<1>3. OwnSecrets'
  BY <1>0, <1>1 DEF MfaInv, OwnSecrets
<1>4. UnsavedOK'
  <2>1. \A q \in Operations : mfaOp[q].step = "save" => mfaOp[q].user \in Users
    BY MfaPositionFields
  <2> QED BY <1>0, <1>1, <2>1 DEF MfaInv, UnsavedOK
<1>5. SettledOK'
  BY <1>0, <1>1, <1>2, StaysSettled DEF MfaInv, SettledOK
<1> QED BY <1>3, <1>4, <1>5 DEF MfaInv

\* So the invariant holds of every behaviour.
LEMMA MfaInvariant == MfaSpec => []MfaInv
<1>1. MfaTypeOK /\ MfaInv /\ [MfaNext]_mfaVars => MfaInv'
  <2> SUFFICES ASSUME MfaTypeOK, MfaInv, [MfaNext]_mfaVars PROVE MfaInv'
    OBVIOUS
  <2>1. CASE UNCHANGED mfaVars
    BY <2>1 DEF mfaVars, MfaInv, OwnSecrets, UnsavedOK, SettledOK, Settled, Proved, Verifying,
                Secret
  <2> QED BY <2>1, BeginStep, SaveBegunStep, VerifyStep, GetStep, ConfirmStep, DisableStep,
             OtherSteps DEF MfaNext
<1> QED BY <1>1, MfaInvInit, MfaTypeCorrect, PTL DEF MfaSpec

\* A secret that is stored as confirmed is one of which a code was accepted, however many
\* operations are under way and wherever they fail, but for a user whose enrolment was
\* replaced between a verification and its save.
THEOREM ConfirmedSecretsWereVerified == MfaSpec => []ConfirmedUnlessTangled
<1>1. MfaInv => ConfirmedUnlessTangled
  BY DEF MfaInv, SettledOK, Settled, Proved, ConfirmedUnlessTangled
<1> QED BY <1>1, MfaInvariant, PTL

\* An enrolment that was disabled or replaced never comes back, with the same exception.
THEOREM EnrollmentsStayPast == MfaSpec => []EnrollmentsNeverReturn
<1>1. MfaInv => EnrollmentsNeverReturn
  BY DEF MfaInv, SettledOK, Settled, EnrollmentsNeverReturn
<1> QED BY <1>1, MfaInvariant, PTL

\* The recovery codes of a user with a confirmed enrolment came with its secret, with the
\* same exception.
THEOREM RecoveryCodesAlwaysFit == MfaSpec => []RecoveryCodesFit
<1>1. MfaInv => RecoveryCodesFit
  BY DEF MfaInv, SettledOK, Settled, Proved, RecoveryCodesFit
<1> QED BY <1>1, MfaInvariant, PTL

-----------------------------------------------------------------------------
(***************************************************************************)
(* The age gate, for any years, days and minimum ages.                     *)
(***************************************************************************)

\* A day of the calendar.
Day(d) ==
  /\ d \in [year : Int, month : 1..12, day : 1..31]
  /\ d.day <= DaysIn(d.year, d.month)

\* Only the length of February depends on the year, and no month is shorter.
LEMMA MonthLengths ==
  ASSUME NEW y \in Int, NEW m \in 1..12
  PROVE  /\ DaysIn(y, m) \in 28..31
         /\ m = 2 => DaysIn(y, m) <= 29
         /\ m # 2 => \A x \in Int : DaysIn(x, m) = DaysIn(y, m)
         /\ DaysIn(y, 3) = 31
<1>1. ASSUME NEW x \in Int PROVE m # 2 => DaysIn(x, m) = DaysIn(y, m)
  BY <1>1 DEF DaysIn, MonthLength
<1>2. DaysIn(y, m) \in 28..31 /\ (m = 2 => DaysIn(y, m) <= 29)
  BY DEF DaysIn, MonthLength
<1>3. DaysIn(y, 3) = 31
  BY DEF DaysIn, MonthLength
<1> QED BY <1>1, <1>2, <1>3

\* The days of birth, and those a signup begins, are days of the calendar.
LEMMA DatesAreDays == \A d \in Dates : Day(d)
<1> SUFFICES ASSUME NEW d \in Dates PROVE Day(d)
  OBVIOUS
<1>1. PICK y \in Years, s \in DaysOfYear : d = Date(y, s[1], s[2])
  BY DEF Dates
<1>2. y \in Int /\ s[1] \in 1..12 /\ s[2] \in 1..31
  BY AgeConstantsOK
<1> QED BY <1>1, <1>2 DEF Dates, Day, Date

\* The next day is a day of the calendar, and a later one.
LEMMA TomorrowIsLater ==
  ASSUME NEW d, Day(d)
  PROVE  Day(Tomorrow(d)) /\ Before(d, Tomorrow(d))
<1>0. /\ d.year \in Int /\ d.month \in 1..12 /\ d.day \in 1..31
      /\ d.day <= DaysIn(d.year, d.month) /\ DaysIn(d.year, d.month) \in 28..31
  BY MonthLengths DEF Day
<1>1. CASE d.day < DaysIn(d.year, d.month)
  <2>1. Tomorrow(d) = [d EXCEPT !.day = @ + 1]
    BY <1>0, <1>1 DEF Tomorrow
  <2> QED BY <1>0, <1>1, <2>1 DEF Day, Before
<1>2. CASE d.day = DaysIn(d.year, d.month) /\ d.month < 12
  <2>1. Tomorrow(d) = Date(d.year, d.month + 1, 1)
    BY <1>0, <1>2 DEF Tomorrow
  <2>2. d.month + 1 \in 1..12 /\ 1 <= DaysIn(d.year, d.month + 1)
    BY <1>0, <1>2, MonthLengths
  <2> QED BY <1>0, <2>1, <2>2 DEF Day, Before, Date
<1>3. CASE d.day = DaysIn(d.year, d.month) /\ d.month = 12
  <2>1. Tomorrow(d) = Date(d.year + 1, 1, 1)
    BY <1>0, <1>3 DEF Tomorrow
  <2>2. 1 <= DaysIn(d.year + 1, 1)
    BY <1>0, MonthLengths
  <2> QED BY <1>0, <2>1, <2>2 DEF Day, Before, Date
<1> QED BY <1>0, <1>1, <1>2, <1>3

\* Whether the birthday of the year is still to come on a day, as GetAge decides.
ToCome(t) ==
  \/ t.month < dateOfBirth.month
  \/ t.month = dateOfBirth.month /\ t.day < dateOfBirth.day

\* An age is a difference of years, less one while the birthday is to come.
LEMMA AgeIs ==
  ASSUME NEW t, Day(t), Day(dateOfBirth)
  PROVE  /\ GetAge(t) \in Int
         /\ GetAge(t) = t.year - dateOfBirth.year - (IF ToCome(t) THEN 1 ELSE 0)
  BY DEF GetAge, ToCome, Day

\* The comparison of dates in the orchestrator is the comparison of ages in the panel.
LEMMA BothCountAlike ==
  ASSUME NEW t, Day(t), Day(dateOfBirth), options.minimumAge \in Nat
  PROVE  BornEarlyEnough(t) <=> GetAge(t) >= options.minimumAge
<1> DEFINE n == options.minimumAge
           last == DaysIn(t.year - n, t.month)
           day == IF t.day > last THEN last ELSE t.day
<1>0. /\ t.year \in Int /\ t.month \in 1..12 /\ t.day \in 1..31 /\ n \in Nat
      /\ dateOfBirth.year \in Int /\ dateOfBirth.month \in 1..12 /\ dateOfBirth.day \in 1..31
      /\ dateOfBirth.day <= DaysIn(dateOfBirth.year, dateOfBirth.month)
  BY DEF Day
<1>1. last \in 28..31
  BY <1>0, MonthLengths
<1>2. BornEarlyEnough(t) <=> ~Before(Date(t.year - n, t.month, day), dateOfBirth)
  BY DEF BornEarlyEnough, YearsBefore
<1>3. Before(Date(t.year - n, t.month, day), dateOfBirth) <=>
        \/ t.year - n < dateOfBirth.year
        \/ t.year - n = dateOfBirth.year /\ t.month < dateOfBirth.month
        \/ t.year - n = dateOfBirth.year /\ t.month = dateOfBirth.month /\ day < dateOfBirth.day
  BY DEF Before, Date
<1>4. t.year - n = dateOfBirth.year /\ t.month = dateOfBirth.month
        => (day < dateOfBirth.day <=> t.day < dateOfBirth.day)
  BY <1>0, <1>1
<1> HIDE DEF day, last
<1>5. Before(Date(t.year - n, t.month, day), dateOfBirth) <=>
        \/ t.year - n < dateOfBirth.year
        \/ t.year - n = dateOfBirth.year /\ ToCome(t)
  BY <1>3, <1>4 DEF ToCome
<1> QED BY <1>0, <1>2, <1>5, AgeIs

\* Ages do not fall.
LEMMA AgesGrow ==
  ASSUME NEW s, NEW t, Day(s), Day(t), Day(dateOfBirth), ~Before(t, s)
  PROVE  GetAge(t) >= GetAge(s)
<1>1. /\ s.year \in Int /\ s.month \in 1..12 /\ s.day \in 1..31
      /\ t.year \in Int /\ t.month \in 1..12 /\ t.day \in 1..31
      /\ dateOfBirth.year \in Int /\ dateOfBirth.month \in 1..12 /\ dateOfBirth.day \in 1..31
  BY DEF Day
<1> QED BY <1>1, AgeIs DEF Before, ToCome

\* The birthdays up to a day are one for each year of the age.
LEMMA BirthdaysAreYears ==
  ASSUME NEW t, Day(t), Day(dateOfBirth), NEW n \in Nat \ {0}
  PROVE  Birthdays(t) >= n <=> GetAge(t) >= n
<1> DEFINE Birthday(y) == IF dateOfBirth.day <= DaysIn(y, dateOfBirth.month)
                          THEN [dateOfBirth EXCEPT !.year = y]
                          ELSE Date(y, 3, 1)
           first == dateOfBirth.year + 1
           had == t.year - (IF ToCome(t) THEN 1 ELSE 0)
<1>0. /\ t.year \in Int /\ t.month \in 1..12 /\ t.day \in 1..31
      /\ t.day <= DaysIn(t.year, t.month)
      /\ dateOfBirth.year \in Int /\ dateOfBirth.month \in 1..12 /\ dateOfBirth.day \in 1..31
      /\ dateOfBirth.day <= DaysIn(dateOfBirth.year, dateOfBirth.month)
      /\ dateOfBirth \in [year : Int, month : 1..12, day : 1..31]
  BY DEF Day
<1>1. ASSUME NEW y \in first..t.year
      PROVE  ~Before(t, Birthday(y)) <=> y < t.year \/ ~ToCome(t)
  <2>0. y \in Int /\ y <= t.year
    BY <1>0
  <2>1. CASE dateOfBirth.day <= DaysIn(y, dateOfBirth.month)
    <3>1. /\ Birthday(y).year = y /\ Birthday(y).month = dateOfBirth.month
          /\ Birthday(y).day = dateOfBirth.day
      BY <1>0, <2>1
    <3> HIDE DEF Birthday
    <3> QED BY <1>0, <2>0, <3>1 DEF Before, ToCome
  <2>2. CASE ~(dateOfBirth.day <= DaysIn(y, dateOfBirth.month))
    <3>1. Birthday(y).year = y /\ Birthday(y).month = 3 /\ Birthday(y).day = 1
      BY <2>2 DEF Date
    <3>2. /\ dateOfBirth.month = 2 /\ dateOfBirth.day = 29 /\ DaysIn(y, 2) = 28
      BY <1>0, <2>0, <2>2, MonthLengths
    <3>3. y = t.year /\ t.month = 2 => t.day <= 28
      BY <1>0, <3>2
    <3> HIDE DEF Birthday
    <3> QED BY <1>0, <2>0, <3>1, <3>2, <3>3 DEF Before, ToCome
  <2> QED BY <2>1, <2>2
<1>2. {y \in first..t.year : ~Before(t, Birthday(y))} = first..had
  BY <1>0, <1>1
<1>3. Birthdays(t) = Cardinality(first..had)
  BY <1>2 DEF Birthdays
<1>4. Cardinality(first..had) = IF first > had THEN 0 ELSE had - first + 1
  <2>1. first \in Int /\ had \in Int
    BY <1>0
  <2> HIDE DEF first, had
  <2> QED BY <2>1, FS_Interval
<1> QED BY <1>0, <1>3, <1>4, AgeIs

\* Strengthens GateTypeOK: the two dates differ by a day at most, so that they leave the
\* days a signup begins together.
Near ==
  \/ local = today /\ local \in Dates \cup {Tomorrow(d) : d \in Dates}
  \/ today = Tomorrow(local) /\ local \in Dates \cup {Tomorrow(d) : d \in Dates}
  \/ local = Tomorrow(today) /\ today \in Dates

GateInv == GateTypeOK /\ Near

\* Such dates have their types.
LEMMA NearDates ==
  ASSUME Near
  PROVE  {local, today} \subseteq Dates \cup {Tomorrow(d) : d \in Dates}
                                   \cup {Tomorrow(Tomorrow(d)) : d \in Dates}
  BY DEF Near

\* So both hold of every behaviour.
LEMMA GateInvariant == GateSpec => []GateInv
<1>1. GateInit => GateInv
  <2> SUFFICES ASSUME GateInit PROVE GateInv
    OBVIOUS
  <2>1. Near
    BY DEF GateInit, Near
  <2> QED BY <2>1, NearDates DEF GateInit, GateInv, GateTypeOK
<1>2. GateInv /\ [GateNext]_ageVars => GateInv'
  <2> SUFFICES ASSUME GateInv, [GateNext]_ageVars PROVE GateInv'
    OBVIOUS
  <2>1. CASE EnterDateOfBirth \/ ConfirmMinimumAge \/ UNCHANGED ageVars
    <3>1. /\ UNCHANGED <<options, local, today>>
          /\ dateOfBirth' \in Dates \cup {NoDate} /\ confirmed' \in BOOLEAN
      BY <2>1 DEF EnterDateOfBirth, ConfirmMinimumAge, ageVars, GateInv, GateTypeOK
    <3> QED BY <3>1 DEF GateInv, GateTypeOK, Near
  <2>2. CASE DayPasses
    <3>1. /\ local \in Dates /\ local' = Tomorrow(local) /\ today' = Tomorrow(today)
          /\ UNCHANGED <<options, dateOfBirth, confirmed>>
      BY <2>2 DEF DayPasses
    <3>2. Near'
      BY <3>1 DEF GateInv, Near
    <3>3. {local', today'} \subseteq Dates \cup {Tomorrow(d) : d \in Dates}
                                       \cup {Tomorrow(Tomorrow(d)) : d \in Dates}
      BY <3>2 DEF Near
    <3> QED BY <3>1, <3>2, <3>3 DEF GateInv, GateTypeOK
  <2> QED BY <2>1, <2>2 DEF GateNext
<1> QED BY <1>1, <1>2, PTL DEF GateSpec

\* What the lemmas about dates ask for.
LEMMA GateDays ==
  ASSUME GateInv
  PROVE  /\ Day(local) /\ Day(today) /\ Day(Tomorrow(local)) /\ Day(Tomorrow(today))
         /\ dateOfBirth # NoDate => Day(dateOfBirth)
         /\ options.minimumAge \in Nat \ {0}
         /\ ~Before(Tomorrow(today), local) /\ ~Before(Tomorrow(local), today)
<1>1. \A d \in Dates : Day(d) /\ Day(Tomorrow(d)) /\ Day(Tomorrow(Tomorrow(d)))
  BY DatesAreDays, TomorrowIsLater
<1>2. Day(local) /\ Day(today)
  BY <1>1, NearDates DEF GateInv
<1>3. Day(Tomorrow(local)) /\ Day(Tomorrow(today))
  BY <1>2, TomorrowIsLater
<1>4. dateOfBirth # NoDate => Day(dateOfBirth)
  BY <1>1 DEF GateInv, GateTypeOK
<1>5. options.minimumAge \in Nat \ {0}
  BY AgeConstantsOK DEF GateInv, GateTypeOK
<1>6. ASSUME NEW a, NEW b, Day(a), Day(b), \/ a = b \/ b = Tomorrow(a) \/ a = Tomorrow(b)
      PROVE  ~Before(Tomorrow(a), b)
  <2>1. Day(Tomorrow(a)) /\ Before(a, Tomorrow(a)) /\ Before(b, Tomorrow(b))
    BY <1>6, TomorrowIsLater
  <2> QED BY <1>6, <2>1 DEF Day, Before
<1>7. ~Before(Tomorrow(today), local) /\ ~Before(Tomorrow(local), today)
  BY <1>2, <1>6 DEF GateInv, Near
<1> QED BY <1>2, <1>3, <1>4, <1>5, <1>7

\* Every variable keeps its type: whatever day a signup begins, both clocks stay among
\* the days that follow it.
THEOREM GateTypesCorrect == GateSpec => []GateTypeOK
<1>1. GateInv => GateTypeOK
  BY DEF GateInv
<1> QED BY <1>1, GateInvariant, PTL

\* The year that the orchestrator goes back by (686-687) and the subtraction with which the
\* panel gets an age (SignupPanel.tsx 139-146) both count birthdays, for any days of the
\* calendar, leap days and ends of centuries among them, and any minimum age.
THEOREM AgesCountBirthdays == GateSpec => []AgeCountsBirthdays
<1>1. GateInv => AgeCountsBirthdays
  BY GateDays, BothCountAlike, BirthdaysAreYears DEF AgeCountsBirthdays
<1> QED BY <1>1, GateInvariant, PTL

\* The two gates agree, at once where the browser's date is that of UTC and within a day
\* elsewhere, for any options, dates of birth and days (653-691, SignupPanel.tsx 149-182).
THEOREM GatesAlwaysAgree == GateSpec => []GatesAgree
<1>1. GateInv => GatesAgree
  <2> SUFFICES ASSUME GateInv PROVE GatesAgree
    OBVIOUS
  <2>1. CASE dateOfBirth = NoDate
    BY <2>1 DEF GatesAgree, ValidateAgeGate, ValidateSignupAgeGate
  <2>2. CASE dateOfBirth # NoDate
    <3> DEFINE n == options.minimumAge
    <3>1. /\ Day(local) /\ Day(today) /\ Day(Tomorrow(local)) /\ Day(Tomorrow(today))
          /\ Day(dateOfBirth) /\ n \in Nat
          /\ ~Before(Tomorrow(today), local) /\ ~Before(Tomorrow(local), today)
      BY <2>2, GateDays
    <3>2. /\ BornEarlyEnough(today) <=> GetAge(today) >= n
          /\ BornEarlyEnough(Tomorrow(today)) <=> GetAge(Tomorrow(today)) >= n
      BY <3>1, BothCountAlike
    <3>3. GetAge(Tomorrow(today)) >= GetAge(local) /\ GetAge(Tomorrow(local)) >= GetAge(today)
      BY <3>1, AgesGrow
    <3>4. /\ GetAge(local) \in Int /\ GetAge(today) \in Int
          /\ GetAge(Tomorrow(local)) \in Int /\ GetAge(Tomorrow(today)) \in Int
      BY <3>1, AgeIs
    <3>5. /\ GetAge(local) >= n => BornEarlyEnough(Tomorrow(today))
          /\ BornEarlyEnough(today) => GetAge(Tomorrow(local)) >= n
      BY <3>1, <3>2, <3>3, <3>4
    <3> QED BY <2>2, <3>2, <3>5 DEF GatesAgree, ValidateAgeGate, ValidateSignupAgeGate
  <2> QED BY <2>1, <2>2
<1> QED BY <1>1, GateInvariant, PTL

-----------------------------------------------------------------------------
(***************************************************************************)
(* All parts together.                                                     *)
(***************************************************************************)

\* A behaviour of the orchestrator is one of each of its parts: a step of one part is a
\* stutter of every other.
LEMMA PartsRun ==
  AllSpec => Spec /\ LoginsSpec /\ PasswordSpec /\ MfaSpec /\ GateSpec
<1>1. AllInit => Init /\ LoginsInit /\ PasswordInit /\ MfaInit /\ GateInit
  BY DEF AllInit
<1>2. [AllNext]_allVars => /\ [Next]_vars
                           /\ [LoginsNext]_loginVars
                           /\ [PasswordNext]_passwordVars
                           /\ [MfaNext]_mfaVars
                           /\ [GateNext]_ageVars
  BY DEF AllNext, allVars, TokensStep, LoginsStep, PasswordStep, MfaStep, GateStep
<1> QED BY <1>1, <1>2, PTL DEF AllSpec, Spec, LoginsSpec, PasswordSpec, MfaSpec, GateSpec

\* Every variable of every part keeps its type, whatever the parts do between each other's
\* steps.
THEOREM OrchestratorTypesCorrect == AllSpec => []TypesOK
<1>1. TypeOK /\ LoginsTypeOK /\ (PasswordTypeOK /\ LoginsUpgradeHashes) /\ MfaTypeOK
        /\ GateTypeOK => TypesOK
  BY DEF TypesOK
<1> QED BY <1>1, PartsRun, TypeCorrect, LoginsTypeCorrect, LoginsAlwaysUpgrade,
           MfaTypeCorrect, GateTypesCorrect, PTL

=============================================================================
