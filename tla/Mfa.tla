-------------------------------- MODULE Mfa ---------------------------------
(***************************************************************************)
(* MFA enrolment in DefaultAuthOrchestrator (395-478): begun, verified,    *)
(* challenged and disabled over the host's IMfaSecretStore, which is read  *)
(* and saved in calls of its own, and IMfaChallengeService, which checks a *)
(* code against the secret that the store holds and issues recovery codes. *)
(*                                                                         *)
(* Nothing keeps two operations on the MFA of one user apart.              *)
(*                                                                         *)
(* A secret stands for its codes too; a recovery code is named by the      *)
(* secret with whose verification it was issued.                           *)
(***************************************************************************)
EXTENDS OrchestratorConstants

VARIABLES
  enrollment,  \* user -> the MfaEnrollment of the store, or Nothing
  recovery,    \* user -> recovery codes that IRecoveryCodeService would redeem
  begun,       \* user -> secrets that BeginEnrollmentAsync has handed out
  verified,    \* secrets of which VerifyEnrollmentAsync has accepted a code
  past,        \* secrets of enrolments that were replaced or disabled
  tangled,     \* users whose enrolment has changed between a verification and its save
  mfaOp        \* operation -> where it stands

mfaVars == <<enrollment, recovery, begun, verified, past, tangled, mfaOp>>

Enrolled(secret, confirmed) == [secret |-> secret, confirmed |-> confirmed]

Nothing == Enrolled(Null, FALSE)

MfaAt(step, user, secret) == [step |-> step, user |-> user, secret |-> secret]

MfaIdle == MfaAt("idle", Null, Null)

MfaPositions ==
  {MfaIdle} \cup [step: {"save", "confirm", "redeem"}, user: Users, secret: Secrets]
         \cup [step: {"get"}, user: Users, secret: {Null}]

MfaTypeOK ==
  /\ enrollment \in [Users -> [secret: Secrets, confirmed: BOOLEAN] \cup {Nothing}]
  /\ recovery \in [Users -> SUBSET Secrets]
  /\ begun \in [Users -> SUBSET Secrets]
  /\ verified \subseteq Secrets
  /\ past \subseteq Secrets
  /\ tangled \subseteq Users
  /\ mfaOp \in [Operations -> MfaPositions]

MfaInit ==
  /\ enrollment = [u \in Users |-> Nothing]
  /\ recovery = [u \in Users |-> {}]
  /\ begun = [u \in Users |-> {}]
  /\ verified = {} /\ past = {} /\ tangled = {}
  /\ mfaOp = [p \in Operations |-> MfaIdle]

\* The secret that the next save of the user's enrolment replaces.
Secret(u) == {enrollment[u].secret} \ {Null}

\* A code was accepted and the enrolment is not saved yet (431-434).
Verifying(u) ==
  \E q \in Operations : mfaOp[q].step \in {"get", "confirm"} /\ mfaOp[q].user = u

\* The user's enrolment is begun anew or disabled.  That settles what went wrong before,
\* unless it comes in the middle of a verification.
Replaced(u) ==
  /\ past' = past \cup Secret(u)
  /\ tangled' = IF Verifying(u) THEN tangled \cup {u} ELSE tangled \ {u}

-----------------------------------------------------------------------------
\* BeginMfaEnrollmentAsync (395-400): the service hands out a new secret.
BeginEnrollment(p) ==
  /\ mfaOp[p].step = "idle"
  /\ \E u \in Users, s \in Secrets \ UNION {begun[v] : v \in Users} :
       /\ begun' = [begun EXCEPT ![u] = @ \cup {s}]
       /\ mfaOp' = [mfaOp EXCEPT ![p] = MfaAt("save", u, s)]
  /\ UNCHANGED <<enrollment, recovery, verified, past, tangled>>

\* Variant: an enrolment that is confirmed stays confirmed.
SaveBegun_KeepsConfirmed(p) ==
  /\ mfaOp[p].step = "save"
  /\ enrollment' = [enrollment EXCEPT ![mfaOp[p].user] =
       Enrolled(mfaOp[p].secret, @.confirmed)]
  /\ Replaced(mfaOp[p].user)
  /\ mfaOp' = [mfaOp EXCEPT ![p] = MfaIdle]
  /\ UNCHANGED <<recovery, begun, verified>>

\* It is saved, unconfirmed, over what was there (401-414).
SaveBegun(p) ==
  /\ mfaOp[p].step = "save"
  /\ enrollment' = [enrollment EXCEPT ![mfaOp[p].user] = Enrolled(mfaOp[p].secret, FALSE)]
  /\ Replaced(mfaOp[p].user)
  /\ mfaOp' = [mfaOp EXCEPT ![p] = MfaIdle]
  /\ UNCHANGED <<recovery, begun, verified>>

\* Variant: the host adds recovery codes to those it has issued before.
VerifyEnrollment_AddsCodes(p) ==
  /\ mfaOp[p].step = "idle"
  /\ \E u \in Users :
       /\ enrollment[u] # Nothing
       /\ verified' = verified \cup Secret(u)
       /\ recovery' = [recovery EXCEPT ![u] = @ \cup Secret(u)]
       /\ mfaOp' = [mfaOp EXCEPT ![p] = MfaAt("get", u, Null)]
  /\ UNCHANGED <<enrollment, begun, past, tangled>>

\* VerifyMfaEnrollmentAsync (420-429): the code is right for the secret that is stored,
\* and the host issues recovery codes in place of those it has issued before; with
\* another code the operation throws and nothing changes.
VerifyEnrollment(p) ==
  /\ mfaOp[p].step = "idle"
  /\ \E u \in Users :
       /\ enrollment[u] # Nothing
       /\ verified' = verified \cup Secret(u)
       /\ recovery' = [recovery EXCEPT ![u] = Secret(u)]
       /\ mfaOp' = [mfaOp EXCEPT ![p] = MfaAt("get", u, Null)]
  /\ UNCHANGED <<enrollment, begun, past, tangled>>

\* The enrolment is read again (431-432).
Get(p) ==
  /\ mfaOp[p].step = "get"
  /\ mfaOp' = [mfaOp EXCEPT ![p] =
       IF enrollment[@.user] = Nothing
       THEN MfaIdle
       ELSE MfaAt("confirm", @.user, enrollment[@.user].secret)]
  /\ UNCHANGED <<enrollment, recovery, begun, verified, past, tangled>>

\* What was read is saved as confirmed (434-446).
Confirm(p) ==
  /\ mfaOp[p].step = "confirm"
  /\ enrollment' = [enrollment EXCEPT ![mfaOp[p].user] = Enrolled(mfaOp[p].secret, TRUE)]
  /\ past' = past \cup (Secret(mfaOp[p].user) \ {mfaOp[p].secret})
  /\ mfaOp' = [mfaOp EXCEPT ![p] = MfaIdle]
  /\ UNCHANGED <<recovery, begun, verified, tangled>>

\* Variant: the host marks the enrolment and hands it out again when it is read.
Disable_KeepsSecret ==
  \E u \in Users :
    /\ enrollment' = [enrollment EXCEPT ![u].confirmed = FALSE]
    /\ Replaced(u)
    /\ UNCHANGED <<recovery, begun, verified, mfaOp>>

\* DisableMfaAsync (474-478) waits for no other operation.
Disable ==
  \E u \in Users :
    /\ enrollment' = [enrollment EXCEPT ![u] = Nothing]
    /\ Replaced(u)
    /\ UNCHANGED <<recovery, begun, verified, mfaOp>>

\* ChallengeMfaAsync (452-458) with a code that is not one of the secret: it may be a
\* recovery code.  With a code of the secret nothing changes.
Challenge(p) ==
  /\ mfaOp[p].step = "idle"
  /\ \E u \in Users : \E s \in begun[u] : mfaOp' = [mfaOp EXCEPT ![p] = MfaAt("redeem", u, s)]
  /\ UNCHANGED <<enrollment, recovery, begun, verified, past, tangled>>

\* RedeemAsync (460-468).
Redeem(p) ==
  /\ mfaOp[p].step = "redeem"
  /\ recovery' = [recovery EXCEPT ![mfaOp[p].user] = @ \ {mfaOp[p].secret}]
  /\ mfaOp' = [mfaOp EXCEPT ![p] = MfaIdle]
  /\ UNCHANGED <<enrollment, begun, verified, past, tangled>>

\* A call throws.
MfaThrows(p) ==
  /\ mfaOp[p].step # "idle"
  /\ mfaOp' = [mfaOp EXCEPT ![p] = MfaIdle]
  /\ UNCHANGED <<enrollment, recovery, begun, verified, past, tangled>>

MfaNext ==
  \/ \E p \in Operations :
       \/ BeginEnrollment(p) \/ SaveBegun(p)
       \/ VerifyEnrollment(p) \/ Get(p) \/ Confirm(p)
       \/ Challenge(p) \/ Redeem(p)
       \/ MfaThrows(p)
  \/ Disable

MfaSpec == MfaInit /\ [][MfaNext]_mfaVars

-----------------------------------------------------------------------------
\* Abstractions/IAuthOrchestrator.cs:80: "Verifies an MFA enrollment code and finalizes
\* enrollment when valid."  So a secret that counts as confirmed is one of which a code
\* was accepted, although it is saved from a read that comes after the verification (431).
ConfirmedWasVerified ==
  \A u \in Users : enrollment[u].confirmed => enrollment[u].secret \in verified

\* The one way to a confirmed secret of which no code was accepted is an enrolment begun
\* between another's verification and its save (425-434): with that exception, which
\* lasts until the user's enrolment is begun or disabled with no verification under way,
\* no order of operations, of several users, and no throw lead there.
ConfirmedUnlessTangled ==
  \A u \in Users \ tangled : enrollment[u].confirmed => enrollment[u].secret \in verified

\* An enrolment that was disabled, or replaced by a later one, comes back by that way
\* alone: no other save undoes it, of however many that are late (401, 434).
EnrollmentsNeverReturn == \A u \in Users \ tangled : Secret(u) \cap past = {}

\* Whatever fails between the verification and the save, the recovery codes that would
\* let a user in belong to the enrolment that is confirmed, not to an earlier one, with
\* the same exception.
RecoveryCodesFit ==
  \A u \in Users \ tangled : enrollment[u].confirmed => recovery[u] \subseteq Secret(u)

=============================================================================
