-------------------------- MODULE MCOrchestrator ----------------------------
(***************************************************************************)
(* The orchestrator for TLC.  Its parts are independent, so a behaviour    *)
(* that takes steps of one part is as good as one that mixes them.         *)
(***************************************************************************)
EXTENDS Orchestrator, TLC

CONSTANTS
  Parts,  \* the parts of a run
  g1, g2, m1

VARIABLE part  \* the part that runs

\* For a .cfg: two identities of one provider and one of another.
ThreeIdentities == {g1, g2, m1}
TwoProviders == g1 :> "Google" @@ g2 :> "Google" @@ m1 :> "Microsoft"

\* A leap year between two others, and the days where months and years meet.
ThreeYears == 2003..2005
EdgesOfMonths == {<<1, 1>>, <<2, 27>>, <<2, 28>>, <<2, 29>>, <<3, 1>>, <<12, 31>>}

\* Secrets are the model values of Tokens, so that one symmetry serves both.
Symmetry == Permutations(Operations) \cup Permutations(Users) \cup Permutations(Secrets)

\* What a store, a calendar and the options begin with makes no difference while they are
\* not used.
MCInit ==
  /\ part \in Parts
  /\ AllInit
  /\ part # "password" =>
       hash = [u \in Users |-> HashOf(CHOOSE w \in Passwords : TRUE, "current")]
  /\ part # "ageGate" =>
       /\ today = local /\ local = CHOOSE d \in Dates : TRUE
       /\ options = [minimumAge |-> CHOOSE n \in MinimumAges : TRUE,
                     requireDateOfBirth |-> TRUE, requireMinimumAgeConfirmation |-> TRUE]

MCNext ==
  /\ UNCHANGED part
  /\ \/ part = "tokens" /\ TokensStep
     \/ part = "logins" /\ LoginsStep
     \/ part = "password" /\ PasswordStep
     \/ part = "mfa" /\ MfaStep
     \/ part = "ageGate" /\ GateStep

MCSpec == MCInit /\ [][MCNext]_<<part, allVars>>

=============================================================================
