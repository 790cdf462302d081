----------------------------- MODULE MCPanels ------------------------------
(***************************************************************************)
(* The panels for TLC.  They are independent, and an application shows one *)
(* of them at a time: a behaviour is one of one panel, while the variables *)
(* of the others stay as they begin.                                       *)
(***************************************************************************)
EXTENDS Panels, TLC

CONSTANTS
  Pages,          \* the panels of a run
  e1, e2, k1, k2

\* For a .cfg: who was invited.
Invited == k1 :> e1 @@ k2 :> e2

VARIABLE shown    \* the panel that is shown

mcVars == <<shown, allVars>>

\* Bound: an account begins with a password and a verified address, or with neither;
\* the other accounts come of its operations.  What a host may choose for a panel that
\* is not shown makes no difference.
MCInit ==
  /\ shown \in Pages
  /\ AllInit
  /\ account.password = account.verified
  /\ shown # "account" =>
       account = [password |-> FALSE, linked |-> Linkable, email |-> Null, verified |-> FALSE,
                  version |-> 0]
  /\ shown # "invitation" => key = k1 /\ user = Null /\ ~embedded
  /\ shown # "invitations" => listTask[CHOOSE h \in Handlers : TRUE].step = "load"
  /\ shown # "login" => inline /\ stable /\ ~due

\* Bound: the host changes the key while one request at most is under way, besides loads,
\* and gives or takes one while there is none; what an answer does depends on no key.
SettledKeys ==
  LET Waiting == {h \in Handlers : ~Invitation!At(h, "idle")}
  IN  key' # key =>
        /\ Cardinality(Waiting) <= 1
        /\ Null \in {key, key'} => Waiting = {}

MCNext ==
  /\ UNCHANGED shown
  /\ \/ shown = "signup" /\ SignupStep
     \/ shown = "account" /\ AccountStep
     \/ shown = "invitation" /\ InvitationStep /\ SettledKeys
     \/ shown = "invitations" /\ InvitationsStep
     \/ shown = "login" /\ LoginStep

Answered(h) ==
  \/ shown = "signup" /\ Answer(h)
     /\ UNCHANGED <<shown, accountVars, invitationVars, invitationsVars, loginVars>>
  \/ shown = "account" /\ Accounts!Answer(h)
     /\ UNCHANGED <<shown, vars, invitationVars, invitationsVars, loginVars>>
  \/ shown = "invitation" /\ Invitation!Answer(h)
     /\ UNCHANGED <<shown, vars, accountVars, invitationsVars, loginVars>>
  \/ shown = "invitations" /\ Invitations!Answer(h)
     /\ UNCHANGED <<shown, vars, accountVars, invitationVars, loginVars>>
  \/ shown = "login" /\ Login!Answer(h)
     /\ UNCHANGED <<shown, vars, accountVars, invitationVars, invitationsVars>>

LoadAnswered(k) ==
  /\ shown = "invitation" /\ Invitation!LoadAnswered(k)
  /\ UNCHANGED <<shown, vars, accountVars, invitationsVars, loginVars>>

\* The fairness of the panels: requests are answered.
MCFairness ==
  /\ \A h \in Handlers : WF_mcVars(Answered(h))
  /\ \A k \in Keys : WF_mcVars(LoadAnswered(k))

MCSpec == MCInit /\ [][MCNext]_mcVars

MCFairSpec == MCSpec /\ MCFairness

-----------------------------------------------------------------------------
\* The flags of the panel that is shown.
FlagsShown ==
  CASE shown = "signup" -> Flags
    [] shown = "account" -> Accounts!Flags
    [] shown = "invitation" ->
         <<Invitation!Flags(k1)[1], Invitation!Flags(k1)[2], Invitation!Flags(k2)[2]>>
    [] shown = "invitations" -> Invitations!Flags
    [] shown = "login" -> Login!Flags

\* No busy flag of the panel that is shown stays set, whatever overlaps: each handler
\* clears its own when its answer comes.
BusyFlagsEnd == \A i \in 1..3 : FlagsShown[i] ~> ~FlagsShown[i]

=============================================================================
