------------------------- MODULE SignupPanel_proofs -------------------------
(*************************************************************************)
(* Theorems about SignupPanel, for any addresses, challenges and number  *)
(* of handlers.                                                          *)
(*************************************************************************)
EXTENDS SignupPanel, TLAPS

-----------------------------------------------------------------------------
(* Types *)

LEMMA RequestTypes ==
  ASSUME NEW step \in Steps, NEW e \in Emails \cup {Null}, NEW c \in Challenges \cup {Null}
  PROVE  Request(step, e, c) \in Task
  BY DEF Request, Task

LEMMA TaskFields ==
  ASSUME TypeOK, NEW h \in Handlers
  PROVE  /\ task[h].step \in Steps
         /\ task[h].email \in Emails \cup {Null}
         /\ task[h].challenge \in Challenges \cup {Null}
  BY DEF TypeOK, Task

LEMMA TaskUpdates ==
  ASSUME TypeOK, NEW h \in Handlers
  PROVE  /\ \A step \in Steps : \A e \in Emails \cup {Null} : \A c \in Challenges \cup {Null} :
              Start(h, step, e, c) => task' \in [Handlers -> Task]
         /\ \A step \in Steps : Continue(h, step) => task' \in [Handlers -> Task]
         /\ End(h) => task' \in [Handlers -> Task]
<1>1. ASSUME NEW t \in Task PROVE [task EXCEPT ![h] = t] \in [Handlers -> Task]
  BY DEF TypeOK
<1>2. Idle \in Task
  BY RequestTypes DEF Idle, Steps
<1>3. \A step \in Steps : \A e \in Emails \cup {Null} : \A c \in Challenges \cup {Null} :
        Start(h, step, e, c) => task' \in [Handlers -> Task]
  BY <1>1, RequestTypes DEF Start
<1>4. \A step \in Steps : Continue(h, step) => task' \in [Handlers -> Task]
  BY <1>1, RequestTypes, TaskFields DEF Continue
<1>5. End(h) => task' \in [Handlers -> Task]
  BY <1>1, <1>2 DEF End
<1> QED BY <1>3, <1>4, <1>5

\* What a step does to the handlers: it leaves all but one alone.
Becomes(h, step, e, c) ==
  /\ task'[h].step = step /\ task'[h].email = e /\ task'[h].challenge = c
  /\ \A g \in Handlers : g # h => task'[g] = task[g]

LEMMA TaskSteps ==
  ASSUME TypeOK, NEW h \in Handlers
  PROVE  /\ \A step, e, c : Start(h, step, e, c) => Becomes(h, step, e, c)
         /\ \A step : Continue(h, step) => Becomes(h, step, task[h].email, task[h].challenge)
         /\ End(h) => Becomes(h, "idle", Null, Null)
  BY DEF Start, Continue, End, TypeOK, Becomes, Request, Idle

\* A challenge in the form or in a request was sent to an address.
ChallengesBegun ==
  /\ challenge # Null => about[challenge] # Null /\ email # Null
  /\ \A c \in proved : about[c] # Null
  /\ \A h \in Handlers :
       /\ Running(h, "begin") => task[h].email # Null
       /\ Running(h, "verify") => task[h].challenge # Null /\ about[task[h].challenge] # Null

LEMMA TypeStep == TypeOK /\ ChallengesBegun /\ [Next]_vars => TypeOK'
<1> SUFFICES ASSUME TypeOK, ChallengesBegun, [Next]_vars PROVE TypeOK'
  OBVIOUS
<1> USE DEF form, view, field, busy, host, Providers
<1>1. ASSUME Edit PROVE TypeOK'
  BY <1>1 DEF TypeOK, Edit, ToggleConsent, ChooseEmail, BackToOptions, TypeEmail,
    ChangeEmail, CancelPending, ResetPending, ClearVerification, Detach
<1>2. ASSUME NEW h \in Handlers, Ask(h) PROVE TypeOK'
  <2>1. task' \in [Handlers -> Task]
    BY <1>2, TaskUpdates DEF Ask, SendVerification, Resend, RequestVerification, Verify,
      SubmitPasswordSignup, OpenPopup, GoogleCredential, FinishMicrosoft, TypeOK, Steps
  <2> QED
    BY <1>2, <2>1 DEF Ask, SendVerification, Resend, RequestVerification, Verify,
      SubmitPasswordSignup, OpenPopup, GoogleCredential, FinishMicrosoft, TypeOK
<1>3. ASSUME NEW h \in Handlers, Answer(h) PROVE TypeOK'
  <2>1. task' \in [Handlers -> Task]
    BY <1>3, TaskUpdates DEF Answer, BeginAnswered, BeginRefused, CodeAccepted, CodeRefused,
      VerifyEnds, SignupAnswered, SubmitEnds, PopupAnswered, EmailMissing, SignedUp,
      ProviderFails, Steps
  <2>2. ASSUME NEW c \in Challenges, BeginAnswered(h, c) PROVE TypeOK'
    BY <2>1, <2>2, TaskFields DEF BeginAnswered, TypeOK
  <2>3. CASE CodeAccepted(h) \/ CodeRefused(h)
    <3>1. task[h].challenge \in Challenges
      BY <2>3, TaskFields DEF CodeAccepted, CodeRefused, VerifyEnds, ChallengesBegun
    <3> QED BY <2>1, <2>3, <3>1 DEF CodeAccepted, CodeRefused, VerifyEnds, TypeOK
  <2>4. CASE BeginRefused(h) \/ SignupAnswered(h) \/ SubmitEnds(h) \/ PopupAnswered(h)
             \/ ProviderFails(h)
    BY <2>1, <2>4 DEF BeginRefused, SignupAnswered, SubmitEnds, PopupAnswered,
      ProviderFails, TypeOK
  <2>5. ASSUME NEW e \in Emails \cup {Null}, EmailMissing(h, e) PROVE TypeOK'
    BY <2>1, <2>5 DEF EmailMissing, ClearVerification, Detach, TypeOK
  <2>6. CASE SignedUp(h)
    BY <2>1, <2>6 DEF SignedUp, ResetPending, ClearVerification, Detach, TypeOK
  <2> QED BY <1>3, <2>2, <2>3, <2>4, <2>5, <2>6 DEF Answer
<1>4. CASE UNCHANGED vars
  BY <1>4 DEF vars, TypeOK
<1> QED BY <1>1, <1>2, <1>3, <1>4 DEF Next

LEMMA BegunStep == TypeOK /\ ChallengesBegun /\ [Next]_vars => ChallengesBegun'
<1> SUFFICES ASSUME TypeOK, ChallengesBegun, [Next]_vars PROVE ChallengesBegun'
  OBVIOUS
<1> USE ConstantsOK DEF form, view, field, busy, host, Becomes, Running
<1>1. ASSUME Edit PROVE ChallengesBegun'
  BY <1>1 DEF TypeOK, ChallengesBegun, Edit, ToggleConsent, ChooseEmail, BackToOptions,
    TypeEmail, ChangeEmail, CancelPending, ResetPending, ClearVerification, AsksForEmail
<1>2. ASSUME NEW h \in Handlers, Ask(h) PROVE ChallengesBegun'
  <2>1. CASE SendVerification(h) \/ Resend(h)
    BY <2>1, TaskSteps DEF SendVerification, Resend, RequestVerification, AsksForCode,
      ChallengesBegun
  <2>2. CASE Verify(h)
    BY <2>2, TaskSteps DEF Verify, AsksForCode, ChallengesBegun
  <2>3. CASE SubmitPasswordSignup(h) \/ GoogleCredential(h) \/ FinishMicrosoft(h)
    BY <2>3, TaskSteps DEF SubmitPasswordSignup, GoogleCredential, FinishMicrosoft,
      ChallengesBegun
  <2>4. ASSUME NEW p \in Providers, OpenPopup(h, p) PROVE ChallengesBegun'
    BY <2>4, TaskSteps DEF OpenPopup, ChallengesBegun
  <2> QED BY <1>2, <2>1, <2>2, <2>3, <2>4 DEF Ask
<1>3. ASSUME NEW h \in Handlers, Answer(h) PROVE ChallengesBegun'
  <2>1. ASSUME NEW c \in Challenges, BeginAnswered(h, c) PROVE ChallengesBegun'
    BY <2>1, TaskSteps, TaskFields DEF BeginAnswered, ChallengesBegun, TypeOK
  <2>2. CASE CodeAccepted(h) \/ CodeRefused(h)
    BY <2>2, TaskSteps, TaskFields DEF CodeAccepted, CodeRefused, VerifyEnds, ChallengesBegun
  <2>3. CASE BeginRefused(h) \/ SubmitEnds(h) \/ ProviderFails(h)
    BY <2>3, TaskSteps DEF BeginRefused, SubmitEnds, ProviderFails, ChallengesBegun
  <2>4. CASE SignupAnswered(h) \/ PopupAnswered(h)
    BY <2>4, TaskSteps DEF SignupAnswered, PopupAnswered, ChallengesBegun
  <2>5. ASSUME NEW e \in Emails \cup {Null}, EmailMissing(h, e) PROVE ChallengesBegun'
    BY <2>5, TaskSteps DEF EmailMissing, ClearVerification, ChallengesBegun
  <2>6. CASE SignedUp(h)
    BY <2>6, TaskSteps DEF SignedUp, ResetPending, ClearVerification, ChallengesBegun
  <2> QED BY <1>3, <2>1, <2>2, <2>3, <2>4, <2>5, <2>6 DEF Answer
<1>4. CASE UNCHANGED vars
  BY <1>4 DEF vars, ChallengesBegun
<1> QED BY <1>1, <1>2, <1>3, <1>4 DEF Next

LEMMA Begun == Spec => [](TypeOK /\ ChallengesBegun)
<1>1. Init => TypeOK
  <2>1. Idle \in Task
    BY RequestTypes DEF Idle, Steps
  <2> QED BY <2>1 DEF Init, TypeOK
<1>2. Init => ChallengesBegun
  BY DEF Init, ChallengesBegun, Running, Idle, Request
<1> QED BY <1>1, <1>2, TypeStep, BegunStep, PTL DEF Spec

\* Every variable keeps its type; only challenges that were begun are proved.
THEOREM TypeCorrect == Spec => []TypeOK
BY Begun, PTL

-----------------------------------------------------------------------------
(* What is verified *)

\* An address that was proved stays proved.
LEMMA ProvedStays ==
  ASSUME TypeOK, ChallengesBegun, [Next]_vars
  PROVE  ProvedEmails \subseteq ProvedEmails'
<1>1. \A c \in proved : c \in proved' /\ about'[c] = about[c]
  <2>1. CASE UNCHANGED host
    BY <2>1 DEF host
  <2>2. ASSUME NEW h \in Handlers, NEW c \in Challenges, BeginAnswered(h, c)
        PROVE  \A d \in proved : d \in proved' /\ about'[d] = about[d]
    BY <2>2 DEF BeginAnswered, ChallengesBegun, TypeOK
  <2>3. ASSUME NEW h \in Handlers, CodeAccepted(h) \/ CodeRefused(h)
        PROVE  \A d \in proved : d \in proved' /\ about'[d] = about[d]
    BY <2>3 DEF CodeAccepted, CodeRefused, VerifyEnds
  <2>4. Edit => UNCHANGED host
    BY DEF Edit, ToggleConsent, ChooseEmail, BackToOptions, TypeEmail, ChangeEmail,
      CancelPending
  <2>5. \A h \in Handlers : Ask(h) => UNCHANGED host
    BY DEF Ask, SendVerification, Resend, Verify, SubmitPasswordSignup, OpenPopup,
      GoogleCredential, FinishMicrosoft
  <2>6. ASSUME NEW h \in Handlers, Answer(h)
        PROVE  \/ UNCHANGED host
               \/ \E c \in Challenges : BeginAnswered(h, c)
               \/ CodeAccepted(h) \/ CodeRefused(h)
    BY <2>6 DEF Answer, BeginRefused, SignupAnswered, SubmitEnds, PopupAnswered,
      EmailMissing, SignedUp, ProviderFails
  <2> QED BY <2>1, <2>2, <2>3, <2>4, <2>5, <2>6 DEF Next, vars
<1> QED BY <1>1 DEF ProvedEmails

\* A popup is opened without an address of the form.
PopupsCarryNone == \A h \in Handlers : Running(h, "popup") => task[h].email = Null

ProofInv == VerifiedEmailWasProved /\ SignupsCarryProvedEmails /\ PopupsCarryNone

\* Only three steps show an address as verified or send one: the answer to a code,
\* which brings the address it proves, and the two that ask for a verified one.
LEMMA ProofStep ==
  TypeOK /\ ChallengesBegun /\ ProofInv /\ [Next]_vars => ProofInv'
<1> SUFFICES ASSUME TypeOK, ChallengesBegun, ProofInv, [Next]_vars PROVE ProofInv'
  OBVIOUS
<1> USE ProvedStays, ConstantsOK
    DEF ProofInv, VerifiedEmailWasProved, SignupsCarryProvedEmails, PopupsCarryNone,
        form, view, field, busy, host, Becomes, Running
<1>1. ASSUME Edit PROVE ProofInv'
  BY <1>1 DEF Edit, ToggleConsent, ChooseEmail, BackToOptions, TypeEmail, ChangeEmail,
    CancelPending, ResetPending, ClearVerification, AsksForEmail
<1>2. ASSUME NEW h \in Handlers, Ask(h) PROVE ProofInv'
  <2>1. CASE SendVerification(h) \/ Resend(h)
    BY <2>1, TaskSteps DEF SendVerification, Resend, RequestVerification
  <2>2. CASE Verify(h) \/ GoogleCredential(h)
    BY <2>2, TaskSteps DEF Verify, GoogleCredential
  <2>3. CASE SubmitPasswordSignup(h) \/ FinishMicrosoft(h)
    BY <2>3, TaskSteps DEF SubmitPasswordSignup, FinishMicrosoft
  <2>4. ASSUME NEW p \in Providers, OpenPopup(h, p) PROVE ProofInv'
    BY <2>4, TaskSteps DEF OpenPopup
  <2> QED BY <1>2, <2>1, <2>2, <2>3, <2>4 DEF Ask
<1>3. ASSUME NEW h \in Handlers, Answer(h) PROVE ProofInv'
  <2>1. ASSUME NEW c \in Challenges, BeginAnswered(h, c) PROVE ProofInv'
    BY <2>1, TaskSteps DEF BeginAnswered
  <2>2. CASE CodeAccepted(h)
    <3>1. about[task[h].challenge] \in ProvedEmails'
      BY <2>2 DEF CodeAccepted, VerifyEnds, ProvedEmails
    <3> QED BY <2>2, <3>1, TaskSteps DEF CodeAccepted, VerifyEnds
  <2>3. CASE CodeRefused(h)
    BY <2>3, TaskSteps DEF CodeRefused, VerifyEnds
  <2>4. CASE BeginRefused(h) \/ SubmitEnds(h) \/ ProviderFails(h)
    BY <2>4, TaskSteps DEF BeginRefused, SubmitEnds, ProviderFails
  <2>5. CASE SignupAnswered(h)
    BY <2>5, TaskSteps DEF SignupAnswered
  <2>6. CASE PopupAnswered(h)
    BY <2>6, TaskSteps DEF PopupAnswered
  <2>7. ASSUME NEW e \in Emails \cup {Null}, EmailMissing(h, e) PROVE ProofInv'
    BY <2>7, TaskSteps DEF EmailMissing, ClearVerification
  <2>8. CASE SignedUp(h)
    BY <2>8, TaskSteps DEF SignedUp, ResetPending, ClearVerification
  <2> QED BY <1>3, <2>1, <2>2, <2>3, <2>4, <2>5, <2>6, <2>7, <2>8 DEF Answer
<1>4. CASE UNCHANGED vars
  BY <1>4 DEF vars
<1> QED BY <1>1, <1>2, <1>3, <1>4 DEF Next

LEMMA ProofsHold == Spec => []ProofInv
<1>1. Init => ProofInv
  BY DEF Init, ProofInv, VerifiedEmailWasProved, SignupsCarryProvedEmails,
    PopupsCarryNone, Running, Idle, Request
<1> QED BY <1>1, ProofStep, Begun, PTL DEF Spec

\* However answers and edits overlap, an address that is shown as verified was proved.
THEOREM VerifiedAddressesWereProved == Spec => []VerifiedEmailWasProved
BY ProofsHold, PTL DEF ProofInv

\* The same of the address a signup carries, until the signup ends.
THEOREM SignupAddressesWereProved == Spec => []SignupsCarryProvedEmails
BY ProofsHold, PTL DEF ProofInv

-----------------------------------------------------------------------------
(* One flow at a time *)

Submits(h) == task[h].step \in {"signup", "login"}
UsesProvider(h) == task[h].step \in {"popup", "external"}

FlagsSet ==
  \A h \in Handlers : /\ Submits(h) => isSubmitting
                      /\ UsesProvider(h) => busyProvider # "none"

FlowInv == FlowsAlone /\ FlagsSet

LEMMA FlowsSplit ==
  FlowsAlone <=>
    \A g, h \in Handlers : /\ Submits(g) /\ Submits(h) => g = h
                           /\ UsesProvider(g) /\ UsesProvider(h) => g = h
BY DEF FlowsAlone, Submits, UsesProvider

LEMMA FlowsSplitNext ==
  FlowsAlone' <=>
    \A g, h \in Handlers : /\ Submits(g)' /\ Submits(h)' => g = h
                           /\ UsesProvider(g)' /\ UsesProvider(h)' => g = h
BY DEF FlowsAlone, Submits, UsesProvider

\* A flow begins only where its flag says that there is none, and the flag is taken
\* back only by the handler that ends the flow.
LEMMA FlowStep == TypeOK /\ FlowInv /\ [Next]_vars => FlowInv'
<1> SUFFICES ASSUME TypeOK, FlowInv, [Next]_vars PROVE FlowInv'
  OBVIOUS
<1> USE FlowsSplit, FlowsSplitNext
    DEF FlowInv, FlagsSet, Submits, UsesProvider, form, view, field, busy, host,
        Becomes, Running
<1>1. ASSUME Edit PROVE FlowInv'
  BY <1>1 DEF Edit, ToggleConsent, ChooseEmail, BackToOptions, TypeEmail, ChangeEmail,
    CancelPending, ResetPending
<1>2. ASSUME NEW h \in Handlers, Ask(h) PROVE FlowInv'
  <2>1. CASE SendVerification(h) \/ Resend(h)
    BY <2>1, TaskSteps DEF SendVerification, Resend, RequestVerification
  <2>2. CASE Verify(h)
    BY <2>2, TaskSteps DEF Verify
  <2>3. CASE SubmitPasswordSignup(h)
    BY <2>3, TaskSteps DEF SubmitPasswordSignup
  <2>4. CASE GoogleCredential(h) \/ FinishMicrosoft(h)
    BY <2>4, TaskSteps DEF GoogleCredential, FinishMicrosoft
  <2>5. ASSUME NEW p \in Providers, OpenPopup(h, p) PROVE FlowInv'
    BY <2>5, TaskSteps DEF OpenPopup
  <2> QED BY <1>2, <2>1, <2>2, <2>3, <2>4, <2>5 DEF Ask
<1>3. ASSUME NEW h \in Handlers, Answer(h) PROVE FlowInv'
  <2>1. ASSUME NEW c \in Challenges, BeginAnswered(h, c) PROVE FlowInv'
    BY <2>1, TaskSteps DEF BeginAnswered
  <2>2. CASE CodeAccepted(h) \/ CodeRefused(h)
    BY <2>2, TaskSteps DEF CodeAccepted, CodeRefused, VerifyEnds
  <2>3. CASE BeginRefused(h) \/ SubmitEnds(h) \/ ProviderFails(h)
    BY <2>3, TaskSteps DEF BeginRefused, SubmitEnds, ProviderFails
  <2>4. CASE SignupAnswered(h) \/ PopupAnswered(h)
    BY <2>4, TaskSteps DEF SignupAnswered, PopupAnswered
  <2>5. ASSUME NEW e \in Emails \cup {Null}, EmailMissing(h, e) PROVE FlowInv'
    BY <2>5, TaskSteps DEF EmailMissing
  <2>6. CASE SignedUp(h)
    BY <2>6, TaskSteps DEF SignedUp, ResetPending
  <2> QED BY <1>3, <2>1, <2>2, <2>3, <2>4, <2>5, <2>6 DEF Answer
<1>4. CASE UNCHANGED vars
  BY <1>4 DEF vars
<1> QED BY <1>1, <1>2, <1>3, <1>4 DEF Next

\* One password signup and one flow with a provider at a time.
THEOREM FlowsNeverOverlap == Spec => []FlowsAlone
<1>1. Init => FlowInv
  BY FlowsSplit DEF Init, FlowInv, FlagsSet, Submits, UsesProvider, Idle, Request
<1>2. FlowInv => FlowsAlone
  BY DEF FlowInv
<1> QED BY <1>1, <1>2, FlowStep, TypeCorrect, PTL DEF Spec

=============================================================================
