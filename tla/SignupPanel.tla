---------------------------- MODULE SignupPanel ----------------------------
(*************************************************************************)
(* components/SignupPanel.tsx with its EmailVerificationField (cited as  *)
(* Field): a form whose asynchronous handlers answer after the user has  *)
(* gone on.  A handler reads the state of the render it was created in   *)
(* and writes the state of the moment its answer arrives.                *)
(*                                                                       *)
(* The user types any code at any time, so the code itself and the       *)
(* automatic submission of a complete one (Field 84-90, the button with  *)
(* the same guards) are Verify.  Password rules and error messages are   *)
(* left out; the age gate is part of the consent.  A Google credential   *)
(* that arrives after its button has gone is not modelled.               *)
(*************************************************************************)
EXTENDS PanelConstants

VARIABLES
  consent,      \* legal consent and age gate are ticked (102-106)
  pending,      \* a Microsoft sign-in waits for an address (117)
  showEmail,    \* the form with address and password was chosen (101)
  email,        \* signupEmail
  verified,     \* signupEmailVerified
  challenge,    \* signupChallengeId
  busyAction,   \* "signup-email", "signup-email-code" or "none"
  busyProvider, \* the provider a flow is under way with, or "none"
  isSubmitting,
  verifying,    \* verifyingRef of the field that is shown (Field 65)
  own,          \* the handlers in which that field awaits its verifyCode
  task,         \* the handlers that await an answer
  about,        \* the host: the address a challenge was sent to
  proved        \* the host: challenges whose code was accepted

form == <<email, verified, challenge>>
view == <<pending, showEmail>>
busy == <<busyAction, busyProvider, isSubmitting>>
host == <<about, proved>>
field == <<verifying, own>>
vars == <<consent, view, form, busy, field, task, host>>

Providers == {"Google", "Apple", "Microsoft"}
Steps == {"idle", "begin", "verify", "signup", "login", "popup", "external"}

Task == [step : Steps, email : Emails \cup {Null}, challenge : Challenges \cup {Null}]

TypeOK ==
  /\ consent \in BOOLEAN
  /\ pending \in BOOLEAN /\ showEmail \in BOOLEAN
  /\ verified \in BOOLEAN /\ verifying \in BOOLEAN /\ isSubmitting \in BOOLEAN
  /\ email \in Emails \cup {Null}
  /\ challenge \in Challenges \cup {Null}
  /\ busyAction \in {"none", "signup-email", "signup-email-code"}
  /\ busyProvider \in Providers \cup {"none"}
  /\ own \subseteq Handlers
  /\ task \in [Handlers -> Task]
  /\ about \in [Challenges -> Emails \cup {Null}]
  /\ proved \subseteq Challenges

Request(step, e, c) == [step |-> step, email |-> e, challenge |-> c]

Idle == Request("idle", Null, Null)

Running(h, step) == task[h].step = step

Start(h, step, e, c) ==
  /\ Running(h, "idle")
  /\ task' = [task EXCEPT ![h] = Request(step, e, c)]

Continue(h, step) ==
  task' = [task EXCEPT ![h] = Request(step, task[h].email, task[h].challenge)]

End(h) == task' = [task EXCEPT ![h] = Idle]

\* One form or the other is shown, and a verification field with it (484, 612).
FieldShown == pending \/ showEmail

OptionsShown == ~FieldShown

\* The field takes an address, or a code (Field 121, 137).
AsksForEmail == FieldShown /\ ~verified /\ challenge = Null
AsksForCode == FieldShown /\ ~verified /\ challenge # Null

\* The field is gone; the next one has a verifyingRef of its own.
Detach == verifying' = FALSE /\ own' = {}

Init ==
  /\ consent = FALSE
  /\ pending = FALSE /\ showEmail = FALSE
  /\ email = Null /\ verified = FALSE /\ challenge = Null
  /\ busyAction = "none" /\ busyProvider = "none" /\ isSubmitting = FALSE
  /\ verifying = FALSE /\ own = {}
  /\ task = [h \in Handlers |-> Idle]
  /\ about = [c \in Challenges |-> Null]
  /\ proved = {}

-----------------------------------------------------------------------------
(* The user *)

\* The checkboxes (431-481).
ToggleConsent ==
  /\ consent' = ~consent
  /\ UNCHANGED <<view, form, busy, field, task, host>>

\* The button "sign up with e-mail" and the way back (605-616).
ChooseEmail ==
  /\ OptionsShown /\ busyProvider = "none"
  /\ showEmail' = TRUE
  /\ UNCHANGED <<consent, pending, form, busy, field, task, host>>

BackToOptions ==
  /\ ~pending /\ showEmail
  /\ showEmail' = FALSE
  /\ Detach
  /\ UNCHANGED <<consent, pending, form, busy, task, host>>

\* onEmailChange (519, 640); the input is disabled while busy (Field 128).
TypeEmail(e) ==
  /\ AsksForEmail /\ busyAction = "none"
  /\ email' = e
  /\ UNCHANGED <<consent, view, verified, challenge, busy, field, task, host>>

\* clearSignupEmailVerification (198).
ClearVerification == verified' = FALSE /\ challenge' = Null

\* changeEmail (Field 92-97).
ChangeEmail ==
  /\ FieldShown /\ busyAction = "none"
  /\ verified \/ challenge # Null
  /\ ClearVerification
  /\ verifying' = FALSE
  /\ UNCHANGED <<consent, view, email, busy, own, task, host>>

\* requestSignupEmailVerification, beginSignupEmailVerification up to the request
\* (212-216, 234); without consent nothing is sent.
RequestVerification(h) ==
  IF consent
  THEN /\ Start(h, "begin", email, Null)
       /\ busyAction' = "signup-email"
  ELSE UNCHANGED <<task, busyAction>>

\* sendVerification of the field (Field 99-103, 131).
SendVerification(h) ==
  /\ AsksForEmail /\ busyAction = "none" /\ email # Null
  /\ verifying' = FALSE
  /\ RequestVerification(h)
  /\ UNCHANGED <<consent, view, form, busyProvider, isSubmitting, own, host>>

\* The link for another code is disabled while one is sent only (527, Field 174).
Resend(h) ==
  /\ AsksForCode /\ busyAction # "signup-email"
  /\ RequestVerification(h)
  /\ UNCHANGED <<consent, view, form, busyProvider, isSubmitting, field, host>>

\* verifyCode of the field and verifySignupEmailCode up to the request (239-248,
\* Field 72-90).
Verify(h) ==
  /\ AsksForCode /\ busyAction # "signup-email-code" /\ ~verifying
  /\ Start(h, "verify", email, challenge)
  /\ verifying' = TRUE /\ own' = own \cup {h}
  /\ busyAction' = "signup-email-code"
  /\ UNCHANGED <<consent, view, form, busyProvider, isSubmitting, host>>

\* Variant: the button is not disabled while a signup is under way.
SubmitPasswordSignup_Again(h) ==
  /\ ~pending /\ showEmail
  /\ consent /\ verified /\ challenge # Null
  /\ Start(h, "signup", email, challenge)
  /\ isSubmitting' = TRUE
  /\ UNCHANGED <<consent, view, form, busyAction, busyProvider, field, host>>

\* submitPasswordSignup up to the request (264-292, 659).
SubmitPasswordSignup(h) ==
  /\ ~pending /\ showEmail
  /\ ~isSubmitting /\ consent /\ verified /\ challenge # Null
  /\ Start(h, "signup", email, challenge)
  /\ isSubmitting' = TRUE
  /\ UNCHANGED <<consent, view, form, busyAction, busyProvider, field, host>>

\* handleAppleSignup and handleMicrosoftSignup open a popup (360-366, 379-385);
\* a Google credential is sent at once (335-340, 356).
OpenPopup(h, p) ==
  /\ p \in {"Apple", "Microsoft"}
  /\ OptionsShown /\ consent /\ busyProvider = "none"
  /\ Start(h, "popup", Null, Null)
  /\ busyProvider' = p
  /\ UNCHANGED <<consent, view, form, busyAction, isSubmitting, field, host>>

GoogleCredential(h) ==
  /\ OptionsShown /\ consent /\ busyProvider = "none"
  /\ Start(h, "external", Null, Null)
  /\ busyProvider' = "Google"
  /\ UNCHANGED <<consent, view, form, busyAction, isSubmitting, field, host>>

\* Variant: a challenge is taken for a verified one.
FinishMicrosoft_Unverified(h) ==
  /\ pending /\ challenge # Null
  /\ consent /\ busyProvider = "none"
  /\ Start(h, "external", email, challenge)
  /\ busyProvider' = "Microsoft"
  /\ UNCHANGED <<consent, view, form, busyAction, isSubmitting, field, host>>

\* finishPendingMicrosoftSignup and completeExternalSignup up to the request
\* (411-422, 335-340).
FinishMicrosoft(h) ==
  /\ pending /\ verified /\ challenge # Null
  /\ consent /\ busyProvider = "none"
  /\ Start(h, "external", email, challenge)
  /\ busyProvider' = "Microsoft"
  /\ UNCHANGED <<consent, view, form, busyAction, isSubmitting, field, host>>

\* resetPendingExternalSignup (206).
ResetPending ==
  /\ pending' = FALSE
  /\ ClearVerification
  /\ email' = Null
  /\ IF pending THEN Detach ELSE UNCHANGED field

\* The button "cancel" is never disabled (492).
CancelPending ==
  /\ pending
  /\ ResetPending
  /\ UNCHANGED <<consent, showEmail, busy, task, host>>

-----------------------------------------------------------------------------
(* Answers *)

\* A challenge was begun and its answer is applied (217-231).
BeginAnswered(h, c) ==
  /\ Running(h, "begin") /\ about[c] = Null
  /\ about' = [about EXCEPT ![c] = task[h].email]
  /\ email' = task[h].email
  /\ challenge' = c
  /\ verified' = FALSE
  /\ busyAction' = "none"
  /\ End(h)
  /\ UNCHANGED <<consent, view, busyProvider, isSubmitting, field, proved>>

\* A verifyCode call ends; the ref belongs to the field that made it (Field 80).
VerifyEnds(h) ==
  /\ Running(h, "verify")
  /\ busyAction' = "none"
  /\ verifying' = (verifying /\ h \notin own)
  /\ own' = own \ {h}
  /\ End(h)
  /\ UNCHANGED <<consent, view, busyProvider, isSubmitting, about>>

\* Variant: the address in the form is taken for the one the answer is about.
CodeAccepted_ForTheForm(h) ==
  /\ VerifyEnds(h)
  /\ proved' = proved \cup {task[h].challenge}
  /\ verified' = TRUE
  /\ UNCHANGED <<email, challenge>>

\* The host accepts the code and its answer is applied (249-261).
CodeAccepted(h) ==
  /\ VerifyEnds(h)
  /\ proved' = proved \cup {task[h].challenge}
  /\ email' = about[task[h].challenge]
  /\ verified' = TRUE
  /\ UNCHANGED challenge

\* It does not, or its answer is lost.
CodeRefused(h) ==
  /\ VerifyEnds(h)
  /\ proved' \in {proved, proved \cup {task[h].challenge}}
  /\ UNCHANGED form

\* The begin fails (217-220, 227-231).
BeginRefused(h) ==
  /\ Running(h, "begin")
  /\ busyAction' = "none"
  /\ End(h)
  /\ UNCHANGED <<consent, view, form, busyProvider, isSubmitting, field, host>>

\* The account is there: without a further verification the user is logged in with
\* the address and password of the request (294-305).
SignupAnswered(h) ==
  /\ Running(h, "signup")
  /\ Continue(h, "login")
  /\ UNCHANGED <<consent, view, form, busy, field, host>>

\* Refused, to be verified by link, or logged in (294-311).
SubmitEnds(h) ==
  /\ Running(h, "signup") \/ Running(h, "login")
  /\ isSubmitting' = FALSE
  /\ End(h)
  /\ UNCHANGED <<consent, view, form, busyAction, busyProvider, field, host>>

\* The popup brings a credential, with an address of the provider (366-367, 386-388).
PopupAnswered(h) ==
  /\ Running(h, "popup")
  /\ Continue(h, "external")
  /\ UNCHANGED <<consent, view, form, busy, field, host>>

\* Variant: the early return has no finally.
EmailMissing_StillBusy(h, e) ==
  /\ Running(h, "popup") /\ busyProvider = "Microsoft"
  /\ pending' = TRUE /\ showEmail' = FALSE
  /\ email' = e /\ ClearVerification
  /\ Detach
  /\ End(h)
  /\ UNCHANGED <<consent, busy, host>>

\* A Microsoft credential without one: the user has to verify an address (391-407).
EmailMissing(h, e) ==
  /\ Running(h, "popup") /\ busyProvider = "Microsoft"
  /\ pending' = TRUE /\ showEmail' = FALSE
  /\ email' = e /\ ClearVerification
  /\ Detach
  /\ busyProvider' = "none"
  /\ End(h)
  /\ UNCHANGED <<consent, busyAction, isSubmitting, host>>

\* externalSignup succeeds: the panel is reset (330-331, 352).
SignedUp(h) ==
  /\ Running(h, "external")
  /\ ResetPending
  /\ busyProvider' = "none"
  /\ End(h)
  /\ UNCHANGED <<consent, showEmail, busyAction, isSubmitting, host>>

\* A popup or an external signup fails (341-353, 368-376, 400-408).
ProviderFails(h) ==
  /\ Running(h, "popup") \/ Running(h, "external")
  /\ busyProvider' = "none"
  /\ End(h)
  /\ UNCHANGED <<consent, view, form, busyAction, isSubmitting, field, host>>

-----------------------------------------------------------------------------
Ask(h) ==
  \/ SendVerification(h) \/ Resend(h) \/ Verify(h)
  \/ SubmitPasswordSignup(h)
  \/ \E p \in Providers : OpenPopup(h, p)
  \/ GoogleCredential(h) \/ FinishMicrosoft(h)

Answer(h) ==
  \/ \E c \in Challenges : BeginAnswered(h, c)
  \/ BeginRefused(h)
  \/ CodeAccepted(h) \/ CodeRefused(h)
  \/ SignupAnswered(h) \/ SubmitEnds(h)
  \/ PopupAnswered(h)
  \/ \E e \in Emails \cup {Null} : EmailMissing(h, e)
  \/ SignedUp(h) \/ ProviderFails(h)

Edit ==
  \/ ToggleConsent \/ ChooseEmail \/ BackToOptions
  \/ \E e \in Emails : TypeEmail(e)
  \/ ChangeEmail \/ CancelPending

Next == Edit \/ \E h \in Handlers : Ask(h) \/ Answer(h)

Spec == Init /\ [][Next]_vars

\* Requests time out and popups are closed, so every handler gets its answer.  That a
\* provider's script comes or fails is part of this.  One handler gets no answer: that of
\* Apple (366) after the script failed to load, which LoginPanel models.
Fairness == \A h \in Handlers : WF_vars(Answer(h))

FairSpec == Spec /\ Fairness

-----------------------------------------------------------------------------
(* Properties *)

ProvedEmails == {about[c] : c \in proved}

\* An address shown as verified is one whose code the host accepted, whatever
\* answers arrived after the form had moved on (212-262).
VerifiedEmailWasProved == verified => email \in ProvedEmails

\* A signup under way carries an address that was proved, or that of its provider,
\* although the form may show another one by now (264-332, 411-422).
SignupsCarryProvedEmails ==
  \A h \in Handlers :
    task[h].step \in {"signup", "login"} \/ (task[h].step = "external" /\ task[h].email # Null)
      => task[h].email \in ProvedEmails

\* The flags that disable the buttons let one password signup and one provider flow
\* run at a time, across every change of the view (107-116, 335, 361, 380).
FlowsAlone ==
  \A g, h \in Handlers :
    \A flow \in {{"signup", "login"}, {"popup", "external"}} :
      task[g].step \in flow /\ task[h].step \in flow => g = h

\* Whatever handlers overlap, the form becomes usable again: no flag stays set
\* (229, 259, 309, 351, 374, 406), as long as Apple's script has not failed.
Flags == <<busyAction # "none", busyProvider # "none", isSubmitting>>
BusyEnds == \A i \in 1..3 : Flags[i] ~> ~Flags[i]

\* Dtos/PasswordSignupRequest.cs:49, the challenge of a signup is "the verified email
\* challenge identifier used to prove ownership before password sign-up."
ChallengeProvesEmail ==
  \A h \in Handlers :
    task[h].step = "signup" =>
      task[h].challenge \in proved /\ about[task[h].challenge] = task[h].email

=============================================================================
