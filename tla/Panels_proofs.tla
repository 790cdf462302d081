---------------------------- MODULE Panels_proofs ----------------------------
(***************************************************************************)
(* Theorems about the panels of the React package together, for any        *)
(* addresses, invitations, providers and number of handlers.  A behaviour  *)
(* of all of them is one of each, in whatever order their steps come; each *)
(* part below proves the invariant of one panel, and the last one combines *)
(* them.                                                                   *)
(***************************************************************************)
EXTENDS Panels, SignupPanel_proofs

\* A behaviour of the panels is one of the signup panel: the others' steps are stutters.
LEMMA SignupRuns == AllSpec => Spec
<1>1. AllInit => Init
  BY DEF AllInit
<1>2. [AllNext]_allVars => [Next]_vars
  BY DEF AllNext, SignupStep, AccountStep, InvitationStep, InvitationsStep, LoginStep, allVars
<1> QED BY <1>1, <1>2, PTL DEF AllSpec, Spec

-----------------------------------------------------------------------------
(* The login panel *)

\* A behaviour of the panels is one of the login panel.
LEMMA LoginRuns == AllSpec => Login!Spec
<1>1. AllInit => Login!Init
  BY DEF AllInit
<1>2. [AllNext]_allVars => [Login!Next]_Login!vars
  BY DEF AllNext, SignupStep, AccountStep, InvitationStep, InvitationsStep, LoginStep, allVars,
    loginVars, Login!vars, Login!props, Login!link, Login!view, Login!busy
<1> QED BY <1>1, <1>2, PTL DEF AllSpec, Login!Spec

\* A step of the login panel keeps the types.
LEMMA LoginTypeStep == Login!TypeOK /\ [Login!Next]_Login!vars => Login!TypeOK'
<1> SUFFICES ASSUME Login!TypeOK, [Login!Next]_Login!vars PROVE Login!TypeOK'
  OBVIOUS
<1> USE PanelBoundsOK DEF Login!props, Login!link, Login!view, Login!busy, Login!Start, Login!End
<1>1. CASE Login!OpenEmail \/ Login!BackToOptions \/ Login!OpenPasswordless
           \/ Login!LeavePasswordless \/ Login!Rerender
  BY <1>1 DEF Login!TypeOK, Login!OpenEmail, Login!BackToOptions, Login!OpenPasswordless,
    Login!LeavePasswordless, Login!Rerender, Login!Turn
<1>2. ASSUME NEW h \in Handlers, Login!Ask(h) PROVE Login!TypeOK'
  <2>1. CASE Login!SendToken(h)
    <3>1. sent + 1 \in 0..MaxSent
      BY <2>1 DEF Login!TypeOK, Login!SendToken
    <3> QED BY <2>1, <3>1 DEF Login!TypeOK, Login!SendToken
  <2>2. CASE Login!SubmitPassword(h) \/ Login!RequestCode(h) \/ Login!CompleteCode(h)
    BY <2>2 DEF Login!TypeOK, Login!SubmitPassword, Login!RequestCode, Login!CompleteCode,
      Login!Passwordless
  <2>3. ASSUME NEW p \in Login!Providers, Login!RunProviderLogin(h, p) PROVE Login!TypeOK'
    BY <2>3 DEF Login!TypeOK, Login!RunProviderLogin
  <2> QED BY <1>2, <2>1, <2>2, <2>3 DEF Login!Ask
<1>3. ASSUME NEW h \in Handlers, Login!Answer(h) PROVE Login!TypeOK'
  BY <1>3 DEF Login!TypeOK, Login!Answer, Login!TokenAnswered, Login!PasswordAnswered,
    Login!CodeAnswered, Login!ScriptSettles, Login!PopupAnswered, Login!ProviderEnds
<1>4. CASE UNCHANGED Login!vars
  BY <1>4 DEF Login!TypeOK, Login!vars
<1> QED BY <1>1, <1>2, <1>3, <1>4 DEF Login!Next

\* What a flow awaits, and the flag that says so.
Awaits(h, steps) == loginTask[h] \in steps
OfPassword == {"password"}
OfCode == {"begin", "complete"}
OfProvider == {"script", "popup", "external"}

\* Strengthens LoginsAlone: the flag of a flow that is under way is set, which disables
\* the buttons of all three.
LoginInv ==
  /\ Login!TypeOK
  /\ \A h \in Handlers :
       /\ Awaits(h, OfPassword) => loginIsSubmitting
       /\ Awaits(h, OfCode) => passwordlessBusy
       /\ Awaits(h, OfProvider) => loginBusyProvider # Null
  /\ \A g, h \in Handlers :
       \/ Awaits(g, OfPassword) /\ Awaits(h, OfPassword)
       \/ Awaits(g, OfCode) /\ Awaits(h, OfCode)
       \/ Awaits(g, OfProvider) /\ Awaits(h, OfProvider)
       => g = h

\* Each operation starts only while its busy flag is clear, and clears it as it ends.
LEMMA LoginAloneStep == LoginInv /\ [Login!Next]_Login!vars => LoginInv'
<1> SUFFICES ASSUME LoginInv, [Login!Next]_Login!vars PROVE LoginInv'
  OBVIOUS
<1> USE PanelBoundsOK DEF Login!props, Login!link, Login!view, Login!busy, Login!Start, Login!End,
    OfPassword, OfCode, OfProvider, Awaits
<1>t. Login!TypeOK'
  BY LoginTypeStep DEF LoginInv
<1>1. CASE Login!OpenEmail \/ Login!BackToOptions \/ Login!OpenPasswordless
           \/ Login!LeavePasswordless \/ Login!Rerender \/ UNCHANGED Login!vars
  BY <1>1, <1>t DEF LoginInv, Login!OpenEmail, Login!BackToOptions, Login!OpenPasswordless,
    Login!LeavePasswordless, Login!Rerender, Login!Turn, Login!vars
<1>2. ASSUME NEW h \in Handlers, Login!Ask(h) PROVE LoginInv'
  <2>1. CASE Login!SendToken(h)
    BY <2>1, <1>t DEF LoginInv, Login!SendToken, Login!TypeOK
  <2>2. CASE Login!SubmitPassword(h)
    BY <2>2, <1>t DEF LoginInv, Login!SubmitPassword, Login!TypeOK
  <2>3. CASE Login!RequestCode(h) \/ Login!CompleteCode(h)
    BY <2>3, <1>t DEF LoginInv, Login!RequestCode, Login!CompleteCode,
      Login!Passwordless, Login!CodeForm, Login!TypeOK
  <2>4. ASSUME NEW p \in Login!Providers, Login!RunProviderLogin(h, p) PROVE LoginInv'
    <3> DEFINE step == CASE p = "Google" -> "external"
                         [] p = "Microsoft" \/ script = "loaded" -> "popup"
                         [] OTHER -> "script"
    <3>1. step \in OfProvider
      OBVIOUS
    <3>2. loginTask' = [loginTask EXCEPT ![h] = step] /\ loginTask[h] = "idle"
      BY <2>4 DEF Login!RunProviderLogin
    <3> HIDE DEF step
    <3> QED
      BY <2>4, <3>1, <3>2, <1>t DEF LoginInv, Login!RunProviderLogin, Login!ProviderButtons,
        Login!TypeOK
  <2> QED BY <1>2, <2>1, <2>2, <2>3, <2>4 DEF Login!Ask
<1>3. ASSUME NEW h \in Handlers, Login!Answer(h) PROVE LoginInv'
  <2>1. CASE Login!TokenAnswered(h) \/ Login!PasswordAnswered(h) \/ Login!CodeAnswered(h)
    BY <2>1, <1>t DEF LoginInv, Login!TokenAnswered, Login!PasswordAnswered,
      Login!CodeAnswered, Login!TypeOK
  <2>2. CASE Login!ScriptSettles(h) \/ Login!PopupAnswered(h) \/ Login!ProviderEnds(h)
    BY <2>2, <1>t DEF LoginInv, Login!ScriptSettles, Login!PopupAnswered, Login!ProviderEnds,
      Login!TypeOK
  <2> QED BY <1>3, <2>1, <2>2 DEF Login!Answer
<1> QED BY <1>1, <1>2, <1>3 DEF Login!Next

\* So the invariant holds of every behaviour of the login panel.
LEMMA LoginInvariant == Login!Spec => []LoginInv
<1>1. 0 \in 0..MaxSent
  BY PanelBoundsOK
<1>2. Login!Init => LoginInv
  <2> SUFFICES ASSUME Login!Init PROVE LoginInv
    OBVIOUS
  <2>1. Login!TypeOK
    BY <1>1 DEF Login!Init, Login!TypeOK
  <2>2. \A h \in Handlers : loginTask[h] = "idle"
    BY DEF Login!Init
  <2> QED BY <2>1, <2>2 DEF LoginInv, Awaits, OfPassword, OfCode, OfProvider
<1> QED BY <1>2, LoginAloneStep, PTL DEF Login!Spec

\* Flags that stand for the operation that set them let no second one run.
LEMMA LoginAlone == LoginInv => Login!LoginsAlone
  BY DEF LoginInv, Login!LoginsAlone, Awaits, OfPassword, OfCode, OfProvider

-----------------------------------------------------------------------------
(* The invitation *)

\* A behaviour of the panels is one of the invitation panel.
LEMMA InvitationRuns == AllSpec => Invitation!Spec
<1>1. AllInit => Invitation!Init
  BY DEF AllInit
<1>2. [AllNext]_allVars => [Invitation!Next]_Invitation!vars
  BY DEF AllNext, SignupStep, AccountStep, InvitationStep, InvitationsStep, LoginStep, allVars,
    invitationVars, Invitation!vars, Invitation!props, Invitation!load, Invitation!form
<1> QED BY <1>1, <1>2, PTL DEF AllSpec, Invitation!Spec

\* What a handler awaits.
InvitationTasks ==
  [step : Invitation!Steps, key : Keys \cup {Null}, email : Emails \cup {Null},
   early : BOOLEAN]

\* A handler that takes a step has the type of a handler.
LEMMA InvitationTaskTypes ==
  /\ \A step \in Invitation!Steps : Invitation!On(step) \in InvitationTasks
  /\ Invitation!Idle = Invitation!On("idle")
  /\ \A step : /\ Invitation!On(step).step = step
               /\ Invitation!On(step).key = Null /\ Invitation!On(step).email = Null
  BY DEF Invitation!On, Invitation!Idle, InvitationTasks

\* Strengthens RestrictedAddressKept and DetailsOfTheKey: the form shows the address of
\* a restricted invitation as long as its details are there.
FormKept ==
  invitationDetails # Null /\ invitationDetails.key \in Restricted =>
    /\ invitationEmail = InvitedAs[invitationDetails.key]
    /\ existing = InvitedAs[invitationDetails.key]

\* Strengthens OperationsAlone: isSubmitting is set while an operation runs.
OperationsFlagged ==
  ~embedded =>
    \A h \in Handlers : ~Invitation!At(h, "idle")
      => invitationIsSubmitting /\ ~Invitation!At(h, "embedded")

InvitationInv ==
  /\ Invitation!TypeOK
  /\ FormKept /\ Invitation!DetailsOfTheKey /\ Invitation!RestrictedAddressKept
  /\ OperationsFlagged /\ Invitation!OperationsAlone

\* A step that sends nothing and leaves the handlers alone.
InvitationEdit ==
  \/ Invitation!Edit
  \/ \E k \in Keys : Invitation!LoadAnswered(k)
  \/ UNCHANGED Invitation!vars

\* A step of the invitation panel keeps the types.
LEMMA InvitationTypeStep ==
  Invitation!TypeOK /\ [Invitation!Next]_Invitation!vars => Invitation!TypeOK'
<1> SUFFICES ASSUME Invitation!TypeOK, [Invitation!Next]_Invitation!vars
    PROVE  Invitation!TypeOK'
  OBVIOUS
<1> USE ConstantsOK DEF Invitation!props, Invitation!load, Invitation!form, Invitation!Render,
    Invitation!LoadInvitation
<1>1. CASE InvitationEdit
  <2>1. ASSUME NEW k \in Keys \cup {Null}, Invitation!ChangeKey(k) \/ Invitation!RunEffect
        PROVE  Invitation!TypeOK'
    BY <2>1 DEF Invitation!TypeOK, Invitation!ChangeKey, Invitation!RunEffect
  <2>2. CASE \/ Invitation!UserLeaves \/ Invitation!SwitchToLogin
             \/ Invitation!SwitchToCreate \/ Invitation!OpenDecline
             \/ Invitation!CancelDecline
    <3>1. ASSUME NEW v \in {"choice", "login", "create", "decline"}, Invitation!Turn(v)
          PROVE  Invitation!TypeOK'
      BY <3>1 DEF Invitation!TypeOK, Invitation!Turn
    <3>2. CASE Invitation!UserLeaves
      BY <3>2 DEF Invitation!TypeOK, Invitation!UserLeaves
    <3> QED BY <2>2, <3>1, <3>2 DEF Invitation!SwitchToLogin, Invitation!SwitchToCreate,
          Invitation!OpenDecline, Invitation!CancelDecline
  <2>3. ASSUME NEW e \in Emails, Invitation!TypeEmail(e) PROVE Invitation!TypeOK'
    BY <2>3 DEF Invitation!TypeOK, Invitation!TypeEmail
  <2>4. ASSUME NEW k \in Keys, Invitation!LoadAnswered(k) PROVE Invitation!TypeOK'
    <3>1. InvitedAs[k] \in Emails
      BY ConstantsOK
    <3>2. ASSUME NEW p \in BOOLEAN, Invitation!Loaded(k, p)
          PROVE  Invitation!TypeOK'
      <4>1. /\ UNCHANGED <<key, user, embedded, asked, invitationView,
                           invitationIsSubmitting, invitationTask>>
            /\ loads' \subseteq loads /\ loading' \in {FALSE, loading}
            /\ invitationDetails' \in {[key |-> k, pending |-> p], invitationDetails}
            /\ invitationEmail' \in {InvitedAs[k], invitationEmail}
            /\ existing' \in {InvitedAs[k], existing}
        BY <3>2 DEF Invitation!Loaded
      <4>2. [key |-> k, pending |-> p] \in [key : Keys, pending : BOOLEAN]
        OBVIOUS
      <4> QED BY <3>1, <4>1, <4>2 DEF Invitation!TypeOK
    <3>3. CASE Invitation!LoadRefused(k)
      <4>1. /\ UNCHANGED <<key, user, embedded, asked, invitationView, invitationEmail,
                           existing, invitationIsSubmitting, invitationTask>>
            /\ loads' \subseteq loads /\ loading' \in {FALSE, loading}
            /\ invitationDetails' \in {Null, invitationDetails}
        BY <3>3 DEF Invitation!LoadRefused
      <4> QED BY <4>1 DEF Invitation!TypeOK
    <3> QED BY <2>4, <3>2, <3>3 DEF Invitation!LoadAnswered
  <2>5. CASE UNCHANGED Invitation!vars
    BY <2>5 DEF Invitation!TypeOK, Invitation!vars
  <2> QED BY <1>1, <2>1, <2>2, <2>3, <2>4, <2>5 DEF InvitationEdit, Invitation!Edit
<1>2. ASSUME NEW h \in Handlers, Invitation!Operate(h) PROVE Invitation!TypeOK'
  <2>1. ASSUME NEW t \in InvitationTasks, Invitation!Ask(h, t),
               invitationIsSubmitting' \in {TRUE, invitationIsSubmitting}
        PROVE  Invitation!TypeOK'
    BY <2>1 DEF Invitation!TypeOK, Invitation!Ask, InvitationTasks
  <2>2. ASSUME NEW step \in Invitation!Steps, Invitation!Ask(h, Invitation!On(step)),
               invitationIsSubmitting' \in {TRUE, invitationIsSubmitting}
        PROVE  Invitation!TypeOK'
    BY <2>1, <2>2, InvitationTaskTypes
  <2>3. ASSUME NEW step \in Invitation!Steps, NEW e \in {invitationEmail, existing},
               Invitation!Send(h, step, e)
        PROVE  Invitation!TypeOK'
    <3> DEFINE t == [step |-> step, key |-> key, email |-> e, early |-> Invitation!Early]
    <3>1. t \in InvitationTasks
      BY DEF InvitationTasks, Invitation!TypeOK, Invitation!Early
    <3>2. Invitation!Ask(h, t) /\ invitationIsSubmitting' = TRUE
      BY <2>3 DEF Invitation!Send
    <3> HIDE DEF t
    <3> QED BY <2>1, <3>1, <3>2
  <2>4. CASE Invitation!AcceptInvitation(h) \/ Invitation!ConnectExistingAccount(h)
    BY <2>3, <2>4 DEF Invitation!AcceptInvitation, Invitation!ConnectExistingAccount,
      Invitation!Steps
  <2>5. CASE \/ Invitation!ConnectCurrentAccount(h) \/ Invitation!SwitchAccount(h)
             \/ Invitation!DeclineInvitation(h) \/ Invitation!EmbeddedLogin(h)
    BY <2>2, <2>5 DEF Invitation!ConnectCurrentAccount, Invitation!SwitchAccount,
      Invitation!DeclineInvitation, Invitation!EmbeddedLogin, Invitation!Submit,
      Invitation!Steps
  <2> QED BY <1>2, <2>4, <2>5 DEF Invitation!Operate
<1>3. ASSUME NEW h \in Handlers, Invitation!Answer(h) PROVE Invitation!TypeOK'
  <2>1. PICK t \in InvitationTasks :
          invitationTask' = [invitationTask EXCEPT ![h] = t]
    <3>1. CASE Invitation!Activated(h)
      <4>1. [invitationTask[h] EXCEPT !.step = "login"] \in InvitationTasks
        BY DEF Invitation!TypeOK, Invitation!Steps, InvitationTasks
      <4> QED BY <3>1, <4>1 DEF Invitation!Activated
    <3>2. CASE ~Invitation!Activated(h)
      BY <1>3, <3>2, InvitationTaskTypes DEF Invitation!Answer,
        Invitation!AcceptedForNow, Invitation!LoggedIn, Invitation!EmbeddedLoggedIn,
        Invitation!SignedOut, Invitation!Declined, Invitation!Ends, Invitation!Finally,
        Invitation!Steps
    <3> QED BY <3>1, <3>2
  <2>2. /\ UNCHANGED <<key, embedded, asked, loading, loads, invitationEmail, existing>>
        /\ user' \in Emails \cup {Null}
        /\ invitationDetails' \in {invitationDetails, Null}
        /\ invitationView' \in {invitationView, "login", "create"}
        /\ invitationIsSubmitting' \in {TRUE, FALSE, invitationIsSubmitting}
    BY <1>3 DEF Invitation!TypeOK, Invitation!Answer, Invitation!Activated,
      Invitation!AcceptedForNow, Invitation!LoggedIn, Invitation!EmbeddedLoggedIn,
      Invitation!SignedOut, Invitation!Declined, Invitation!Ends, Invitation!Finally
  <2> QED BY <2>1, <2>2 DEF Invitation!TypeOK, InvitationTasks
<1> QED BY <1>1, <1>2, <1>3 DEF Invitation!Next, InvitationEdit

\* A step of the invitation panel keeps its form, its flag and what it shows in order.
LEMMA InvitationStepKeeps ==
  InvitationInv /\ [Invitation!Next]_Invitation!vars => InvitationInv'
<1> SUFFICES ASSUME InvitationInv, [Invitation!Next]_Invitation!vars
    PROVE  InvitationInv'
  OBVIOUS
<1> USE ConstantsOK, InvitationTaskTypes
    DEF Invitation!props, Invitation!load, Invitation!form, Invitation!At, Invitation!Early,
        Invitation!Render, Invitation!LoadInvitation, InvitationTasks
<1>t. Invitation!TypeOK /\ Invitation!TypeOK'
  BY InvitationTypeStep DEF InvitationInv
<1>f. FormKept'
  <2>1. CASE InvitationEdit
    BY <2>1, <1>t DEF InvitationEdit, InvitationInv, FormKept, Invitation!TypeOK,
      Invitation!Edit, Invitation!ChangeKey, Invitation!RunEffect, Invitation!UserLeaves,
      Invitation!SwitchToLogin,
      Invitation!SwitchToCreate, Invitation!OpenDecline, Invitation!CancelDecline,
      Invitation!TypeEmail, Invitation!Turn, Invitation!LoadAnswered, Invitation!Loaded,
      Invitation!LoadRefused, Invitation!vars, Invitation!ReadOnly
  <2>2. ASSUME NEW h \in Handlers, Invitation!Operate(h) \/ Invitation!Answer(h)
        PROVE  FormKept'
    BY <2>2, <1>t DEF InvitationInv, FormKept, Invitation!Operate,
      Invitation!AcceptInvitation, Invitation!ConnectCurrentAccount,
      Invitation!ConnectExistingAccount, Invitation!SwitchAccount,
      Invitation!DeclineInvitation, Invitation!EmbeddedLogin, Invitation!Send,
      Invitation!Submit, Invitation!Ask, Invitation!Answer, Invitation!Activated,
      Invitation!AcceptedForNow, Invitation!LoggedIn, Invitation!EmbeddedLoggedIn,
      Invitation!SignedOut, Invitation!Declined, Invitation!Ends
  <2> QED BY <2>1, <2>2 DEF Invitation!Next, InvitationEdit
<1>d. Invitation!DetailsOfTheKey'
  <2>1. CASE InvitationEdit
    BY <2>1, <1>t DEF InvitationEdit, InvitationInv, Invitation!DetailsOfTheKey,
      Invitation!Shown, Invitation!TypeOK,
      Invitation!Edit, Invitation!ChangeKey, Invitation!RunEffect, Invitation!UserLeaves,
      Invitation!SwitchToLogin,
      Invitation!SwitchToCreate, Invitation!OpenDecline, Invitation!CancelDecline,
      Invitation!TypeEmail, Invitation!Turn, Invitation!LoadAnswered, Invitation!Loaded,
      Invitation!LoadRefused, Invitation!vars
  <2>2. ASSUME NEW h \in Handlers, Invitation!Operate(h) \/ Invitation!Answer(h)
        PROVE  Invitation!DetailsOfTheKey'
    BY <2>2, <1>t DEF InvitationInv, Invitation!DetailsOfTheKey, Invitation!Shown,
      Invitation!Operate,
      Invitation!AcceptInvitation, Invitation!ConnectCurrentAccount,
      Invitation!ConnectExistingAccount, Invitation!SwitchAccount,
      Invitation!DeclineInvitation, Invitation!EmbeddedLogin, Invitation!Send,
      Invitation!Submit, Invitation!Ask, Invitation!Answer, Invitation!Activated,
      Invitation!AcceptedForNow, Invitation!LoggedIn, Invitation!EmbeddedLoggedIn,
      Invitation!SignedOut, Invitation!Declined, Invitation!Ends
  <2> QED BY <2>1, <2>2 DEF Invitation!Next, InvitationEdit
<1>e. InvitationEdit => UNCHANGED <<embedded, invitationIsSubmitting, invitationTask>>
  BY DEF InvitationEdit, Invitation!Edit, Invitation!ChangeKey, Invitation!RunEffect,
    Invitation!UserLeaves, Invitation!SwitchToLogin, Invitation!SwitchToCreate, Invitation!OpenDecline,
    Invitation!CancelDecline, Invitation!TypeEmail, Invitation!Turn, Invitation!LoadAnswered,
    Invitation!Loaded, Invitation!LoadRefused, Invitation!vars
<1>r. Invitation!RestrictedAddressKept'
  <2>1. CASE InvitationEdit
    BY <2>1, <1>e DEF InvitationInv, Invitation!RestrictedAddressKept
  <2>2. ASSUME NEW h \in Handlers, \/ Invitation!AcceptInvitation(h)
                                   \/ Invitation!ConnectExistingAccount(h)
        PROVE  Invitation!RestrictedAddressKept'
    <3>1. invitationDetails # Null /\ (Invitation!Early \/ invitationDetails.key = key)
      BY <2>2 DEF Invitation!AcceptInvitation, Invitation!ConnectExistingAccount, Invitation!Send,
        Invitation!Ask, Invitation!CreateForm, Invitation!LoginForm, Invitation!Guest,
        Invitation!Actionable, InvitationInv, Invitation!DetailsOfTheKey, Invitation!Shown
    <3>2. PICK e \in {invitationEmail, existing}, step \in {"accept", "signin"} :
            Invitation!Send(h, step, e)
      BY <2>2 DEF Invitation!AcceptInvitation, Invitation!ConnectExistingAccount
    <3>3. /\ invitationTask'[h].key = key /\ invitationTask'[h].email = e
          /\ invitationTask'[h].early <=> Invitation!Early
          /\ \A g \in Handlers \ {h} : invitationTask'[g] = invitationTask[g]
      BY <3>2, <1>t DEF Invitation!Send, Invitation!Ask, Invitation!TypeOK
    <3>4. ~Invitation!Early /\ key \in Restricted => e = InvitedAs[key]
      BY <3>1, <3>2, <1>t DEF InvitationInv, FormKept
    <3> QED BY <3>3, <3>4, <1>t DEF InvitationInv, Invitation!RestrictedAddressKept
  <2>3. ASSUME NEW h \in Handlers, \/ Invitation!ConnectCurrentAccount(h)
                                   \/ Invitation!SwitchAccount(h)
                                   \/ Invitation!DeclineInvitation(h)
                                   \/ Invitation!EmbeddedLogin(h)
        PROVE  Invitation!RestrictedAddressKept'
    BY <2>3, <1>t DEF Invitation!ConnectCurrentAccount, Invitation!SwitchAccount,
      Invitation!DeclineInvitation, Invitation!EmbeddedLogin, Invitation!Submit,
      Invitation!Ask, InvitationInv, Invitation!RestrictedAddressKept, Invitation!TypeOK
  <2>4. ASSUME NEW h \in Handlers, Invitation!Answer(h)
        PROVE  Invitation!RestrictedAddressKept'
    BY <2>4, <1>t DEF Invitation!Answer, Invitation!Activated, Invitation!AcceptedForNow,
      Invitation!LoggedIn, Invitation!EmbeddedLoggedIn, Invitation!SignedOut,
      Invitation!Declined, Invitation!Ends, Invitation!Finally, InvitationInv,
      Invitation!RestrictedAddressKept, Invitation!TypeOK
  <2> QED BY <2>1, <2>2, <2>3, <2>4 DEF Invitation!Next, InvitationEdit, Invitation!Operate
<1>o. OperationsFlagged' /\ Invitation!OperationsAlone'
  <2>1. CASE InvitationEdit
    BY <2>1, <1>e DEF InvitationInv, OperationsFlagged, Invitation!OperationsAlone
  <2>2. ASSUME NEW h \in Handlers, Invitation!Operate(h)
        PROVE  OperationsFlagged' /\ Invitation!OperationsAlone'
    BY <2>2, <1>t DEF InvitationInv, OperationsFlagged, Invitation!OperationsAlone,
      Invitation!Operate,
      Invitation!AcceptInvitation, Invitation!ConnectCurrentAccount,
      Invitation!ConnectExistingAccount, Invitation!SwitchAccount,
      Invitation!DeclineInvitation, Invitation!EmbeddedLogin, Invitation!Send,
      Invitation!Submit, Invitation!Ask, Invitation!AccountCard, Invitation!CreateForm,
      Invitation!LoginForm, Invitation!DeclineForm, Invitation!TypeOK
  <2>3. ASSUME NEW h \in Handlers, Invitation!Answer(h)
        PROVE  OperationsFlagged' /\ Invitation!OperationsAlone'
    BY <2>3, <1>t DEF InvitationInv, OperationsFlagged, Invitation!OperationsAlone,
      Invitation!Answer, Invitation!Activated, Invitation!AcceptedForNow,
      Invitation!LoggedIn, Invitation!EmbeddedLoggedIn, Invitation!SignedOut,
      Invitation!Declined, Invitation!Ends, Invitation!Finally, Invitation!TypeOK
  <2> QED BY <2>1, <2>2, <2>3 DEF Invitation!Next, InvitationEdit
<1> QED BY <1>t, <1>f, <1>d, <1>r, <1>o DEF InvitationInv

\* So the invariant holds of every behaviour of the invitation panel.
LEMMA InvitationInvariant == Invitation!Spec => []InvitationInv
<1>1. Invitation!Init => InvitationInv
  <2> SUFFICES ASSUME Invitation!Init PROVE InvitationInv
    OBVIOUS
  <2>1. Invitation!TypeOK
    BY InvitationTaskTypes DEF Invitation!Init, Invitation!TypeOK, Invitation!Steps,
      InvitationTasks
  <2>2. \A h \in Handlers : Invitation!At(h, "idle")
    BY InvitationTaskTypes DEF Invitation!Init, Invitation!At
  <2> QED BY <2>1, <2>2 DEF Invitation!Init, InvitationInv, FormKept,
    Invitation!DetailsOfTheKey, Invitation!Shown, Invitation!RestrictedAddressKept,
    OperationsFlagged, Invitation!OperationsAlone, Invitation!At
<1> QED BY <1>1, InvitationStepKeeps, PTL DEF Invitation!Spec

-----------------------------------------------------------------------------
(* The list of invitations *)

\* A behaviour of the panels is one of the list of invitations.
LEMMA InvitationsRun == AllSpec => Invitations!Spec
<1>1. AllInit => Invitations!Init
  BY DEF AllInit
<1>2. [AllNext]_allVars => [Invitations!Next]_Invitations!vars
  BY DEF AllNext, SignupStep, AccountStep, InvitationStep, InvitationsStep, LoginStep, allVars,
    invitationsVars, Invitations!vars, Invitations!list, Invitations!busy, Invitations!detail
<1> QED BY <1>1, <1>2, PTL DEF AllSpec, Invitations!Spec

Abouts == Keys \cup {Null, "list", "invite", "import"}

\* The handler h becomes t and the others stay.
ListTask(h, t) == listTask' = [listTask EXCEPT ![h] = t]

\* A handler of the list that has nothing to do has the type of a handler.
LEMMA ListIdle == Invitations!Idle \in Invitations!Task
  BY ConstantsOK, PanelBoundsOK DEF Invitations!Idle, Invitations!Task

\* What a handler starts with.
Started(t, step, subject, p) ==
  /\ t \in Invitations!Task
  /\ t.step = step /\ t.about = subject /\ t.page = p /\ t.change = 0

\* A handler that starts has the type of a handler and carries what it was given.
LEMMA ListStarts ==
  ASSUME NEW step \in {"request", "load", "details"}, NEW subject \in Abouts,
         NEW p \in 1..MaxPage
  PROVE  Started([Invitations!Idle EXCEPT !.step = step, !.about = subject, !.page = p],
                 step, subject, p)
  BY ListIdle DEF Started, Invitations!Task, Abouts, Invitations!Idle

\* What a handler of the list carries.
LEMMA ListFields ==
  ASSUME Invitations!TypeOK, NEW h \in Handlers
  PROVE  /\ listTask[h] \in Invitations!Task
         /\ listTask[h].about \in Abouts /\ listTask[h].page \in 1..MaxPage
         /\ listTask[h].change \in 0..MaxChanges
         /\ listTask[h].got \in Invitations!Rows \cup {Null}
  BY DEF Invitations!TypeOK, Invitations!Task, Abouts

\* Strengthens RowsOfThePage and ShowsSuccess: a list that was served has the page that
\* was asked for and every change that was made when it was asked for.
ServedOK(h) ==
  /\ listTask[h].change <= version
  /\ Invitations!At(h, "loaded") =>
       /\ listTask[h].got \in Invitations!Rows
       /\ listTask[h].got.page = listTask[h].page
       /\ listTask[h].got.version >= listTask[h].change

\* Strengthens ActionsAlone: actionInvitationId names the invitation that is acted upon.
ActingOK(h) ==
  IF Invitations!At(h, "details") THEN listTask[h].about \in Keys
  ELSE listTask[h].about \in Keys => acting = listTask[h].about

ListInv ==
  /\ Invitations!TypeOK
  /\ Invitations!RowsOfThePage /\ Invitations!ActionsAlone
  /\ \A h \in Handlers : ServedOK(h) /\ ActingOK(h)

\* What the user asks for.
LEMMA ListAsks ==
  ASSUME ListInv, NEW h \in Handlers, Invitations!Ask(h)
  PROVE  ListInv'
<1> USE DEF Invitations!list, Invitations!busy, Invitations!detail
<1>0. Invitations!TypeOK /\ 1 \in 1..MaxPage /\ page \in 1..MaxPage
  BY PanelBoundsOK DEF ListInv, Invitations!TypeOK
<1>1. ASSUME NEW step \in {"request", "load", "details"}, NEW subject \in Abouts,
             NEW p \in 1..MaxPage,
             Invitations!Start(h, step, subject, p),
             subject \in Keys => \/ step = "details" /\ acting' = acting
                                 \/ acting = Null /\ acting' = subject,
             subject \notin Keys => step # "details" /\ acting' = acting,
             Invitations!TypeOK', UNCHANGED <<rows, page, version>>
      PROVE  ListInv'
  <2>1. PICK t : /\ Started(t, step, subject, p) /\ ListTask(h, t)
                 /\ listTask[h].step = "idle"
    BY <1>1, ListStarts DEF Invitations!Start, Invitations!At, ListTask
  <2>2. /\ listTask'[h] = t
        /\ \A g \in Handlers : g # h => listTask'[g] = listTask[g]
    BY <2>1, <1>0 DEF ListTask, Invitations!TypeOK
  <2> USE DEF Started
  <2>3. version \in Nat
    BY <1>0, ConstantsOK DEF Invitations!TypeOK
  <2>4. \A g \in Handlers : ServedOK(g)'
    BY <2>1, <2>2, <2>3, <1>1 DEF ListInv, ServedOK, Invitations!At
  <2>5. (\A g \in Handlers : ActingOK(g)') /\ Invitations!ActionsAlone'
    BY <2>1, <2>2, <1>1, ConstantsOK DEF ListInv, ActingOK, Invitations!At,
      Invitations!ActionsAlone
  <2>6. Invitations!RowsOfThePage'
    BY <1>1 DEF ListInv, Invitations!RowsOfThePage
  <2> QED BY <2>4, <2>5, <2>6, <1>1 DEF ListInv
<1>2. ASSUME NEW step \in {"request", "load", "details"}, NEW subject \in Abouts,
             NEW p \in 1..MaxPage,
             Invitations!Start(h, step, subject, p)
      PROVE  listTask' \in [Handlers -> Invitations!Task]
  BY <1>0, <1>2, ListStarts DEF Started, Invitations!Start, Invitations!TypeOK
<1>3. ASSUME NEW p \in 1..MaxPage, Invitations!Load(h, p) PROVE ListInv'
  <2>1. "list" \in Abouts /\ "list" \notin Keys
    BY PanelBoundsOK DEF Abouts
  <2>2. Invitations!TypeOK'
    BY <1>0, <1>2, <1>3, <2>1 DEF Invitations!Load, Invitations!TypeOK
  <2> QED BY <1>1, <1>3, <2>1, <2>2 DEF Invitations!Load
<1>4. CASE Invitations!SubmitInvite(h) \/ Invitations!SendImport(h)
  <2>1. {"invite", "import"} \subseteq Abouts /\ {"invite", "import"} \cap Keys = {}
    BY PanelBoundsOK DEF Abouts
  <2>2. Invitations!TypeOK'
    BY <1>0, <1>2, <1>4, <2>1 DEF Invitations!SubmitInvite, Invitations!SendImport,
      Invitations!TypeOK
  <2> QED BY <1>0, <1>1, <1>4, <2>1, <2>2 DEF Invitations!SubmitInvite, Invitations!SendImport
<1>5. ASSUME NEW k \in Keys, Invitations!PerformAction(h, k) \/ Invitations!ShowDetails(h, k)
      PROVE  ListInv'
  <2>1. k \in Abouts
    BY DEF Abouts
  <2>2. Invitations!TypeOK'
    BY <1>0, <1>2, <1>5, <2>1 DEF Invitations!PerformAction, Invitations!ShowDetails,
      Invitations!TypeOK
  <2> QED BY <1>0, <1>1, <1>5, <2>1, <2>2 DEF Invitations!PerformAction, Invitations!ShowDetails
<1> QED
  BY <1>0, <1>3, <1>4, <1>5 DEF Invitations!Ask, Invitations!Search, Invitations!TurnPage

\* An answer to a handler of the list keeps the invariant.
LEMMA ListAnswers ==
  ASSUME ListInv, NEW h \in Handlers, Invitations!Answer(h)
  PROVE  ListInv'
<1> USE DEF Invitations!list, Invitations!busy, Invitations!detail, Invitations!At
<1>0. /\ Invitations!TypeOK /\ version \in 0..MaxChanges /\ MaxChanges \in Nat
      /\ acting \in Keys \cup {Null}
  BY ConstantsOK DEF ListInv, Invitations!TypeOK
<1>1. CASE Invitations!Granted(h)
  <2> DEFINE t == [listTask[h] EXCEPT !.step = "load", !.change = version + 1]
  <2>1. t \in Invitations!Task /\ version' \in 0..MaxChanges /\ version' = version + 1
    <3>1. version + 1 \in 0..MaxChanges
      BY <1>0, <1>1 DEF Invitations!Granted
    <3>2. t \in Invitations!Task
      BY <1>0, <3>1, ListFields DEF Invitations!Task
    <3> QED BY <1>1, <3>1, <3>2 DEF Invitations!Granted
  <2>2. listTask' = [listTask EXCEPT ![h] = t] /\ listTask[h].step = "request"
    BY <1>1 DEF Invitations!Granted
  <2>3. /\ t.step = "load" /\ t.about = listTask[h].about /\ t.change = version'
    BY <2>1, <1>0, ListFields DEF Invitations!Task
  <2> HIDE DEF t
  <2>4. listTask'[h] = t /\ \A g \in Handlers : g # h => listTask'[g] = listTask[g]
    BY <2>2, <1>0 DEF Invitations!TypeOK
  <2>5. Invitations!TypeOK'
    BY <1>0, <1>1, <2>1, <2>2 DEF Invitations!Granted, Invitations!TypeOK
  <2>6. \A g \in Handlers : ServedOK(g)'
    BY <1>0, <2>1, <2>3, <2>4, ListFields DEF ListInv, ServedOK
  <2>7. (\A g \in Handlers : ActingOK(g)') /\ Invitations!ActionsAlone'
    <3>1. /\ acting' = acting
          /\ \A g \in Handlers :
               /\ listTask'[g].about = listTask[g].about
               /\ listTask'[g].step = "details" <=> listTask[g].step = "details"
      BY <1>1, <2>2, <2>3, <2>4 DEF Invitations!Granted
    <3> QED BY <3>1 DEF ListInv, ActingOK, Invitations!ActionsAlone
  <2>8. Invitations!RowsOfThePage'
    BY <1>1 DEF Invitations!Granted, ListInv, Invitations!RowsOfThePage
  <2> QED BY <2>5, <2>6, <2>7, <2>8 DEF ListInv
<1>2. CASE Invitations!LoadServed(h)
  <2> DEFINE t == [listTask[h] EXCEPT !.step = "loaded",
                     !.got = [page |-> listTask[h].page, version |-> version]]
  <2>1. t \in Invitations!Task
    BY <1>0, ListFields DEF Invitations!Task, Invitations!Rows
  <2>2. listTask' = [listTask EXCEPT ![h] = t] /\ listTask[h].step = "load"
    BY <1>2 DEF Invitations!LoadServed
  <2>3. /\ t.step = "loaded" /\ t.about = listTask[h].about /\ t.change = listTask[h].change
        /\ t.page = listTask[h].page /\ t.got \in Invitations!Rows
        /\ t.got.page = listTask[h].page /\ t.got.version = version
    BY <1>0, ListFields DEF Invitations!Task, Invitations!Rows
  <2> HIDE DEF t
  <2>4. listTask'[h] = t /\ \A g \in Handlers : g # h => listTask'[g] = listTask[g]
    BY <2>2, <1>0 DEF Invitations!TypeOK
  <2>5. Invitations!TypeOK'
    BY <1>0, <1>2, <2>1, <2>2 DEF Invitations!LoadServed, Invitations!TypeOK
  <2>6. \A g \in Handlers : ServedOK(g)'
    BY <1>0, <1>2, <2>3, <2>4, ListFields DEF ListInv, ServedOK, Invitations!LoadServed
  <2>7. (\A g \in Handlers : ActingOK(g)') /\ Invitations!ActionsAlone'
    <3>1. /\ acting' = acting
          /\ \A g \in Handlers :
               /\ listTask'[g].about = listTask[g].about
               /\ listTask'[g].step = "details" <=> listTask[g].step = "details"
      BY <1>2, <2>2, <2>3, <2>4 DEF Invitations!LoadServed
    <3> QED BY <3>1 DEF ListInv, ActingOK, Invitations!ActionsAlone
  <2>8. Invitations!RowsOfThePage'
    BY <1>2 DEF Invitations!LoadServed, ListInv, Invitations!RowsOfThePage
  <2> QED BY <2>5, <2>6, <2>7, <2>8 DEF ListInv
<1>3. CASE \/ Invitations!Refused(h) \/ Invitations!Loaded(h) \/ Invitations!LoadFailed(h)
           \/ Invitations!DetailsAnswered(h)
  <2>1. /\ listTask'[h] = Invitations!Idle
        /\ \A g \in Handlers : g # h => listTask'[g] = listTask[g]
        /\ listTask' \in [Handlers -> Invitations!Task]
    BY <1>0, <1>3, ListIdle DEF Invitations!Refused, Invitations!Loaded, Invitations!LoadFailed,
      Invitations!DetailsAnswered, Invitations!Finally, Invitations!TypeOK
  <2>2. version' \in 0..MaxChanges /\ version' >= version
    BY <1>0, <1>3 DEF Invitations!Refused, Invitations!Loaded, Invitations!LoadFailed,
      Invitations!DetailsAnswered
  <2>3. Invitations!Loaded(h) => listTask[h].got \in Invitations!Rows
                                 /\ listTask[h].got.page = listTask[h].page
    BY DEF ListInv, ServedOK, Invitations!Loaded
  <2>4. /\ rows' \in Invitations!Rows \cup {Null} /\ page' \in 1..MaxPage
        /\ rows' # Null => rows'.page = page'
    BY <1>0, <1>3, <2>3, ListFields DEF Invitations!Refused, Invitations!Loaded,
      Invitations!LoadFailed, Invitations!DetailsAnswered, ListInv, Invitations!TypeOK,
      Invitations!RowsOfThePage
  <2>5. Invitations!TypeOK'
    <3>1. /\ mode' = mode /\ expanded' = expanded
          /\ listLoading' \in {listLoading, FALSE}
          /\ acting' \in {acting, Null} /\ importing' \in {importing, FALSE}
          /\ info' \in {info, listTask[h].about} /\ (info' # info => listTask[h].step = "details")
      BY <1>0, <1>3 DEF Invitations!Refused, Invitations!Loaded, Invitations!LoadFailed,
        Invitations!DetailsAnswered, Invitations!Finally, Invitations!TypeOK
    <3> QED BY <1>0, <2>1, <2>2, <2>4, <3>1 DEF Invitations!TypeOK, ListInv, ActingOK
  <2>6. \A g \in Handlers : ServedOK(g)'
    BY <1>0, <2>1, <2>2, ListFields DEF ListInv, ServedOK, Invitations!Idle
  <2>7. (\A g \in Handlers : ActingOK(g)') /\ Invitations!ActionsAlone'
    <3>1. acting' = acting \/ (listTask[h].about \in Keys /\ listTask[h].step # "details")
      BY <1>3 DEF Invitations!Refused, Invitations!Loaded, Invitations!LoadFailed,
        Invitations!DetailsAnswered, Invitations!Finally
    <3> QED
      BY <2>1, <3>1, ConstantsOK DEF ListInv, ActingOK, Invitations!ActionsAlone, Invitations!Idle
  <2> QED BY <2>4, <2>5, <2>6, <2>7 DEF ListInv, Invitations!RowsOfThePage
<1> QED BY <1>1, <1>2, <1>3 DEF Invitations!Answer

\* So does every step of the list.
LEMMA ListStep == ListInv /\ [Invitations!Next]_Invitations!vars => ListInv'
<1> SUFFICES ASSUME ListInv, [Invitations!Next]_Invitations!vars PROVE ListInv'
  OBVIOUS
<1> USE DEF Invitations!list, Invitations!busy, Invitations!detail
<1>1. CASE \/ \E m \in {"list", "invite", "import"} : Invitations!Turn(m)
           \/ Invitations!HideDetails
           \/ UNCHANGED Invitations!vars
  <2>1. /\ UNCHANGED <<page, rows, listLoading, acting, importing, listTask, version>>
        /\ mode' \in {"list", "invite", "import", mode}
        /\ expanded' \in {expanded, Null} /\ info' \in {info, Null}
    BY <1>1 DEF Invitations!Turn, Invitations!HideDetails, Invitations!vars
  <2>2. Invitations!TypeOK'
    BY <2>1 DEF ListInv, Invitations!TypeOK
  <2> QED BY <2>1, <2>2 DEF ListInv, Invitations!RowsOfThePage, Invitations!ActionsAlone,
        ServedOK, ActingOK, Invitations!At
<1> QED BY <1>1, ListAsks, ListAnswers DEF Invitations!Next

\* So the invariant holds of every behaviour of the list.
LEMMA ListInvariant == Invitations!Spec => []ListInv
<1>1. Invitations!Init => ListInv
  <2> SUFFICES ASSUME Invitations!Init PROVE ListInv
    OBVIOUS
  <2> DEFINE first0 == [Invitations!Idle EXCEPT !.step = "load", !.about = "list"]
  <2>1. /\ first0 \in Invitations!Task
        /\ first0.step = "load" /\ first0.about = "list" /\ first0.change = 0
    BY ListIdle DEF Invitations!Task, Invitations!Idle
  <2> HIDE DEF first0
  <2>3. /\ listTask \in [Handlers -> Invitations!Task]
        /\ \A h \in Handlers : listTask[h] \in {first0, Invitations!Idle}
    BY <2>1, ListIdle DEF Invitations!Init, first0
  <2>4. Invitations!TypeOK
    <3>1. 1 \in 1..MaxPage /\ 0 \in 0..MaxChanges
      BY PanelBoundsOK, ConstantsOK
    <3> QED BY <2>3, <3>1 DEF Invitations!Init, Invitations!TypeOK
  <2>5. \A h \in Handlers :
          /\ listTask[h].about \notin Keys /\ listTask[h].change = 0
          /\ listTask[h].step \in {"idle", "load"}
    BY <2>1, <2>3, PanelBoundsOK, ConstantsOK DEF Invitations!Idle
  <2> QED BY <2>4, <2>5 DEF Invitations!Init, ListInv, Invitations!RowsOfThePage,
        Invitations!ActionsAlone, ServedOK, ActingOK, Invitations!At
<1> QED BY <1>1, ListStep, PTL DEF Invitations!Spec

\* Only Loaded takes a handler from the list it was served to its end.
LEMMA ListSuccess == ListInv /\ [Invitations!Next]_Invitations!vars => Invitations!ShowsSuccess
<1> SUFFICES ASSUME ListInv, [Invitations!Next]_Invitations!vars, NEW h \in Handlers,
                    Invitations!At(h, "loaded"), listTask'[h].step = "idle"
             PROVE  rows'.version >= listTask[h].change
  BY DEF Invitations!ShowsSuccess
<1> USE DEF Invitations!At
<1>0. listTask \in [Handlers -> Invitations!Task]
  BY DEF ListInv, Invitations!TypeOK
<1>1. Invitations!Loaded(h)
  <2>1. ~UNCHANGED listTask
    OBVIOUS
  <2>2. PICK g \in Handlers : Invitations!Ask(g) \/ Invitations!Answer(g)
    BY <2>1 DEF Invitations!Next, Invitations!Turn, Invitations!HideDetails, Invitations!vars
  <2>3. CASE Invitations!Ask(g)
    BY <2>3, <1>0 DEF Invitations!Ask, Invitations!Search, Invitations!TurnPage, Invitations!Load,
      Invitations!SubmitInvite, Invitations!SendImport, Invitations!PerformAction,
      Invitations!ShowDetails, Invitations!Start
  <2>4. CASE Invitations!Answer(g)
    BY <2>4, <1>0 DEF Invitations!Answer, Invitations!Granted, Invitations!Refused,
      Invitations!LoadServed, Invitations!Loaded, Invitations!LoadFailed,
      Invitations!DetailsAnswered, Invitations!Finally
  <2> QED BY <2>2, <2>3, <2>4
<1> QED BY <1>1 DEF Invitations!Loaded, ListInv, ServedOK

-----------------------------------------------------------------------------
(* The login methods of an account *)

\* A behaviour of the panels is one of the account's login methods.
LEMMA AccountsRun == AllSpec => Accounts!Spec
<1>1. AllInit => Accounts!Init
  BY DEF AllInit
<1>2. [AllNext]_allVars => [Accounts!Next]_Accounts!vars
  BY DEF AllNext, SignupStep, AccountStep, InvitationStep, InvitationsStep, LoginStep, allVars,
    accountVars, Accounts!vars, Accounts!manager, Accounts!busy, Accounts!form, Accounts!field,
    Accounts!host
<1> QED BY <1>1, <1>2, PTL DEF AllSpec, Accounts!Spec

\* A request carries what its action needs.
ArgOK(h) ==
  /\ accountTask[h].action \in {"email", "verify-code", "complete-password-setup"}
       => accountTask[h].arg \in AccountEmails
  /\ accountTask[h].action \in {"link", "unlink"} => accountTask[h].arg \in Linkable

\* Strengthens ShowsSuccess: an account that was served has every change that was made
\* when it was asked for.
AccountServedOK(h) ==
  /\ accountTask[h].change <= account.version
  /\ Accounts!At(h, "loaded") =>
       /\ accountTask[h].got \in Accounts!Account
       /\ accountTask[h].got.version >= accountTask[h].change

AccountInv ==
  /\ Accounts!TypeOK
  /\ \A h \in Handlers : ArgOK(h) /\ AccountServedOK(h)

\* A handler of the account that has nothing to do has the type of a handler.
LEMMA AccountIdle == Accounts!Idle \in Accounts!Task
  BY ConstantsOK DEF Accounts!Idle, Accounts!Task, Accounts!Actions

\* What a handler of the account carries.
LEMMA AccountFields ==
  ASSUME Accounts!TypeOK, NEW h \in Handlers
  PROVE  /\ accountTask[h] \in Accounts!Task
         /\ accountTask[h].action \in Accounts!Actions
         /\ accountTask[h].arg \in AccountEmails \cup Linkable \cup {Null}
         /\ accountTask[h].change \in 0..MaxChanges
         /\ accountTask[h].got \in Accounts!Account \cup {Null}
  BY DEF Accounts!TypeOK, Accounts!Task

\* What the host's account consists of.
LEMMA AccountTypes ==
  ASSUME Accounts!TypeOK
  PROVE  /\ account.password \in BOOLEAN /\ account.linked \subseteq Linkable
         /\ account.email \in AccountEmails \cup {Null} /\ account.verified \in BOOLEAN
         /\ account.version \in 0..MaxChanges /\ account.version \in Nat
  BY ConstantsOK DEF Accounts!TypeOK, Accounts!Account

\* What the host makes of an account.
LEMMA HostServes ==
  ASSUME AccountInv, NEW h \in Handlers, Accounts!Serves(h)
  PROVE  /\ account' \in Accounts!Account /\ account'.version >= account.version
         /\ accountProved' \subseteq AccountEmails
<1> DEFINE action == accountTask[h].action
           arg == accountTask[h].arg
<1>0. Accounts!TypeOK
  BY DEF AccountInv
<1>a. account \in Accounts!Account /\ accountProved \subseteq AccountEmails
  BY <1>0 DEF Accounts!TypeOK
<1>1. account.version + 1 \in 0..MaxChanges /\ account.version + 1 >= account.version
  <2>1. account.version < MaxChanges
    BY DEF Accounts!Serves
  <2> QED BY <2>1, <1>0, AccountTypes, ConstantsOK
<1>2. ASSUME NEW a \in Accounts!Account, Accounts!Changed(a)
      PROVE  account' \in Accounts!Account /\ account'.version >= account.version
  BY <1>1, <1>2, <1>0, AccountTypes DEF Accounts!Changed, Accounts!Account
<1>3. CASE /\ action = "verify-code"
           /\ accountProved' = accountProved \cup {arg}
           /\ \/ Accounts!Changed([account EXCEPT !.email = arg, !.verified = TRUE])
              \/ UNCHANGED account
  <2>1. arg \in AccountEmails
    BY <1>3 DEF AccountInv, ArgOK
  <2>2. [account EXCEPT !.email = arg, !.verified = TRUE] \in Accounts!Account
    BY <2>1, <1>a DEF Accounts!Account
  <2>3. accountProved' \subseteq AccountEmails
    BY <1>3, <2>1, <1>a
  <2>4. CASE UNCHANGED account
    BY <2>4, <2>3, <1>a, <1>0, AccountTypes
  <2> QED BY <1>3, <2>2, <2>3, <2>4, <1>2
<1>4. CASE /\ action = "remove-password" /\ account.linked # {}
           /\ Accounts!Changed([account EXCEPT !.password = FALSE])
           /\ UNCHANGED accountProved
  <2>1. [account EXCEPT !.password = FALSE] \in Accounts!Account
    BY <1>a DEF Accounts!Account
  <2> QED BY <1>4, <2>1, <1>a, <1>2
<1>5. CASE /\ action = "complete-password-setup"
           /\ Accounts!Changed([account EXCEPT !.password = TRUE, !.email = arg,
                                               !.verified = arg \in accountProved])
           /\ UNCHANGED accountProved
  <2>1. arg \in AccountEmails
    BY <1>5 DEF AccountInv, ArgOK
  <2>2. ASSUME NEW v \in BOOLEAN
        PROVE  [account EXCEPT !.password = TRUE, !.email = arg, !.verified = v]
                 \in Accounts!Account
    BY <2>1, <1>a DEF Accounts!Account
  <2>3. (arg \in accountProved) \in BOOLEAN
    OBVIOUS
  <2>4. [account EXCEPT !.password = TRUE, !.email = arg, !.verified = arg \in accountProved]
          \in Accounts!Account
    BY <2>2, <2>3
  <2> QED BY <1>5, <2>4, <1>a, <1>2
<1>6. CASE /\ action = "link"
           /\ \E e \in IF account.email = Null THEN AccountEmails \cup {Null}
                       ELSE {account.email} :
                Accounts!Changed([account EXCEPT !.linked = @ \cup {arg}, !.email = e])
           /\ UNCHANGED accountProved
  <2>1. arg \in Linkable
    BY <1>6 DEF AccountInv, ArgOK
  <2>2. PICK e \in IF account.email = Null THEN AccountEmails \cup {Null} ELSE {account.email} :
           Accounts!Changed([account EXCEPT !.linked = @ \cup {arg}, !.email = e])
    BY <1>6
  <2>3. e \in AccountEmails \cup {Null}
    BY <1>0, AccountTypes
  <2>4. [account EXCEPT !.linked = @ \cup {arg}, !.email = e] \in Accounts!Account
    BY <2>1, <2>3, <1>a DEF Accounts!Account
  <2> QED BY <1>6, <2>2, <2>4, <1>a, <1>2
<1>7. CASE /\ action = "unlink" /\ Accounts!Methods([account EXCEPT !.linked = @ \ {arg}]) > 0
           /\ Accounts!Changed([account EXCEPT !.linked = @ \ {arg}])
           /\ UNCHANGED accountProved
  <2>1. [account EXCEPT !.linked = @ \ {arg}] \in Accounts!Account
    BY <1>a DEF Accounts!Account
  <2> QED BY <1>7, <2>1, <1>a, <1>2
<1> QED BY <1>3, <1>4, <1>5, <1>6, <1>7 DEF Accounts!Serves

\* A handler that becomes t, of the types and the age AccountInv asks for.
AccountTask(h, t) ==
  /\ accountTask' = [accountTask EXCEPT ![h] = t]
  /\ t \in Accounts!Task
  /\ t.action \in {"email", "verify-code", "complete-password-setup"} => t.arg \in AccountEmails
  /\ t.action \in {"link", "unlink"} => t.arg \in Linkable

\* The rest of AccountInv follows of the types and of what became of the handler.
LEMMA AccountMoves ==
  ASSUME AccountInv, NEW h \in Handlers, NEW t, AccountTask(h, t), Accounts!TypeOK',
         account'.version >= account.version,
         t.change <= account'.version,
         t.step = "loaded" => t.got \in Accounts!Account /\ t.got.version >= t.change
  PROVE  AccountInv'
<1>1. accountTask'[h] = t /\ \A g \in Handlers : g # h => accountTask'[g] = accountTask[g]
  BY DEF AccountTask, AccountInv, Accounts!TypeOK
<1>2. \A g \in Handlers : ArgOK(g)'
  BY <1>1 DEF AccountInv, ArgOK, AccountTask
<1>3. \A g \in Handlers : accountTask[g].change \in Nat /\ account.version \in Nat
        /\ account'.version \in Nat
  BY AccountFields, AccountTypes, ConstantsOK DEF AccountInv, Accounts!TypeOK, Accounts!Account
<1>4. \A g \in Handlers : AccountServedOK(g)'
  BY <1>1, <1>3 DEF AccountInv, AccountServedOK, Accounts!At
<1> QED BY <1>2, <1>4 DEF AccountInv

AccountRequest(step, action, arg) ==
  [Accounts!Idle EXCEPT !.step = step, !.action = action, !.arg = arg]

\* A handler that starts has the type of a handler and carries what it was given.
LEMMA AccountStarts ==
  ASSUME NEW step \in {"request", "load"}, NEW action \in Accounts!Actions,
         NEW arg \in AccountEmails \cup Linkable \cup {Null}
  PROVE  /\ AccountRequest(step, action, arg) \in Accounts!Task
         /\ AccountRequest(step, action, arg).step = step
         /\ AccountRequest(step, action, arg).action = action
         /\ AccountRequest(step, action, arg).arg = arg
         /\ AccountRequest(step, action, arg).change = 0
  BY AccountIdle DEF AccountRequest, Accounts!Task, Accounts!Idle

\* A handler that starts, and the form and the flags it leaves.
LEMMA AccountAsks ==
  ASSUME AccountInv, NEW h \in Handlers, Accounts!Ask(h)
  PROVE  AccountInv'
<1> USE DEF Accounts!manager, Accounts!busy, Accounts!form, Accounts!field, Accounts!host
<1>0. Accounts!TypeOK /\ account.version \in Nat
  BY AccountTypes DEF AccountInv
<1>1. ASSUME NEW step \in {"request", "load"}, NEW action \in Accounts!Actions,
             NEW arg \in AccountEmails \cup Linkable \cup {Null},
             Accounts!Start(h, step, action, arg),
             action \in {"email", "verify-code", "complete-password-setup"}
               => arg \in AccountEmails,
             action \in {"link", "unlink"} => arg \in Linkable,
             UNCHANGED <<details, accountChallenge, setup, accountEmail, editing, account,
                         accountProved>>,
             accountBusyAction' \in {accountBusyAction, action},
             accountBusyProvider' \in Linkable \cup {accountBusyProvider},
             accountVerifying' \in BOOLEAN, accountOwn' \subseteq Handlers
      PROVE  AccountInv'
  <2> DEFINE t == AccountRequest(step, action, arg)
  <2>1. /\ t \in Accounts!Task /\ t.step = step /\ t.action = action /\ t.arg = arg
        /\ t.change = 0
    BY AccountStarts
  <2>2. accountTask' = [accountTask EXCEPT ![h] = t]
    BY <1>1 DEF Accounts!Start, AccountRequest
  <2> HIDE DEF t
  <2>3. accountTask' \in [Handlers -> Accounts!Task]
    BY <1>0, <2>1, <2>2 DEF Accounts!TypeOK
  <2>4. Accounts!TypeOK'
    BY <1>0, <1>1, <2>3 DEF Accounts!TypeOK
  <2>5. AccountTask(h, t)
    BY <1>1, <2>1, <2>2 DEF AccountTask
  <2> QED BY <1>0, <1>1, <2>1, <2>4, <2>5, AccountMoves
<1>2. CASE Accounts!Open(h) \/ Accounts!ManageContact(h)
  BY <1>0, <1>1, <1>2 DEF Accounts!Open, Accounts!ManageContact, Accounts!Actions, Accounts!TypeOK
<1>3. ASSUME NEW action \in Accounts!Actions \ {"link", "unlink"},
             NEW arg \in AccountEmails \cup {Null}, Accounts!Act(h, action, arg),
             action \in {"email", "verify-code", "complete-password-setup"} => arg # Null,
             accountVerifying' \in BOOLEAN, accountOwn' \subseteq Handlers
      PROVE  AccountInv'
  BY <1>1, <1>3 DEF Accounts!Act
<1>4. CASE \/ Accounts!SendCode(h) \/ Accounts!ResendCode(h) \/ Accounts!VerifyCode(h)
           \/ Accounts!CompleteSetup(h)
  <2>1. /\ {"email", "verify-code", "complete-password-setup"}
             \subseteq Accounts!Actions \ {"link", "unlink"}
        /\ {accountEmail, accountChallenge} \subseteq AccountEmails \cup {Null}
        /\ accountVerifying \in BOOLEAN /\ accountOwn \subseteq Handlers
    BY <1>0 DEF Accounts!Actions, Accounts!Changing, Accounts!TypeOK
  <2> QED BY <1>3, <1>4, <2>1 DEF Accounts!SendCode, Accounts!ResendCode, Accounts!VerifyCode,
        Accounts!CompleteSetup, Accounts!AsksForCode
<1>5. CASE \/ \E a \in Accounts!ContactCodes : Accounts!VerifyContact(h, a)
           \/ Accounts!ChangePassword(h) \/ Accounts!RemovePassword(h)
  <2>1. /\ Accounts!ContactCodes \cup {"change-password", "remove-password"}
             \subseteq Accounts!Actions \ {"link", "unlink"}
        /\ Accounts!ContactCodes
             \cap {"email", "verify-code", "complete-password-setup"} = {}
        /\ accountVerifying \in BOOLEAN /\ accountOwn \subseteq Handlers
    BY <1>0 DEF Accounts!Actions, Accounts!Changing, Accounts!ContactCodes, Accounts!TypeOK
  <2> QED BY <1>3, <1>5, <2>1 DEF Accounts!VerifyContact, Accounts!ChangePassword,
        Accounts!RemovePassword
<1>6. ASSUME NEW p \in Linkable, Accounts!LinkProvider(h, p) \/ Accounts!UnlinkProvider(h, p)
      PROVE  AccountInv'
  <2>1. PICK action \in {"link", "unlink"} : Accounts!Provide(h, action, p)
    BY <1>6 DEF Accounts!LinkProvider, Accounts!UnlinkProvider
  <2>2. action \in Accounts!Actions
    BY DEF Accounts!Actions, Accounts!Changing
  <2>3. accountVerifying \in BOOLEAN /\ accountOwn \subseteq Handlers
    BY <1>0 DEF Accounts!TypeOK
  <2> QED BY <1>1, <2>1, <2>2, <2>3 DEF Accounts!Provide
<1> QED BY <1>2, <1>4, <1>5, <1>6 DEF Accounts!Ask

\* What an operation sets before it loads the account, and what its end does.
LEMMA AccountFlags ==
  ASSUME AccountInv, NEW h \in Handlers
  PROVE  /\ Accounts!Applied(h) =>
              /\ accountChallenge' \in AccountEmails \cup {Null} /\ setup' \in BOOLEAN
         /\ Accounts!Finally(h) =>
              /\ accountBusyAction' \in Accounts!Actions \cup {"none"}
              /\ accountBusyProvider' \in Linkable \cup {Null}
              /\ accountTask' = [accountTask EXCEPT ![h] = Accounts!Idle]
         /\ Accounts!FieldReturns(h) =>
              /\ accountVerifying' \in BOOLEAN /\ accountOwn' \subseteq Handlers
<1>0. Accounts!TypeOK
  BY DEF AccountInv
<1>1. ASSUME Accounts!Applied(h)
      PROVE  accountChallenge' \in AccountEmails \cup {Null} /\ setup' \in BOOLEAN
  <2>1. CASE accountTask[h].action = "email"
    BY <1>1, <2>1 DEF Accounts!Applied, AccountInv, ArgOK
  <2>2. CASE accountTask[h].action # "email"
    BY <1>0, <1>1, <2>2 DEF Accounts!Applied, Accounts!ClearVerification, Accounts!TypeOK
  <2> QED BY <2>1, <2>2
<1>2. ASSUME Accounts!Finally(h)
      PROVE  /\ accountBusyAction' \in Accounts!Actions \cup {"none"}
             /\ accountBusyProvider' \in Linkable \cup {Null}
             /\ accountTask' = [accountTask EXCEPT ![h] = Accounts!Idle]
  BY <1>0, <1>2 DEF Accounts!Finally, Accounts!End, Accounts!busy, Accounts!TypeOK
<1>3. ASSUME Accounts!FieldReturns(h)
      PROVE  accountVerifying' \in BOOLEAN /\ accountOwn' \subseteq Handlers
  BY <1>0, <1>3 DEF Accounts!FieldReturns, Accounts!TypeOK
<1> QED BY <1>1, <1>2, <1>3

\* An answer to a handler of the account keeps the invariant.
LEMMA AccountAnswers ==
  ASSUME AccountInv, NEW h \in Handlers, Accounts!Answer(h)
  PROVE  AccountInv'
<1> USE DEF Accounts!manager, Accounts!busy, Accounts!form, Accounts!field, Accounts!host
<1>0. /\ Accounts!TypeOK /\ account.version \in Nat /\ account \in Accounts!Account
      /\ accountTask[h] \in Accounts!Task
  BY AccountTypes, AccountFields DEF AccountInv, Accounts!TypeOK
<1>1. /\ account' = account => account'.version >= account.version
      /\ accountTask[h].change <= account.version
  BY <1>0 DEF AccountInv, AccountServedOK
<1>2. CASE Accounts!Granted(h)
  <2> DEFINE change == IF account' # account THEN account'.version ELSE 0
             t == [accountTask[h] EXCEPT !.step = "load", !.change = change]
  <2>1. /\ account' \in Accounts!Account /\ account'.version >= account.version
        /\ accountProved' \subseteq AccountEmails
    BY <1>0, <1>1, <1>2, HostServes DEF Accounts!Granted, Accounts!TypeOK
  <2>2. change \in 0..MaxChanges /\ change <= account'.version
    BY <2>1, ConstantsOK DEF Accounts!Account
  <2>3. accountTask' = [accountTask EXCEPT ![h] = t]
    BY <1>2 DEF Accounts!Granted
  <2> HIDE DEF change
  <2>4. /\ t \in Accounts!Task /\ t.step = "load" /\ t.change = change
        /\ t.action = accountTask[h].action /\ t.arg = accountTask[h].arg
    BY <1>0, <2>2 DEF Accounts!Task
  <2> HIDE DEF t
  <2>5. AccountTask(h, t)
    BY <2>3, <2>4 DEF AccountTask, AccountInv, ArgOK
  <2>6. Accounts!TypeOK'
    <3>1. accountTask' \in [Handlers -> Accounts!Task]
      BY <1>0, <2>3, <2>4 DEF Accounts!TypeOK
    <3>2. accountChallenge' \in AccountEmails \cup {Null} /\ setup' \in BOOLEAN
      BY <1>2, AccountFlags DEF Accounts!Granted
    <3>3. UNCHANGED <<details, accountBusyAction, accountBusyProvider, accountEmail, editing,
                      accountVerifying, accountOwn>>
      BY <1>2 DEF Accounts!Granted
    <3> QED BY <1>0, <2>1, <3>1, <3>2, <3>3 DEF Accounts!TypeOK
  <2> QED BY <2>1, <2>2, <2>4, <2>5, <2>6, AccountMoves
<1>3. CASE Accounts!GrantedWithoutCode(h)
  <2> DEFINE t == [accountTask[h] EXCEPT !.step = "load"]
  <2>1. /\ t \in Accounts!Task /\ t.step = "load" /\ t.change = accountTask[h].change
        /\ t.action = accountTask[h].action /\ t.arg = accountTask[h].arg
    BY <1>0 DEF Accounts!Task
  <2>2. accountTask' = [accountTask EXCEPT ![h] = t]
    BY <1>3 DEF Accounts!GrantedWithoutCode
  <2> HIDE DEF t
  <2>3. AccountTask(h, t)
    BY <2>1, <2>2 DEF AccountTask, AccountInv, ArgOK
  <2>4. accountTask' \in [Handlers -> Accounts!Task]
    BY <1>0, <2>1, <2>2 DEF Accounts!TypeOK
  <2>5. Accounts!TypeOK' /\ account' = account
    BY <1>0, <1>3, <2>4 DEF Accounts!GrantedWithoutCode, Accounts!TypeOK
  <2> QED BY <1>1, <2>1, <2>3, <2>5, AccountMoves
<1>4. CASE Accounts!LoadServed(h)
  <2> DEFINE t == [accountTask[h] EXCEPT !.step = "loaded", !.got = account]
  <2>1. /\ t \in Accounts!Task /\ t.step = "loaded" /\ t.change = accountTask[h].change
        /\ t.action = accountTask[h].action /\ t.arg = accountTask[h].arg /\ t.got = account
    BY <1>0 DEF Accounts!Task
  <2>2. accountTask' = [accountTask EXCEPT ![h] = t]
    BY <1>4 DEF Accounts!LoadServed
  <2> HIDE DEF t
  <2>3. AccountTask(h, t)
    BY <2>1, <2>2 DEF AccountTask, AccountInv, ArgOK
  <2>4. accountTask' \in [Handlers -> Accounts!Task]
    BY <1>0, <2>1, <2>2 DEF Accounts!TypeOK
  <2>5. Accounts!TypeOK' /\ account' = account
    BY <1>0, <1>4, <2>4 DEF Accounts!LoadServed, Accounts!TypeOK
  <2>6. account.version >= t.change
    BY <1>0, <1>1, <2>1, AccountFields, ConstantsOK
  <2> QED BY <1>0, <1>1, <2>1, <2>3, <2>5, <2>6, AccountMoves
<1>5. ASSUME accountTask' = [accountTask EXCEPT ![h] = Accounts!Idle], Accounts!TypeOK',
             account'.version >= account.version
      PROVE  AccountInv'
  <2>1. /\ Accounts!Idle.step = "idle" /\ Accounts!Idle.change = 0
        /\ Accounts!Idle.action = "open"
    BY DEF Accounts!Idle
  <2>2. AccountTask(h, Accounts!Idle)
    BY <1>5, <2>1, AccountIdle DEF AccountTask
  <2>3. account'.version \in Nat
    BY <1>5, ConstantsOK DEF Accounts!TypeOK, Accounts!Account
  <2> QED BY <1>0, <1>5, <2>1, <2>2, <2>3, AccountMoves
<1>6. ASSUME Accounts!Finally(h)
      PROVE  /\ accountBusyAction' \in Accounts!Actions \cup {"none"}
             /\ accountBusyProvider' \in Linkable \cup {Null}
             /\ accountTask' = [accountTask EXCEPT ![h] = Accounts!Idle]
             /\ accountTask' \in [Handlers -> Accounts!Task]
  BY <1>0, <1>6, AccountFlags, AccountIdle DEF Accounts!TypeOK
<1>7. CASE Accounts!PasswordChanged(h)
  <2>1. Accounts!Finally(h)
    BY <1>7 DEF Accounts!PasswordChanged
  <2>2. Accounts!TypeOK' /\ account' = account
    BY <1>0, <1>6, <1>7, <2>1 DEF Accounts!PasswordChanged, Accounts!TypeOK
  <2> QED BY <1>1, <1>5, <1>6, <2>1, <2>2
<1>8. CASE Accounts!Refused(h)
  <2>1. Accounts!Finally(h) /\ Accounts!FieldReturns(h)
    BY <1>8 DEF Accounts!Refused
  <2>2. /\ account' \in Accounts!Account /\ account'.version >= account.version
        /\ accountProved' \subseteq AccountEmails
    BY <1>0, <1>1, <1>8, HostServes DEF Accounts!Refused, Accounts!TypeOK
  <2>3. Accounts!TypeOK'
    BY <1>0, <1>6, <1>8, <2>1, <2>2, AccountFlags DEF Accounts!Refused, Accounts!TypeOK
  <2> QED BY <1>5, <1>6, <2>1, <2>2, <2>3
<1>9. CASE Accounts!LoadFailed(h)
  <2>1. Accounts!Finally(h) /\ Accounts!FieldReturns(h)
    BY <1>9 DEF Accounts!LoadFailed
  <2>2. Accounts!TypeOK' /\ account' = account
    BY <1>0, <1>6, <1>9, <2>1, AccountFlags DEF Accounts!LoadFailed, Accounts!TypeOK
  <2> QED BY <1>1, <1>5, <1>6, <2>1, <2>2
<1>10. CASE Accounts!Loaded(h)
  <2> DEFINE new == accountTask[h].got
  <2>1. new \in Accounts!Account
    BY <1>10 DEF Accounts!Loaded, AccountInv, AccountServedOK
  <2>2. new.email \in AccountEmails \cup {Null} /\ new.password \in BOOLEAN
    BY <2>1 DEF Accounts!Account
  <2>3. /\ Accounts!Finally(h) /\ details' = new
        /\ UNCHANGED <<accountChallenge, account, accountProved>>
    BY <1>10 DEF Accounts!Loaded
  <2>4. setup' \in BOOLEAN
    BY <1>0, <1>10 DEF Accounts!Loaded, Accounts!TypeOK
  <2>5. accountEmail' \in AccountEmails \cup {Null} /\ editing' \in BOOLEAN
    BY <1>0, <1>10, <2>2 DEF Accounts!Loaded, Accounts!Follow, Accounts!TypeOK
  <2>6. accountVerifying' \in BOOLEAN /\ accountOwn' \subseteq Handlers
    BY <1>10, AccountFlags DEF Accounts!Loaded
  <2> HIDE DEF new
  <2>7. Accounts!TypeOK'
    BY <1>0, <1>6, <2>1, <2>3, <2>4, <2>5, <2>6 DEF Accounts!TypeOK
  <2> QED BY <1>1, <1>5, <1>6, <2>3, <2>7
<1> QED BY <1>2, <1>3, <1>4, <1>7, <1>8, <1>9, <1>10 DEF Accounts!Answer

\* So does every step of the account.
LEMMA AccountStepKeeps == AccountInv /\ [Accounts!Next]_Accounts!vars => AccountInv'
<1> SUFFICES ASSUME AccountInv, [Accounts!Next]_Accounts!vars PROVE AccountInv'
  OBVIOUS
<1> USE DEF Accounts!manager, Accounts!busy, Accounts!form, Accounts!field, Accounts!host
<1>0. Accounts!TypeOK
  BY DEF AccountInv
<1>1. ASSUME UNCHANGED <<accountTask, account>>, Accounts!TypeOK' PROVE AccountInv'
  BY <1>1 DEF AccountInv, ArgOK, AccountServedOK, Accounts!At
<1>2. CASE Accounts!Edit
  <2>1. ASSUME NEW e \in AccountEmails, Accounts!TypeEmail(e)
        PROVE  Accounts!TypeOK'
    BY <1>0, <2>1 DEF Accounts!TypeEmail, Accounts!ClearVerification, Accounts!TypeOK
  <2>2. ASSUME Accounts!ChangeEmail PROVE Accounts!TypeOK'
    <3>1. /\ UNCHANGED <<details, accountBusyAction, accountBusyProvider, accountEmail,
                         accountOwn, accountTask, account, accountProved>>
          /\ accountChallenge' = Null /\ setup' \in BOOLEAN /\ editing' \in BOOLEAN
          /\ accountVerifying' \in BOOLEAN
      BY <2>2 DEF Accounts!ChangeEmail, Accounts!ClearVerification
    <3> QED BY <1>0, <3>1 DEF Accounts!TypeOK
  <2>3. ASSUME Accounts!UseVerifiedEmail PROVE Accounts!TypeOK'
    <3>1. details.email \in AccountEmails \cup {Null}
      BY <1>0, <2>3 DEF Accounts!UseVerifiedEmail, Accounts!Shown, Accounts!TypeOK,
        Accounts!Account
    <3>2. /\ UNCHANGED <<details, accountBusyAction, accountBusyProvider, accountVerifying,
                         accountOwn, accountTask, account, accountProved>>
          /\ accountChallenge' = Null /\ setup' \in BOOLEAN /\ editing' \in BOOLEAN
          /\ accountEmail' = details.email
      BY <2>3 DEF Accounts!UseVerifiedEmail, Accounts!ClearVerification
    <3> QED BY <1>0, <3>1, <3>2 DEF Accounts!TypeOK
  <2>4. UNCHANGED <<accountTask, account>>
    BY <1>2 DEF Accounts!Edit, Accounts!TypeEmail, Accounts!ChangeEmail, Accounts!UseVerifiedEmail
  <2> QED BY <1>1, <1>2, <2>1, <2>2, <2>3, <2>4 DEF Accounts!Edit
<1>3. CASE UNCHANGED Accounts!vars
  BY <1>0, <1>1, <1>3 DEF Accounts!vars, Accounts!TypeOK
<1> QED BY <1>2, <1>3, AccountAsks, AccountAnswers DEF Accounts!Next

\* So the invariant holds of every behaviour of the account.
LEMMA AccountInvariant == Accounts!Spec => []AccountInv
<1>1. Accounts!Init => AccountInv
  <2> SUFFICES ASSUME Accounts!Init PROVE AccountInv
    OBVIOUS
  <2>1. account \in Accounts!Account /\ account.version = 0
    BY ConstantsOK DEF Accounts!Init, Accounts!Account
  <2>2. accountProved \subseteq AccountEmails
    BY <2>1 DEF Accounts!Init, Accounts!Account
  <2>3. /\ accountTask \in [Handlers -> Accounts!Task]
        /\ \A h \in Handlers : accountTask[h] = Accounts!Idle
    BY AccountIdle DEF Accounts!Init
  <2>4. Accounts!TypeOK
    BY <2>1, <2>2, <2>3 DEF Accounts!Init, Accounts!TypeOK
  <2> QED BY <2>1, <2>3, <2>4 DEF AccountInv, ArgOK, AccountServedOK, Accounts!At,
        Accounts!Idle
<1> QED BY <1>1, AccountStepKeeps, PTL DEF Accounts!Spec

\* Only Loaded takes a handler from the account it was served to its end.
LEMMA AccountSuccess == AccountInv /\ [Accounts!Next]_Accounts!vars => Accounts!ShowsSuccess
<1> SUFFICES ASSUME AccountInv, [Accounts!Next]_Accounts!vars, NEW h \in Handlers,
                    Accounts!At(h, "loaded"), accountTask'[h].step = "idle"
             PROVE  details'.version >= accountTask[h].change
  BY DEF Accounts!ShowsSuccess
<1> USE DEF Accounts!At
<1>0. accountTask \in [Handlers -> Accounts!Task]
  BY DEF AccountInv, Accounts!TypeOK
<1>1. Accounts!Loaded(h)
  <2>1. ~UNCHANGED accountTask
    OBVIOUS
  <2>2. PICK g \in Handlers : Accounts!Ask(g) \/ Accounts!Answer(g)
    BY <2>1 DEF Accounts!Next, Accounts!Edit, Accounts!TypeEmail, Accounts!ChangeEmail,
      Accounts!UseVerifiedEmail, Accounts!vars
  <2>3. CASE Accounts!Ask(g)
    BY <2>3, <1>0 DEF Accounts!Ask, Accounts!Open, Accounts!SendCode, Accounts!ResendCode,
      Accounts!VerifyCode, Accounts!VerifyContact, Accounts!ManageContact,
      Accounts!ChangePassword, Accounts!RemovePassword, Accounts!CompleteSetup,
      Accounts!LinkProvider, Accounts!UnlinkProvider, Accounts!Act, Accounts!Provide,
      Accounts!Start
  <2>4. CASE Accounts!Answer(g)
    BY <2>4, <1>0 DEF Accounts!Answer, Accounts!Granted, Accounts!GrantedWithoutCode,
      Accounts!PasswordChanged, Accounts!Refused, Accounts!LoadServed, Accounts!Loaded,
      Accounts!LoadFailed, Accounts!Finally, Accounts!End
  <2> QED BY <2>2, <2>3, <2>4
<1> QED BY <1>1 DEF Accounts!Loaded, AccountInv, AccountServedOK

-----------------------------------------------------------------------------
(* The panels together *)

\* Every variable of every panel keeps its type.
THEOREM PanelTypesCorrect == AllSpec => []TypesOK
<1>1. TypeOK /\ AccountInv /\ InvitationInv /\ ListInv /\ LoginInv => TypesOK
  BY DEF TypesOK, AccountInv, InvitationInv, ListInv, LoginInv
<1> QED
  BY <1>1, SignupRuns, TypeCorrect, AccountsRun, AccountInvariant, InvitationRuns,
    InvitationInvariant, InvitationsRun, ListInvariant, LoginRuns, LoginInvariant, PTL

\* isSubmitting, actionInvitationId, passwordlessBusy and busyProvider each let one
\* operation run at a time, across every change of the view, the key, the user, the page
\* and the tab that their buttons do not stop (LoginPanel.tsx:202, 306, 403;
\* InvitationAcceptancePanel.tsx:284-404; InvitationManagementPanel.tsx:637-657).
THEOREM OperationsNeverOverlap == AllSpec => []OneAtATime
<1>1. InvitationInv /\ ListInv /\ LoginInv => OneAtATime
  BY LoginAlone DEF OneAtATime, InvitationInv, ListInv
<1> QED
  BY <1>1, InvitationRuns, InvitationInvariant, InvitationsRun, ListInvariant, LoginRuns,
    LoginInvariant, PTL

\* The cleanup of the effect that loads an invitation is enough for any order of the answers
\* once the effect has run for the key, and so is the page that a load sets with its rows (InvitationAcceptancePanel.tsx:118-167,
\* InvitationManagementPanel.tsx:191-194).
THEOREM PanelsShowWhatWasAsked == AllSpec => []ShownAsAsked
<1>1. InvitationInv /\ ListInv => ShownAsAsked
  BY DEF ShownAsAsked, InvitationInv, ListInv
<1> QED
  BY <1>1, InvitationRuns, InvitationInvariant, InvitationsRun, ListInvariant, PTL

\* Whoever accepts a restricted invitation, or signs in for it by the panel's form, sends the
\* address it is bound to, for any number of invitations whose keys the host changes between,
\* unless the button is hit before the effect of its key
\* (InvitationAcceptancePanel.tsx:117-127, 144-145, 605, 642).
THEOREM RestrictedAddressesAreKept == AllSpec => []RestrictedAddressKept
<1>1. InvitationInv => RestrictedAddressKept
  BY DEF InvitationInv, RestrictedAddressKept
<1> QED BY <1>1, InvitationRuns, InvitationInvariant, PTL

\* A change that is reported as done is in what is shown, because its load is asked for
\* after it was granted and replaces what other loads brought
\* (AccountLoginMethodsManager.tsx:131-134, 416-419; InvitationManagementPanel.tsx:228,
\* 268, 313).
THEOREM ReportedChangesAreShown == AllSpec => SuccessIsShown
<1>1. AccountInv /\ ListInv /\ [AllNext]_allVars
        => [Accounts!ShowsSuccess /\ Invitations!ShowsSuccess]_allVars
  <2>1. [AllNext]_allVars => [Accounts!Next]_Accounts!vars /\ [Invitations!Next]_Invitations!vars
    BY DEF AllNext, SignupStep, AccountStep, InvitationStep, InvitationsStep, LoginStep,
      allVars, accountVars, invitationsVars, Accounts!vars, Accounts!manager, Accounts!busy,
      Accounts!form, Accounts!field, Accounts!host, Invitations!vars, Invitations!list,
      Invitations!busy, Invitations!detail
  <2> QED BY <2>1, AccountSuccess, ListSuccess
<1> QED
  BY <1>1, AccountsRun, AccountInvariant, InvitationsRun, ListInvariant, PTL
    DEF AllSpec, SuccessIsShown

\* What the signup panel shows as verified, and sends, was proved, and its flows do not
\* overlap, while the other panels run (SignupPanel.tsx:198-262, 294-332).
THEOREM SignupsStayProved ==
  AllSpec => [](VerifiedEmailWasProved /\ SignupsCarryProvedEmails /\ FlowsAlone)
BY SignupRuns, VerifiedAddressesWereProved, SignupAddressesWereProved, FlowsNeverOverlap, PTL

-----------------------------------------------------------------------------
(* Busy flags *)

\* A busy flag is set while a handler is under way that takes it back as it ends.
SignupAwaited ==
  /\ busyAction = "signup-email" => \E h \in Handlers : Running(h, "begin")
  /\ busyAction = "signup-email-code" => \E h \in Handlers : Running(h, "verify")
  /\ busyProvider # "none" => \E h \in Handlers : UsesProvider(h)
  /\ isSubmitting => \E h \in Handlers : Submits(h)

AccountAwaited ==
  /\ accountBusyAction \notin {"open", "link", "unlink"}
  /\ accountBusyAction # "none" =>
       \E h \in Handlers : ~Accounts!At(h, "idle") /\ accountTask[h].action = accountBusyAction
  /\ accountBusyProvider # Null =>
       \E h \in Handlers :
         /\ ~Accounts!At(h, "idle") /\ accountTask[h].action \in {"link", "unlink"}
         /\ accountTask[h].arg = accountBusyProvider

\* An embedded login has a panel, and flags, of its own.
InvitationAwaited ==
  /\ invitationIsSubmitting =>
       \E h \in Handlers : ~Invitation!At(h, "idle") /\ ~Invitation!At(h, "embedded")
  /\ loading => asked \in loads

ListAwaited ==
  /\ acting # Null =>
       \E h \in Handlers :
         listTask[h].step \notin {"idle", "details"} /\ listTask[h].about = acting
  /\ importing =>
       \E h \in Handlers :
         listTask[h].step \notin {"idle", "details"} /\ listTask[h].about = "import"
  /\ listLoading => \E h \in Handlers : Invitations!At(h, "load") \/ Invitations!At(h, "loaded")

\* Apple's script is the exception: a handler may wait for one that failed already.
LoginAwaited ==
  /\ loginIsSubmitting => \E h \in Handlers : Awaits(h, OfPassword)
  /\ passwordlessBusy => \E h \in Handlers : Awaits(h, OfCode)
  /\ loginBusyProvider # Null =>
       \E h \in Handlers :
         /\ Awaits(h, OfProvider)
         /\ loginTask[h] = "script" => script \in {"loading", "failed"}

FlagsAwaited ==
  SignupAwaited /\ AccountAwaited /\ InvitationAwaited /\ ListAwaited /\ LoginAwaited

\* No step of the signup panel leaves a flag behind.
LEMMA SignupAwaitedStep == TypeOK /\ SignupAwaited /\ [Next]_vars => SignupAwaited'
<1> SUFFICES ASSUME TypeOK, SignupAwaited, [Next]_vars PROVE SignupAwaited'
  OBVIOUS
<1> USE DEF SignupAwaited, Submits, UsesProvider, form, view, field, busy, host, Becomes,
            Running
<1>1. ASSUME Edit PROVE SignupAwaited'
  <2>1. UNCHANGED <<task, busyAction, busyProvider, isSubmitting>>
    BY <1>1 DEF Edit, ToggleConsent, ChooseEmail, BackToOptions, TypeEmail, ChangeEmail,
      CancelPending, ResetPending
  <2> QED BY <2>1
<1>2. ASSUME NEW h \in Handlers, Ask(h) PROVE SignupAwaited'
  <2>0. ASSUME NEW step, NEW e, NEW c, Start(h, step, e, c)
        PROVE  /\ task[h].step = "idle" /\ task'[h].step = step
               /\ \A g \in Handlers : task[g].step # "idle" => task'[g] = task[g]
    <3>1. Becomes(h, step, e, c)
      BY <2>0, TaskSteps
    <3> QED BY <2>0, <3>1 DEF Start
  <2>1. CASE SendVerification(h) \/ Resend(h)
    <3>1. CASE consent
      <4>1. /\ Start(h, "begin", email, Null) /\ busyAction' = "signup-email"
            /\ UNCHANGED <<busyProvider, isSubmitting>>
        BY <2>1, <3>1 DEF SendVerification, Resend, RequestVerification
      <4> QED BY <4>1, <2>0
    <3>2. CASE ~consent
      BY <2>1, <3>2 DEF SendVerification, Resend, RequestVerification
    <3> QED BY <3>1, <3>2
  <2>2. CASE Verify(h)
    <3>1. /\ Start(h, "verify", email, challenge) /\ busyAction' = "signup-email-code"
          /\ UNCHANGED <<busyProvider, isSubmitting>>
      BY <2>2 DEF Verify
    <3> QED BY <3>1, <2>0
  <2>3. CASE SubmitPasswordSignup(h)
    BY <2>3, <2>0 DEF SubmitPasswordSignup
  <2>4. CASE GoogleCredential(h) \/ FinishMicrosoft(h)
    BY <2>4, <2>0 DEF GoogleCredential, FinishMicrosoft
  <2>5. ASSUME NEW p \in Providers, OpenPopup(h, p) PROVE SignupAwaited'
    BY <2>5, <2>0 DEF OpenPopup
  <2> QED BY <1>2, <2>1, <2>2, <2>3, <2>4, <2>5 DEF Ask
<1>3. ASSUME NEW h \in Handlers, Answer(h) PROVE SignupAwaited'
  <2>1. ASSUME NEW c \in Challenges, BeginAnswered(h, c) PROVE SignupAwaited'
    BY <2>1, TaskSteps DEF BeginAnswered
  <2>2. CASE CodeAccepted(h) \/ CodeRefused(h)
    BY <2>2, TaskSteps DEF CodeAccepted, CodeRefused, VerifyEnds
  <2>3. CASE BeginRefused(h) \/ SubmitEnds(h) \/ ProviderFails(h)
    BY <2>3, TaskSteps DEF BeginRefused, SubmitEnds, ProviderFails
  <2>4. CASE SignupAnswered(h) \/ PopupAnswered(h)
    BY <2>4, TaskSteps DEF SignupAnswered, PopupAnswered
  <2>5. ASSUME NEW e \in Emails \cup {Null}, EmailMissing(h, e) PROVE SignupAwaited'
    BY <2>5, TaskSteps DEF EmailMissing
  <2>6. CASE SignedUp(h)
    BY <2>6, TaskSteps DEF SignedUp, ResetPending
  <2> QED BY <1>3, <2>1, <2>2, <2>3, <2>4, <2>5, <2>6 DEF Answer
<1>4. CASE UNCHANGED vars
  BY <1>4 DEF vars
<1> QED BY <1>1, <1>2, <1>3, <1>4 DEF Next

\* Nor does one of the login panel.
LEMMA LoginAwaitedStep ==
  Login!TypeOK /\ LoginAwaited /\ [Login!Next]_Login!vars => LoginAwaited'
<1> SUFFICES ASSUME Login!TypeOK, LoginAwaited, [Login!Next]_Login!vars PROVE LoginAwaited'
  OBVIOUS
<1> USE PanelBoundsOK DEF LoginAwaited, Login!props, Login!link, Login!view, Login!busy,
    Login!Start, Login!End, OfPassword, OfCode, OfProvider, Awaits, Login!TypeOK
<1>1. CASE Login!OpenEmail \/ Login!BackToOptions \/ Login!OpenPasswordless
           \/ Login!LeavePasswordless \/ Login!Rerender \/ UNCHANGED Login!vars
  BY <1>1 DEF Login!OpenEmail, Login!BackToOptions, Login!OpenPasswordless,
    Login!LeavePasswordless, Login!Rerender, Login!Turn, Login!vars
<1>2. ASSUME NEW h \in Handlers, Login!Ask(h) PROVE LoginAwaited'
  <2>1. CASE Login!SendToken(h)
    BY <2>1 DEF Login!SendToken
  <2>2. CASE Login!SubmitPassword(h)
    BY <2>2 DEF Login!SubmitPassword
  <2>3. CASE Login!RequestCode(h) \/ Login!CompleteCode(h)
    BY <2>3 DEF Login!RequestCode, Login!CompleteCode, Login!Passwordless
  <2>4. ASSUME NEW p \in Login!Providers, Login!RunProviderLogin(h, p) PROVE LoginAwaited'
    <3> DEFINE step == CASE p = "Google" -> "external"
                         [] p = "Microsoft" \/ script = "loaded" -> "popup"
                         [] OTHER -> "script"
    <3>1. step \in OfProvider /\ (step = "script" => p = "Apple" /\ script # "loaded")
      BY DEF Login!Providers
    <3>2. loginTask' = [loginTask EXCEPT ![h] = step] /\ loginTask[h] = "idle"
      BY <2>4 DEF Login!RunProviderLogin
    <3> HIDE DEF step
    <3>3. step = "script" => script' \in {"loading", "failed"}
      BY <2>4, <3>1 DEF Login!RunProviderLogin
    <3>4. UNCHANGED <<loginIsSubmitting, passwordlessBusy>>
      BY <2>4 DEF Login!RunProviderLogin
    <3> QED BY <3>1, <3>2, <3>3, <3>4
  <2> QED BY <1>2, <2>1, <2>2, <2>3, <2>4 DEF Login!Ask
<1>3. ASSUME NEW h \in Handlers, Login!Answer(h) PROVE LoginAwaited'
  <2>1. CASE Login!TokenAnswered(h) \/ Login!PasswordAnswered(h) \/ Login!CodeAnswered(h)
    BY <2>1 DEF Login!TokenAnswered, Login!PasswordAnswered, Login!CodeAnswered
  <2>2. CASE Login!PopupAnswered(h) \/ Login!ProviderEnds(h)
    BY <2>2 DEF Login!PopupAnswered, Login!ProviderEnds
  <2>3. CASE Login!ScriptSettles(h)
    BY <2>3 DEF Login!ScriptSettles
  <2> QED BY <1>3, <2>1, <2>2, <2>3 DEF Login!Answer
<1> QED BY <1>1, <1>2, <1>3 DEF Login!Next

\* Nor one of an invitation.
LEMMA InvitationAwaitedStep ==
  Invitation!TypeOK /\ InvitationAwaited /\ [Invitation!Next]_Invitation!vars
    => InvitationAwaited'
<1> SUFFICES ASSUME Invitation!TypeOK, InvitationAwaited, [Invitation!Next]_Invitation!vars
    PROVE  InvitationAwaited'
  OBVIOUS
<1> USE ConstantsOK, InvitationTaskTypes
    DEF Invitation!props, Invitation!load, Invitation!form, Invitation!At, InvitationAwaited,
        Invitation!TypeOK
<1>l. Invitation!LoadInvitation => (loading' => asked' \in loads')
  <2> SUFFICES ASSUME Invitation!LoadInvitation, loading' PROVE asked' \in loads'
    OBVIOUS
  <2>1. key # Null /\ asked' = key /\ loads' = loads \cup ({key} \ {Null})
    BY DEF Invitation!LoadInvitation
  <2> QED BY <2>1
<1>0. Invitation!Render => (loading' => asked' \in loads')
  <2>1. CASE Invitation!LoadInvitation
    BY <1>l, <2>1
  <2>2. CASE asked' = asked /\ loading' = loading /\ loads' = loads
    BY <2>2
  <2>3. Invitation!Render => \/ Invitation!LoadInvitation
                             \/ asked' = asked /\ loading' = loading /\ loads' = loads
    BY DEF Invitation!Render
  <2> QED BY <2>1, <2>2, <2>3
<1>1. CASE InvitationEdit
  <2>1. UNCHANGED <<invitationTask, invitationIsSubmitting>>
    BY <1>1 DEF InvitationEdit, Invitation!Edit, Invitation!ChangeKey, Invitation!RunEffect,
      Invitation!UserLeaves, Invitation!SwitchToLogin, Invitation!SwitchToCreate,
      Invitation!OpenDecline, Invitation!CancelDecline, Invitation!TypeEmail, Invitation!Turn,
      Invitation!LoadAnswered, Invitation!Loaded, Invitation!LoadRefused, Invitation!vars
  <2>2. CASE Invitation!RunEffect
    BY <1>l, <2>1, <2>2 DEF Invitation!RunEffect
  <2>3. ASSUME NEW k \in Keys, Invitation!LoadAnswered(k) PROVE loading' => asked' \in loads'
    <3>1. /\ asked' = asked /\ loads' = loads \ {k}
          /\ \/ loading' = FALSE
             \/ k # asked /\ loading' = loading
      <4>1. CASE Invitation!LoadRefused(k)
        BY <4>1 DEF Invitation!LoadRefused
      <4>2. ASSUME NEW b \in BOOLEAN, Invitation!Loaded(k, b)
            PROVE  /\ asked' = asked /\ loads' = loads \ {k}
                   /\ \/ loading' = FALSE
                      \/ k # asked /\ loading' = loading
        BY <4>2 DEF Invitation!Loaded
      <4> QED BY <2>3, <4>1, <4>2 DEF Invitation!LoadAnswered
    <3> QED BY <3>1
  <2>4. \/ UNCHANGED <<asked, loading, loads>>
        \/ Invitation!Render \/ Invitation!RunEffect
        \/ \E k \in Keys : Invitation!LoadAnswered(k)
    BY <1>1 DEF InvitationEdit, Invitation!Edit, Invitation!ChangeKey, Invitation!UserLeaves,
      Invitation!SwitchToLogin, Invitation!SwitchToCreate, Invitation!OpenDecline,
      Invitation!CancelDecline, Invitation!TypeEmail, Invitation!Turn, Invitation!vars
  <2> QED BY <1>0, <2>1, <2>2, <2>3, <2>4
<1>2. ASSUME NEW h \in Handlers, Invitation!Operate(h) PROVE InvitationAwaited'
  BY <1>0, <1>2 DEF Invitation!Operate, Invitation!AcceptInvitation,
    Invitation!ConnectCurrentAccount, Invitation!ConnectExistingAccount,
    Invitation!SwitchAccount, Invitation!DeclineInvitation, Invitation!EmbeddedLogin,
    Invitation!Send, Invitation!Submit, Invitation!Ask
<1>3. ASSUME NEW h \in Handlers, Invitation!Answer(h) PROVE InvitationAwaited'
  <2>1. CASE Invitation!Activated(h) \/ Invitation!LoggedIn(h)
    BY <2>1 DEF Invitation!Activated, Invitation!LoggedIn, Invitation!Finally
  <2>2. ASSUME NEW e \in Emails, Invitation!EmbeddedLoggedIn(h, e) PROVE InvitationAwaited'
    BY <2>2 DEF Invitation!EmbeddedLoggedIn
  <2>3. CASE Invitation!AcceptedForNow(h) \/ Invitation!SignedOut(h) \/ Invitation!Declined(h)
    BY <2>3 DEF Invitation!AcceptedForNow, Invitation!SignedOut, Invitation!Declined,
      Invitation!Finally
  <2>4. CASE Invitation!Ends(h)
    BY <2>4 DEF Invitation!Ends, Invitation!Finally
  <2> QED BY <1>3, <2>1, <2>2, <2>3, <2>4 DEF Invitation!Answer
<1> QED BY <1>1, <1>2, <1>3 DEF Invitation!Next, InvitationEdit

\* Nor one of an account's login methods.
LEMMA AccountAwaitedStep ==
  Accounts!TypeOK /\ AccountAwaited /\ [Accounts!Next]_Accounts!vars => AccountAwaited'
<1> SUFFICES ASSUME Accounts!TypeOK, AccountAwaited, [Accounts!Next]_Accounts!vars
             PROVE  AccountAwaited'
  OBVIOUS
<1> USE DEF Accounts!manager, Accounts!busy, Accounts!form, Accounts!field, Accounts!host,
            Accounts!At
<1>0. accountTask \in [Handlers -> Accounts!Task]
  BY DEF Accounts!TypeOK
<1>1. CASE Accounts!Edit \/ UNCHANGED Accounts!vars
  <2>1. UNCHANGED <<accountBusyAction, accountBusyProvider, accountTask>>
    BY <1>1 DEF Accounts!Edit, Accounts!TypeEmail, Accounts!ChangeEmail,
      Accounts!UseVerifiedEmail, Accounts!vars
  <2> QED BY <2>1 DEF AccountAwaited
<1>2. ASSUME NEW h \in Handlers, Accounts!Ask(h) PROVE AccountAwaited'
  <2>1. ASSUME NEW step \in {"request", "load"}, NEW action, NEW arg,
               Accounts!Start(h, step, action, arg)
        PROVE  /\ accountTask[h].step = "idle" /\ accountTask'[h].step = step
               /\ accountTask'[h].action = action /\ accountTask'[h].arg = arg
               /\ \A g \in Handlers : g # h => accountTask'[g] = accountTask[g]
    BY <1>0, <2>1 DEF Accounts!Start, Accounts!Idle
  <2>2. CASE Accounts!Open(h)
    BY <2>1, <2>2 DEF Accounts!Open, AccountAwaited
  <2>3. ASSUME NEW step \in {"request", "load"},
               NEW action \in Accounts!Actions \ {"open", "link", "unlink"}, NEW arg,
               Accounts!Start(h, step, action, arg), accountBusyAction' = action,
               UNCHANGED accountBusyProvider
        PROVE  AccountAwaited'
    BY <2>1, <2>3 DEF AccountAwaited
  <2>4. ASSUME NEW p \in Linkable,
               Accounts!LinkProvider(h, p) \/ Accounts!UnlinkProvider(h, p)
        PROVE  AccountAwaited'
    <3>1. PICK action \in {"link", "unlink"} :
             /\ Accounts!Start(h, "request", action, p)
             /\ accountBusyProvider' = p /\ UNCHANGED accountBusyAction
      BY <2>4 DEF Accounts!LinkProvider, Accounts!UnlinkProvider, Accounts!Provide
    <3> QED BY <2>1, <3>1 DEF AccountAwaited
  <2>5. ASSUME NEW action \in Accounts!Actions \ {"open", "link", "unlink"}, NEW arg,
               Accounts!Act(h, action, arg)
        PROVE  AccountAwaited'
    BY <2>3, <2>5 DEF Accounts!Act
  <2>6. Accounts!ContactCodes
          \cup {"email", "verify-code", "contact-email", "change-password", "remove-password",
                "complete-password-setup"} \subseteq Accounts!Actions \ {"open", "link", "unlink"}
    BY DEF Accounts!Actions, Accounts!Changing, Accounts!ContactCodes
  <2>7. CASE Accounts!ManageContact(h)
    BY <2>3, <2>6, <2>7 DEF Accounts!ManageContact
  <2>8. CASE \/ Accounts!SendCode(h) \/ Accounts!ResendCode(h) \/ Accounts!VerifyCode(h)
             \/ (\E a \in Accounts!ContactCodes : Accounts!VerifyContact(h, a))
             \/ Accounts!ChangePassword(h) \/ Accounts!RemovePassword(h)
             \/ Accounts!CompleteSetup(h)
    BY <2>5, <2>6, <2>8 DEF Accounts!SendCode, Accounts!ResendCode, Accounts!VerifyCode,
      Accounts!VerifyContact, Accounts!ChangePassword, Accounts!RemovePassword,
      Accounts!CompleteSetup
  <2> QED BY <1>2, <2>2, <2>4, <2>7, <2>8 DEF Accounts!Ask
<1>3. ASSUME NEW h \in Handlers, Accounts!Answer(h) PROVE AccountAwaited'
  <2>0. accountTask[h] \in Accounts!Task
    BY <1>0
  <2>1. CASE Accounts!Granted(h) \/ Accounts!GrantedWithoutCode(h) \/ Accounts!LoadServed(h)
    <3>1. /\ UNCHANGED <<accountBusyAction, accountBusyProvider>>
          /\ accountTask'[h].step # "idle"
          /\ accountTask'[h].action = accountTask[h].action
          /\ accountTask'[h].arg = accountTask[h].arg
          /\ \A g \in Handlers : g # h => accountTask'[g] = accountTask[g]
      BY <1>0, <2>0, <2>1 DEF Accounts!Granted, Accounts!GrantedWithoutCode,
        Accounts!LoadServed, Accounts!Task
    <3> QED BY <3>1 DEF AccountAwaited
  <2>2. CASE \/ Accounts!PasswordChanged(h) \/ Accounts!Refused(h) \/ Accounts!Loaded(h)
             \/ Accounts!LoadFailed(h)
    <3>1. Accounts!Finally(h)
      BY <2>2 DEF Accounts!PasswordChanged, Accounts!Refused, Accounts!Loaded,
        Accounts!LoadFailed
    <3>2. \A g \in Handlers : g # h => accountTask'[g] = accountTask[g]
      BY <1>0, <3>1 DEF Accounts!Finally, Accounts!End
    <3> QED BY <3>1, <3>2 DEF Accounts!Finally, AccountAwaited
  <2> QED BY <1>3, <2>1, <2>2 DEF Accounts!Answer
<1> QED BY <1>1, <1>2, <1>3 DEF Accounts!Next

\* Nor one of the list of invitations.
LEMMA ListAwaitedStep ==
  Invitations!TypeOK /\ ListAwaited /\ [Invitations!Next]_Invitations!vars => ListAwaited'
<1> SUFFICES ASSUME Invitations!TypeOK, ListAwaited, [Invitations!Next]_Invitations!vars
             PROVE  ListAwaited'
  OBVIOUS
<1> USE DEF Invitations!list, Invitations!busy, Invitations!detail, Invitations!At
<1>0. listTask \in [Handlers -> Invitations!Task]
  BY DEF Invitations!TypeOK
<1>1. CASE \/ \E m \in {"list", "invite", "import"} : Invitations!Turn(m)
           \/ Invitations!HideDetails
           \/ UNCHANGED Invitations!vars
  <2>1. UNCHANGED <<listLoading, acting, importing, listTask>>
    BY <1>1 DEF Invitations!Turn, Invitations!HideDetails, Invitations!vars
  <2> QED BY <2>1 DEF ListAwaited
<1>2. ASSUME NEW h \in Handlers, Invitations!Ask(h) PROVE ListAwaited'
  <2>1. ASSUME NEW step \in {"request", "load", "details"}, NEW subject, NEW p,
               Invitations!Start(h, step, subject, p)
        PROVE  /\ listTask[h].step = "idle"
               /\ listTask'[h].step = step /\ listTask'[h].about = subject
               /\ \A g \in Handlers : g # h => listTask'[g] = listTask[g]
    BY <1>0, <2>1 DEF Invitations!Start, Invitations!Idle
  <2>2. ASSUME NEW p, Invitations!Load(h, p) PROVE ListAwaited'
    BY <2>1, <2>2 DEF Invitations!Load, ListAwaited
  <2>3. CASE Invitations!SubmitInvite(h) \/ Invitations!SendImport(h)
    BY <2>1, <2>3 DEF Invitations!SubmitInvite, Invitations!SendImport, ListAwaited
  <2>4. ASSUME NEW k \in Keys, Invitations!PerformAction(h, k) \/ Invitations!ShowDetails(h, k)
        PROVE  ListAwaited'
    BY <2>1, <2>4 DEF Invitations!PerformAction, Invitations!ShowDetails, ListAwaited
  <2> QED BY <1>2, <2>2, <2>3, <2>4 DEF Invitations!Ask, Invitations!Search,
        Invitations!TurnPage
<1>3. ASSUME NEW h \in Handlers, Invitations!Answer(h) PROVE ListAwaited'
  <2>0. listTask[h] \in Invitations!Task
    BY <1>0
  <2>1. CASE Invitations!Granted(h) \/ Invitations!LoadServed(h)
    <3>1. /\ UNCHANGED <<acting, importing>>
          /\ listTask'[h].about = listTask[h].about
          /\ listTask'[h].step \in {"load", "loaded"}
          /\ \A g \in Handlers : g # h => listTask'[g] = listTask[g]
      BY <1>0, <2>0, <2>1 DEF Invitations!Granted, Invitations!LoadServed, Invitations!Task
    <3> QED BY <3>1 DEF ListAwaited
  <2>2. CASE \/ Invitations!Refused(h) \/ Invitations!Loaded(h) \/ Invitations!LoadFailed(h)
    <3>1. Invitations!Finally(h) /\ (listTask[h].step # "request" => ~listLoading')
          /\ listLoading' \in {listLoading, FALSE}
      BY <2>2 DEF Invitations!Refused, Invitations!Loaded, Invitations!LoadFailed
    <3>2. \A g \in Handlers : g # h => listTask'[g] = listTask[g]
      BY <1>0, <3>1 DEF Invitations!Finally
    <3>3. acting' # Null =>
            \E g \in Handlers :
              listTask'[g].step \notin {"idle", "details"} /\ listTask'[g].about = acting'
      <4>1. acting \in Keys \cup {Null}
        BY DEF Invitations!TypeOK
      <4> QED BY <3>1, <3>2, <4>1 DEF Invitations!Finally, ListAwaited
    <3>4. importing' =>
            \E g \in Handlers :
              listTask'[g].step \notin {"idle", "details"} /\ listTask'[g].about = "import"
      BY <3>1, <3>2 DEF Invitations!Finally, ListAwaited
    <3>5. listLoading' => \E g \in Handlers : listTask'[g].step \in {"load", "loaded"}
      BY <2>2, <3>1, <3>2 DEF Invitations!Refused, Invitations!Loaded, Invitations!LoadFailed,
        ListAwaited, Invitations!TypeOK
    <3> QED BY <3>3, <3>4, <3>5 DEF ListAwaited
  <2>3. CASE Invitations!DetailsAnswered(h)
    BY <1>0, <2>3 DEF Invitations!DetailsAnswered, ListAwaited
  <2> QED BY <1>3, <2>1, <2>2, <2>3 DEF Invitations!Answer
<1> QED BY <1>1, <1>2, <1>3 DEF Invitations!Next

\* In all five panels a busy flag that is set has a handler under way that takes it back as
\* it ends (the finally blocks), or an unanswered load: none is left set by one that overlapped,
\* changed the view or was answered late.  Where every answer comes, this is why BusyFlagsEnd
\* holds.
THEOREM BusyFlagsAreAwaited == AllSpec => []FlagsAwaited
<1>1. AllInit => FlagsAwaited
  <2> SUFFICES ASSUME AllInit PROVE FlagsAwaited
    OBVIOUS
  <2>1. SignupAwaited
    BY DEF AllInit, Init, SignupAwaited
  <2>2. AccountAwaited
    BY DEF AllInit, Accounts!Init, AccountAwaited
  <2>3. InvitationAwaited
    BY DEF AllInit, Invitation!Init, InvitationAwaited
  <2>4. ListAwaited
    <3>1. PICK h \in Handlers :
             listTask[h] = [Invitations!Idle EXCEPT !.step = "load", !.about = "list"]
      BY DEF AllInit, Invitations!Init
    <3>2. listTask[h].step = "load"
      BY <3>1 DEF Invitations!Idle
    <3> QED BY <3>2 DEF AllInit, Invitations!Init, Invitations!At, ListAwaited
  <2>5. LoginAwaited
    BY DEF AllInit, Login!Init, LoginAwaited
  <2> QED BY <2>1, <2>2, <2>3, <2>4, <2>5 DEF FlagsAwaited
<1>2. TypesOK /\ FlagsAwaited /\ [AllNext]_allVars => FlagsAwaited'
  <2> SUFFICES ASSUME TypesOK, FlagsAwaited, [AllNext]_allVars PROVE FlagsAwaited'
    OBVIOUS
  <2>1. /\ [Next]_vars /\ [Accounts!Next]_Accounts!vars
        /\ [Invitation!Next]_Invitation!vars /\ [Invitations!Next]_Invitations!vars
        /\ [Login!Next]_Login!vars
    BY DEF AllNext, SignupStep, AccountStep, InvitationStep, InvitationsStep, LoginStep,
      allVars, vars, accountVars, invitationVars, invitationsVars, loginVars, Accounts!vars,
      Accounts!manager, Accounts!busy, Accounts!form, Accounts!field, Accounts!host,
      Invitation!vars, Invitation!props, Invitation!load, Invitation!form, Invitations!vars,
      Invitations!list, Invitations!busy, Invitations!detail, Login!vars, Login!props,
      Login!link, Login!view, Login!busy
  <2> QED BY <2>1, SignupAwaitedStep, AccountAwaitedStep, InvitationAwaitedStep,
        ListAwaitedStep, LoginAwaitedStep DEF FlagsAwaited, TypesOK
<1> QED BY <1>1, <1>2, PanelTypesCorrect, PTL DEF AllSpec

=============================================================================
