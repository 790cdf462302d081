------------------------ MODULE AccountLoginMethods ------------------------
(***************************************************************************)
(* components/AccountLoginMethodsManager.tsx (cited by line), the          *)
(* AccountLoginMethodsPanel it shows (Panel) and the EmailVerificationField*)
(* of the login address (Field): requests that change an account, each     *)
(* followed by a request for the account as it is then, over a form whose  *)
(* fields follow what was loaded.                                          *)
(*                                                                         *)
(* A challenge is the address it was sent to.  The address of an account   *)
(* is the one the panel suggests (Panel 125-126): its own, or the one of a *)
(* provider, which is not verified.  Of the contact addresses only what    *)
(* they do to the flags and to the account is modelled; popups, dialogs,   *)
(* password rules and messages are left out.  The host serves a request    *)
(* and the panel hears of it in one step, or never.                        *)
(***************************************************************************)
EXTENDS PanelConstants

VARIABLES
  details,      \* the account as loaded last, or Null
  challenge,    \* the login address under verification
  setup,        \* setupEmailVerified
  busyAction,   \* "none" or the operation that set it
  busyProvider, \* Null or the provider that is linked or unlinked
  email,        \* the login address in the form (Panel 127)
  editing,      \* editingLoginEmail (Panel 133)
  verifying,    \* verifyingRef of the field (Field 65)
  own,          \* handlers in which this field awaits its verifyCode
  task,         \* what each handler awaits
  account,      \* the host: the account
  proved        \* the host: addresses the user proved

manager == <<details, challenge, setup>>
busy == <<busyAction, busyProvider>>
form == <<email, editing>>
field == <<verifying, own>>
host == <<account, proved>>
vars == <<manager, busy, form, field, task, host>>

Account ==
  [password : BOOLEAN, linked : SUBSET Linkable, email : Emails \cup {Null},
   verified : BOOLEAN, version : 0..MaxChanges]

ContactCodes == {"notification-email", "verify-notification-code"}
Changing ==
  {"verify-code", "remove-password", "complete-password-setup", "link", "unlink"}
Actions == Changing \cup ContactCodes \cup {"open", "email", "contact-email", "change-password"}

Task ==
  [step : {"idle", "request", "load", "loaded"}, action : Actions,
   arg : Emails \cup Linkable \cup {Null}, change : 0..MaxChanges,
   got : Account \cup {Null}]

TypeOK ==
  /\ details \in Account \cup {Null}
  /\ challenge \in Emails \cup {Null}
  /\ setup \in BOOLEAN /\ editing \in BOOLEAN /\ verifying \in BOOLEAN
  /\ busyAction \in Actions \cup {"none"}
  /\ busyProvider \in Linkable \cup {Null}
  /\ email \in Emails \cup {Null}
  /\ own \subseteq Handlers
  /\ task \in [Handlers -> Task]
  /\ account \in Account
  /\ proved \subseteq Emails

Idle == [step |-> "idle", action |-> "open", arg |-> Null, change |-> 0, got |-> Null]

At(h, step) == task[h].step = step

Start(h, step, action, arg) ==
  /\ At(h, "idle")
  /\ task' = [task EXCEPT ![h] = [Idle EXCEPT !.step = step, !.action = action, !.arg = arg]]

End(h) == task' = [task EXCEPT ![h] = Idle]

Shown == details # Null

\* usableMethodCount (68).
Methods(a) == Cardinality(a.linked) + (IF a.password THEN 1 ELSE 0)

\* details know the address in the form as the account's, and as verified (Panel 145).
AccountEmail == details.verified /\ details.email = email

\* A password may be set up for the address in the form (Panel 148, 152).
SetupVerified == ~details.password /\ ~editing /\ (setup \/ AccountEmail)

\* The field of the login address is verified (Panel 147-148).
FieldVerified == IF details.password THEN ~editing /\ AccountEmail ELSE SetupVerified

AsksForEmail == Shown /\ ~FieldVerified /\ challenge = Null
AsksForCode == Shown /\ ~FieldVerified /\ challenge # Null

\* The field is disabled by its own requests only (Field 66, Panel 389-390, 449-450).
FieldBusy == busyAction \in {"email", "verify-code"}

\* The controls that are rendered and enabled: the field and the buttons of the contact
\* addresses (Panel 281-360), of the password (416-428, 472-518) and of the providers
\* (522-580).
ContactField(action) ==
  Shown /\ busyProvider = Null /\ busyAction \in {"none"} \cup (ContactCodes \ {action})
ContactButtons == Shown /\ busyAction = "none" /\ busyProvider = Null
SetupButton == Shown /\ SetupVerified /\ busyAction # "complete-password-setup"
ChangeButton == Shown /\ details.password /\ busyAction # "change-password"
RemoveButton ==
  Shown /\ details.password /\ details.linked # {} /\ busyAction # "remove-password"
UnlinkButton(p) ==
  Shown /\ p \in details.linked /\ busyProvider # p /\ Methods(details) > 1
ConnectButton(p) == Shown /\ p \notin details.linked

Init ==
  /\ details = Null /\ challenge = Null /\ setup = FALSE
  /\ busyAction = "none" /\ busyProvider = Null
  /\ email = Null /\ editing = FALSE
  /\ verifying = FALSE /\ own = {}
  /\ task = [h \in Handlers |-> Idle]
  /\ account \in [password : BOOLEAN, linked : SUBSET Linkable, email : Emails \cup {Null},
                  verified : BOOLEAN, version : {0}]
  /\ Methods(account) > 0
  /\ account.email = Null => ~account.verified
  /\ proved = IF account.verified THEN {account.email} ELSE {}

-----------------------------------------------------------------------------
(* The form *)

\* Variant: the flag is cleared to null like the challenge.
ClearVerification_ByNull == challenge' = Null /\ setup' = Null

\* clearEmailVerification (332-337).
ClearVerification == challenge' = Null /\ setup' = FALSE

\* updateEmail (Panel 197-204); the input is disabled while the field is busy.
TypeEmail(e) ==
  /\ AsksForEmail /\ ~FieldBusy
  /\ email' = e
  /\ IF setup THEN ClearVerification ELSE UNCHANGED <<challenge, setup>>
  /\ UNCHANGED <<details, busy, editing, field, task, host>>

\* changeEmail of the field and clearEmailVerification of the panel (Field 92-97,
\* Panel 175-180).
ChangeEmail ==
  /\ Shown /\ (FieldVerified \/ challenge # Null) /\ ~FieldBusy
  /\ ClearVerification
  /\ editing' = TRUE
  /\ verifying' = FALSE
  /\ UNCHANGED <<details, busy, email, own, task, host>>

\* useVerifiedLoginEmail (Panel 189-195, 410-414).
UseVerifiedEmail ==
  /\ Shown /\ ~details.password
  /\ editing /\ details.verified
  /\ email' = details.email
  /\ editing' = FALSE
  /\ ClearVerification
  /\ UNCHANGED <<details, busy, field, task, host>>

-----------------------------------------------------------------------------
(* Requests *)

\* loadDetails for the first time, or again after it failed (109-122, 441-448).
Open(h) ==
  /\ ~Shown /\ \A g \in Handlers : At(g, "idle")
  /\ Start(h, "load", "open", Null)
  /\ UNCHANGED <<manager, busy, form, field, host>>

\* An operation sets its flag and sends its request (210-213 and the like).
Act(h, action, arg) ==
  /\ Start(h, "request", action, arg)
  /\ busyAction' = action
  /\ UNCHANGED <<manager, busyProvider, form, host>>

\* requestEmailVerification, from the field or from its link for another code
\* (209-213, Panel 215-224, Field 99-103, 174).
SendCode(h) ==
  /\ AsksForEmail /\ ~FieldBusy /\ email # Null
  /\ Act(h, "email", email)
  /\ verifying' = FALSE /\ UNCHANGED own

ResendCode(h) ==
  /\ AsksForCode /\ busyAction # "email" /\ email # Null
  /\ Act(h, "email", email)
  /\ UNCHANGED field

\* verifyEmailCode (232-241, Field 72-90).
VerifyCode(h) ==
  /\ AsksForCode /\ busyAction # "verify-code" /\ ~verifying
  /\ Act(h, "verify-code", challenge)
  /\ verifying' = TRUE /\ own' = own \cup {h}

\* requestNotificationEmailChange and verifyNotificationEmailCode (261-265, 304-313).
VerifyContact(h, action) ==
  /\ ContactField(action)
  /\ Act(h, action, Null)
  /\ UNCHANGED field

\* manageContactEmail, whose answer is the account (283-288).
ManageContact(h) ==
  /\ ContactButtons
  /\ Start(h, "load", "contact-email", Null)
  /\ busyAction' = "contact-email"
  /\ UNCHANGED <<manager, busyProvider, form, field, host>>

\* savePasswordChange and changePassword (363-367, Panel 252-264).
ChangePassword(h) ==
  /\ ChangeButton
  /\ Act(h, "change-password", Null)
  /\ UNCHANGED field

\* removePasswordLogin of panel and manager (381-385, Panel 266-275).
RemovePassword(h) ==
  /\ RemoveButton
  /\ Act(h, "remove-password", Null)
  /\ UNCHANGED field

\* savePasswordSetup and completePasswordSetup (403-407, Panel 237-250).
CompleteSetup(h) ==
  /\ SetupButton /\ email # Null
  /\ Act(h, "complete-password-setup", email)
  /\ UNCHANGED field

Provide(h, action, p) ==
  /\ Start(h, "request", action, p)
  /\ busyProvider' = p
  /\ UNCHANGED <<manager, busyAction, form, field, host>>

\* linkProvider, connectApple and connectMicrosoft (124-151, 179-207).  The credential that
\* the latter two wait for first is part of the request.
LinkProvider(h, p) ==
  /\ ConnectButton(p) /\ busyProvider = Null
  /\ Provide(h, "link", p)

\* unlinkProvider (153-162).
UnlinkProvider(h, p) ==
  /\ UnlinkButton(p)
  /\ Provide(h, "unlink", p)

-----------------------------------------------------------------------------
(* The host *)

Changed(a) == account' = [a EXCEPT !.version = account.version + 1]

\* What it does when it grants a request.
Serves(h) ==
  LET action == task[h].action
      arg == task[h].arg IN
  /\ account.version < MaxChanges
  /\ \/ /\ action = "verify-code"
        /\ proved' = proved \cup {arg}
        /\ \/ Changed([account EXCEPT !.email = arg, !.verified = TRUE])
           \/ UNCHANGED account
     \/ /\ action = "remove-password" /\ account.linked # {}
        /\ Changed([account EXCEPT !.password = FALSE])
        /\ UNCHANGED proved
     \/ /\ action = "complete-password-setup"
        /\ Changed([account EXCEPT !.password = TRUE, !.email = arg,
                                   !.verified = arg \in proved])
        /\ UNCHANGED proved
     \/ /\ action = "link"
        /\ \E e \in IF account.email = Null THEN Emails \cup {Null} ELSE {account.email} :
             Changed([account EXCEPT !.linked = @ \cup {arg}, !.email = e])
        /\ UNCHANGED proved
     \/ /\ action = "unlink" /\ Methods([account EXCEPT !.linked = @ \ {arg}]) > 0
        /\ Changed([account EXCEPT !.linked = @ \ {arg}])
        /\ UNCHANGED proved

\* The account as it is when a load is served.
LoadServed(h) ==
  /\ At(h, "load")
  /\ task' = [task EXCEPT ![h].step = "loaded", ![h].got = account]
  /\ UNCHANGED <<manager, busy, form, field, host>>

-----------------------------------------------------------------------------
(* Answers *)

\* finally: the flag is cleared, whoever set it (149, 228 and the like).
Finally(h) ==
  /\ CASE task[h].action = "open" -> UNCHANGED busy
       [] task[h].action \in {"link", "unlink"} -> busyProvider' = Null /\ UNCHANGED busyAction
       [] OTHER -> busyAction' = "none" /\ UNCHANGED busyProvider
  /\ End(h)

\* The verifyCode of the field that was used returns (Field 79-81).
FieldReturns(h) ==
  /\ verifying' = (verifying /\ h \notin own)
  /\ own' = own \ {h}

\* What an operation sets before it loads the account (219-220, 247-249, 391, 413-415).
Applied(h) ==
  CASE task[h].action = "email" -> challenge' = task[h].arg /\ setup' = FALSE
    [] task[h].action = "verify-code" -> challenge' = Null /\ setup' = TRUE
    [] task[h].action = "remove-password" -> setup' = FALSE /\ UNCHANGED challenge
    [] task[h].action = "complete-password-setup" -> ClearVerification
    [] OTHER -> UNCHANGED <<challenge, setup>>

\* Variant: the account is loaded alongside the request.
Granted_LoadsAlongside(h) ==
  /\ At(h, "request") /\ task[h].action # "change-password"
  /\ IF task[h].action \in Changing THEN Serves(h) ELSE UNCHANGED host
  /\ Applied(h)
  /\ task' = [task EXCEPT ![h].step = "loaded", ![h].got = account,
                          ![h].change = IF account' # account THEN account'.version ELSE 0]
  /\ UNCHANGED <<details, busy, form, field>>

\* A request is granted: its effects, then loadDetails (131, 168, 219-221 and the like).
Granted(h) ==
  /\ At(h, "request") /\ task[h].action # "change-password"
  /\ IF task[h].action \in Changing THEN Serves(h) ELSE UNCHANGED host
  /\ Applied(h)
  /\ task' = [task EXCEPT ![h].step = "load",
                          ![h].change = IF account' # account THEN account'.version ELSE 0]
  /\ UNCHANGED <<details, busy, form, field>>

\* The address needs no code: the answer has no challenge (219-220).
GrantedWithoutCode(h) ==
  /\ At(h, "request") /\ task[h].action = "email" /\ task[h].arg \in proved
  /\ challenge' = Null /\ setup' = TRUE
  /\ task' = [task EXCEPT ![h].step = "load"]
  /\ UNCHANGED <<details, busy, form, field, host>>

\* changePassword loads nothing (368-378).
PasswordChanged(h) ==
  /\ At(h, "request") /\ task[h].action = "change-password"
  /\ Finally(h)
  /\ UNCHANGED <<manager, form, field, host>>

\* A request is refused, or granted and its answer is lost (126-129, 214-217 and the
\* like).
Refused(h) ==
  /\ At(h, "request")
  /\ \/ UNCHANGED host
     \/ task[h].action \in Changing /\ Serves(h)
  /\ Finally(h)
  /\ FieldReturns(h)
  /\ UNCHANGED <<manager, form>>

\* The effect of another suggested address (Panel 168-173).
Follow(new) ==
  IF ~Shown \/ new.email # details.email
  THEN email' = new.email /\ editing' = FALSE
  ELSE UNCHANGED form

\* loadDetails sets the details (83-94, 293); the form follows, and the section for
\* the other kind of account has a field of its own (Panel 369, 432).
Loaded(h) ==
  /\ At(h, "loaded")
  /\ LET new == task[h].got IN
     /\ details' = new
     /\ setup' = (setup /\ (new.password => task[h].action = "contact-email"))
     /\ Follow(new)
     /\ IF Shown /\ new.password # details.password
        THEN verifying' = FALSE /\ own' = {}
        ELSE FieldReturns(h)
  /\ Finally(h)
  /\ UNCHANGED <<challenge, host>>

\* It fails: the details stay as they are (96-103).
LoadFailed(h) ==
  /\ At(h, "load")
  /\ Finally(h)
  /\ FieldReturns(h)
  /\ UNCHANGED <<manager, form, host>>

-----------------------------------------------------------------------------
Ask(h) ==
  \/ Open(h) \/ SendCode(h) \/ ResendCode(h) \/ VerifyCode(h)
  \/ \E a \in ContactCodes : VerifyContact(h, a)
  \/ ManageContact(h) \/ ChangePassword(h) \/ RemovePassword(h) \/ CompleteSetup(h)
  \/ \E p \in Linkable : LinkProvider(h, p) \/ UnlinkProvider(h, p)

Answer(h) ==
  \/ Granted(h) \/ GrantedWithoutCode(h) \/ PasswordChanged(h) \/ Refused(h)
  \/ LoadServed(h) \/ Loaded(h) \/ LoadFailed(h)

Edit == (\E e \in Emails : TypeEmail(e)) \/ ChangeEmail \/ UseVerifiedEmail

Next == Edit \/ \E h \in Handlers : Ask(h) \/ Answer(h)

Spec == Init /\ [][Next]_vars

\* Requests time out and popups are closed, so every handler gets its answer.  One does not
\* that signs in with Apple (185) after the script failed to load: see LoginPanel.
Fairness == \A h \in Handlers : WF_vars(Answer(h))

FairSpec == Spec /\ Fairness

-----------------------------------------------------------------------------
(* Properties *)

\* authUi.ts:539, "Please verify this email before saving a password.": the request that
\* sets a password up carries an address the user proved, whatever was typed, loaded and
\* answered since it was shown as verified (Panel 148, 237-249).
SetupIsVerified ==
  \A h \in Handlers :
    At(h, "request") /\ task[h].action = "complete-password-setup" => task[h].arg \in proved

\* When an operation that changed the account reports success, the panel shows an
\* account that has the change, whichever loads and operations overlap (131-134,
\* 168-171, 250-253, 392-395, 416-419).
ShowsSuccess ==
  \A h \in Handlers :
    At(h, "loaded") /\ task'[h].step = "idle" => details'.version >= task[h].change
SuccessIsShown == [][ShowsSuccess]_vars

\* Whatever overlaps, the buttons come back: no flag stays set (149, 174, 228 and the
\* like), as long as Apple's script has not failed.
Flags == <<busyAction # "none", busyProvider # Null, FALSE>>
BusyEnds == \A i \in 1..3 : Flags[i] ~> ~Flags[i]

=============================================================================
