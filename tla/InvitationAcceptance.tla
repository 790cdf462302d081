----------------------- MODULE InvitationAcceptance ------------------------
(***************************************************************************)
(* components/InvitationAcceptancePanel.tsx: the invitation named by a     *)
(* prop is loaded, and then accepted with a new account, connected to one  *)
(* that exists, or declined.  The key and the current user are props that  *)
(* the host changes while requests are under way.  A render with a new key *)
(* is committed before its effect runs: until then the former invitation   *)
(* is shown, and its buttons send the new key.  One click can come between *)
(* the two, since React runs the effect before it renders again.           *)
(*                                                                         *)
(* Names, passwords, consent, the extension of the form and messages are   *)
(* left out; a form that is not valid sends nothing.  Loads of one key are *)
(* one.  The adapter answers a load and does not throw (see the README).   *)
(***************************************************************************)
EXTENDS PanelConstants

VARIABLES
  key,          \* invitationKey
  user,         \* the address of currentUser, or Null
  embedded,     \* existingAccountLogin is given: the login is a LoginPanel
  asked,        \* the key for which the effect ran last
  loading, loads,  \* the flag, and the keys whose details are on their way
  details,      \* the invitation that is shown and whether it is pending, or Null
  view,         \* showAccountChoice, showExistingAccountLogin, decliningInvitation
  email,        \* of the form for a new account
  existing,     \* existingEmail
  isSubmitting,
  task          \* what each handler awaits

props == <<key, user, embedded>>
load == <<asked, loading, loads>>
form == <<email, existing>>
vars == <<props, load, details, view, form, isSubmitting, task>>

Steps == {"idle", "accept", "login", "signin", "embedded", "connect", "signout", "decline"}

TypeOK ==
  /\ key \in Keys \cup {Null}
  /\ user \in Emails \cup {Null}
  /\ embedded \in BOOLEAN
  /\ asked \in Keys \cup {Null}
  /\ loading \in BOOLEAN /\ loads \subseteq Keys
  /\ details \in [key : Keys, pending : BOOLEAN] \cup {Null}
  /\ view \in {"choice", "login", "create", "decline"}
  /\ email \in Emails \cup {Null} /\ existing \in Emails \cup {Null}
  /\ isSubmitting \in BOOLEAN
  /\ task \in [Handlers -> [step : Steps, key : Keys \cup {Null}, email : Emails \cup {Null},
                           early : BOOLEAN]]

On(step) == [step |-> step, key |-> Null, email |-> Null, early |-> FALSE]

Idle == On("idle")

At(h, step) == task[h].step = step

Init ==
  /\ key \in Keys
  /\ user \in Emails \cup {Null}
  /\ embedded \in BOOLEAN
  /\ asked = key /\ loading = TRUE /\ loads = {key}
  /\ details = Null
  /\ view = "choice"
  /\ email = Null /\ existing = Null
  /\ isSubmitting = FALSE
  /\ task = [h \in Handlers |-> Idle]

\* The card is shown, with what can be done about a pending invitation (180, 435-452).
Shown == ~loading /\ details # Null
Actionable == Shown /\ details.pending /\ view # "decline"
Guest == Actionable /\ user = Null

\* Not canChangeEmailAddress; currentAccountRestrictedByEmail (176-179).
ReadOnly == details.key \in Restricted
UserRestricted == ReadOnly /\ user # InvitedAs[details.key]

\* The forms that are rendered, with buttons that isSubmitting disables (454-490, 517-566,
\* 571-583, 601-622, 623-685).
DeclineForm == Shown /\ view = "decline" /\ ~isSubmitting
AccountCard == Actionable /\ user # Null /\ ~isSubmitting
AccountChoice == Guest /\ view = "choice" /\ ~isSubmitting
LoginForm == Guest /\ view = "login" /\ ~embedded /\ ~isSubmitting
CreateForm == Guest /\ view = "create" /\ ~isSubmitting

-----------------------------------------------------------------------------
(* The host's props, and loads *)

\* The effect for this key has not run yet (117, 168).
Early == asked # key

\* The host renders the panel for another key.
ChangeKey(k) ==
  /\ k # key /\ ~Early
  /\ key' = k
  /\ UNCHANGED <<user, embedded, load, details, view, form, isSubmitting, task>>

\* The effect: it cancels the load of the former key and begins one (117-128, 164-168).
LoadInvitation ==
  /\ asked' = key
  /\ loading' = (key # Null)
  /\ loads' = loads \cup ({key} \ {Null})

RunEffect == Early /\ LoadInvitation /\ UNCHANGED <<props, details, view, form, isSubmitting, task>>

\* A render for another reason: the effect runs before it, if it has not.
Render == IF Early THEN LoadInvitation ELSE UNCHANGED load

\* The session of the user ends elsewhere.
UserLeaves ==
  /\ user' = Null /\ user # Null
  /\ Render
  /\ UNCHANGED <<key, embedded, details, view, form, isSubmitting, task>>

\* Variant: an answer about a former key is not ignored.
Loaded_Uncancelled(k, pending) ==
  /\ k \in loads
  /\ loads' = loads \ {k}
  /\ loading' = FALSE
  /\ details' = [key |-> k, pending |-> pending]
  /\ email' = InvitedAs[k] /\ existing' = InvitedAs[k]
  /\ UNCHANGED <<props, asked, view, isSubmitting, task>>

\* Variant: an address that was typed is kept.
Loaded_KeepsAddress(k, pending) ==
  /\ k \in loads
  /\ loads' = loads \ {k}
  /\ IF k = asked
     THEN /\ loading' = FALSE
          /\ details' = [key |-> k, pending |-> pending]
          /\ email' = IF email = Null THEN InvitedAs[k] ELSE email
          /\ existing' = InvitedAs[k]
     ELSE UNCHANGED <<loading, details, form>>
  /\ UNCHANGED <<props, asked, view, isSubmitting, task>>

\* The details arrive; if the load was cancelled they are ignored (128-131, 140-146).
Loaded(k, pending) ==
  /\ k \in loads
  /\ loads' = loads \ {k}
  /\ IF k = asked
     THEN /\ loading' = FALSE
          /\ details' = [key |-> k, pending |-> pending]
          /\ email' = InvitedAs[k] /\ existing' = InvitedAs[k]
     ELSE UNCHANGED <<loading, details, form>>
  /\ UNCHANGED <<props, asked, view, isSubmitting, task>>

\* Variant: the early return forgets the flag.
LoadRefused_StillLoading(k) ==
  /\ k \in loads
  /\ loads' = loads \ {k}
  /\ IF k = asked THEN details' = Null ELSE UNCHANGED details
  /\ UNCHANGED <<props, asked, loading, view, form, isSubmitting, task>>

\* There is no such invitation (133-138).
LoadRefused(k) ==
  /\ k \in loads
  /\ loads' = loads \ {k}
  /\ IF k = asked THEN loading' = FALSE /\ details' = Null ELSE UNCHANGED <<loading, details>>
  /\ UNCHANGED <<props, asked, view, form, isSubmitting, task>>

-----------------------------------------------------------------------------
(* The user *)

Turn(v) ==
  /\ view' = v
  /\ Render
  /\ UNCHANGED <<props, details, form, isSubmitting, task>>

\* switchToExistingAccountLogin, switchToCreateAccount (198-212, 571-583, 619, 678).
SwitchToLogin ==
  (AccountChoice \/ CreateForm) /\ Turn("login")

SwitchToCreate ==
  /\ Guest /\ view \in {"choice", "login"} /\ ~isSubmitting
  /\ Turn("create")

\* openDeclineInvitation, by a link that is never disabled or by the request for an
\* updated invitation (214-220, 507-514, 537-549).
OpenDecline == Actionable /\ Turn("decline")

\* The way back (477-484).
CancelDecline ==
  /\ DeclineForm
  /\ Turn(IF user = Null THEN "choice" ELSE "create")

\* The two fields for an address (605, 637-644).
TypeEmail(e) ==
  /\ Guest /\ ~ReadOnly
  /\ \/ view = "create" /\ email' = e /\ UNCHANGED existing
     \/ view = "login" /\ ~embedded /\ existing' = e /\ UNCHANGED email
  /\ Render
  /\ UNCHANGED <<props, details, view, isSubmitting, task>>

Ask(h, task0) ==
  /\ At(h, "idle") /\ key # Null
  /\ task' = [task EXCEPT ![h] = task0]
  /\ Render
  /\ UNCHANGED <<props, details, view, form>>

\* A request with an address, and one that is about the key alone.
Send(h, step, e) ==
  /\ Ask(h, [step |-> step, key |-> key, email |-> e, early |-> Early])
  /\ isSubmitting' = TRUE

Submit(h, step) == Ask(h, On(step)) /\ isSubmitting' = TRUE

\* acceptInvitation up to its request (222-250, 267-297).
AcceptInvitation(h) ==
  CreateForm /\ Send(h, "accept", email)

\* connectCurrentAccount from the card of the current account (322-331, 551-562).
ConnectCurrentAccount(h) ==
  AccountCard /\ ~UserRestricted /\ Submit(h, "connect")

\* Variant: the button is not disabled.
ConnectExistingAccount_Again(h) ==
  Guest /\ view = "login" /\ ~embedded /\ Send(h, "signin", existing)

\* connectExistingAccount (343-364, 601-617).
ConnectExistingAccount(h) ==
  LoginForm /\ Send(h, "signin", existing)

\* switchAccount, also of a user the host knows in the tenant (382-388, 530-536, 558).
SwitchAccount(h) ==
  AccountCard /\ Submit(h, "signout")

\* declineInvitation (398-407, 485).
DeclineInvitation(h) ==
  DeclineForm /\ Submit(h, "decline")

\* The embedded LoginPanel signs in by itself (592-599).
EmbeddedLogin(h) ==
  Guest /\ view = "login" /\ embedded /\ Ask(h, On("embedded")) /\ UNCHANGED isSubmitting

-----------------------------------------------------------------------------
(* Answers *)

\* finally (317, 338, 377, 393, 416).
Finally(h) ==
  /\ isSubmitting' = FALSE
  /\ task' = [task EXCEPT ![h] = Idle]

\* Activated, with a login to follow (304-305, 258).
Activated(h) ==
  /\ At(h, "accept") /\ task' = [task EXCEPT ![h].step = "login"]
  /\ UNCHANGED <<props, load, details, view, form, isSubmitting>>

\* Accepted, and to be verified by e-mail (309-316).
AcceptedForNow(h) ==
  /\ At(h, "accept") /\ Finally(h)
  /\ details' = Null
  /\ UNCHANGED <<props, load, view, form>>

\* The login ends the flow or is followed by the connection (264, 364-370).
LoggedIn(h) ==
  /\ user' = task[h].email
  /\ \/ At(h, "login") /\ Finally(h)
     \/ /\ At(h, "signin") /\ task' = [task EXCEPT ![h] = On("connect")]
        /\ UNCHANGED isSubmitting
  /\ UNCHANGED <<key, embedded, load, details, view, form>>

\* onAuthenticated of the embedded LoginPanel, whatever is shown by now (598, 328-331).
EmbeddedLoggedIn(h, e) ==
  /\ At(h, "embedded") /\ task' = [task EXCEPT ![h] = On("connect")]
  /\ user' = e
  /\ isSubmitting' = TRUE
  /\ UNCHANGED <<key, embedded, load, details, view, form>>

\* The host signs the user out, if it can (386-390).
SignedOut(h) ==
  /\ At(h, "signout") /\ Finally(h)
  /\ user' \in {user, Null}
  /\ view' = "login"
  /\ UNCHANGED <<key, embedded, load, details, form>>

\* (413-414)
Declined(h) ==
  /\ At(h, "decline") /\ Finally(h)
  /\ details' = Null
  /\ view' = IF view = "decline" THEN "create" ELSE view
  /\ UNCHANGED <<props, load, form>>

\* A request is refused or throws, or the last of a flow succeeds and onCompleted is
\* called (253-256, 299-302, 332-337, 371-376, 391, 408-411).
Ends(h) ==
  /\ ~At(h, "idle")
  /\ IF At(h, "embedded")
     THEN task' = [task EXCEPT ![h] = Idle] /\ UNCHANGED isSubmitting
     ELSE Finally(h)
  /\ UNCHANGED <<props, load, details, view, form>>

-----------------------------------------------------------------------------
Operate(h) ==
  \/ AcceptInvitation(h) \/ ConnectCurrentAccount(h) \/ ConnectExistingAccount(h)
  \/ SwitchAccount(h) \/ DeclineInvitation(h) \/ EmbeddedLogin(h)

Answer(h) ==
  \/ Activated(h) \/ AcceptedForNow(h) \/ LoggedIn(h)
  \/ \E e \in Emails : EmbeddedLoggedIn(h, e)
  \/ SignedOut(h) \/ Declined(h) \/ Ends(h)

LoadAnswered(k) == LoadRefused(k) \/ \E pending \in BOOLEAN : Loaded(k, pending)

Edit ==
  \/ \E k \in Keys \cup {Null} : ChangeKey(k)
  \/ RunEffect
  \/ UserLeaves
  \/ SwitchToLogin \/ SwitchToCreate \/ OpenDecline \/ CancelDecline
  \/ \E e \in Emails : TypeEmail(e)

Next ==
  \/ Edit
  \/ \E k \in Keys : LoadAnswered(k)
  \/ \E h \in Handlers : Operate(h) \/ Answer(h)

Spec == Init /\ [][Next]_vars

\* Requests are answered.
Fairness ==
  /\ \A h \in Handlers : WF_vars(Answer(h))
  /\ \A k \in Keys : WF_vars(LoadAnswered(k))

FairSpec == Spec /\ Fairness

-----------------------------------------------------------------------------
(* Properties *)

\* From the effect of a key on, what is shown, and can be accepted or declined, is the
\* invitation that the key names, in whatever order the details of several keys arrive
\* (118-131, 165-167).  Before it, the former invitation is shown.
DetailsOfTheKey == Shown /\ ~Early /\ key # Null => details.key = key

\* An invitation that is bound to an address is accepted, or signed in for by its form, with
\* that address, whatever was typed for another key before (144-145, 605, 642).  Between a
\* key and its effect the button sends the new key with the former address; an embedded
\* LoginPanel asks for an address of its own; and a connection carries none: of the accounts
\* it joins the host decides (177-178).
RestrictedAddressKept ==
  \A h \in Handlers :
    /\ task[h].step \in {"accept", "login", "signin"}
    /\ task[h].key \in Restricted
    /\ ~task[h].early
    => task[h].email = InvitedAs[task[h].key]

\* Without an embedded login one operation runs at a time, across changes of the key, the
\* user and the view (284, 328, 361, 383, 404).
OperationsAlone ==
  ~embedded =>
    \A g, h \in Handlers : ~At(g, "idle") /\ ~At(h, "idle") => g = h

\* Whatever overlaps, the buttons come back (317, 338, 377, 393, 416), and no key is left
\* loading while it stays (123, 136, 146).
Flags(k) == <<isSubmitting, loading /\ key = k, FALSE>>
BusyEnds == \A k \in Keys : \A i \in 1..3 : Flags(k)[i] ~> ~Flags(k)[i]

=============================================================================
