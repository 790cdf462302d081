---------------------------- MODULE LoginPanel -----------------------------
(***************************************************************************)
(* components/LoginPanel.tsx with hooks/usePasswordlessEmailLogin.ts and   *)
(* the script that services/appleAuth.ts loads (cited as Apple): logins by *)
(* password, code, link and provider, which the panel lets overlap.        *)
(*                                                                         *)
(* What is typed and what is said are left out.  Google's button brings a  *)
(* credential by itself; a script of Google's that does not load shows no  *)
(* button.                                                                 *)
(***************************************************************************)
EXTENDS PanelConstants

CONSTANT MaxSent  \* bound: times a link's token is sent

VARIABLES
  inline,       \* emailDisplayMode is "inline", not "button"
  stable,       \* what the effect depends on is the same in every render (163)
  due,          \* the effect of the link's token has to run (136-163)
  sent,         \* the host: times it got the token
  showEmail, showCode,  \* showEmailForm, showPasswordlessEmailForm
  challenge,    \* passwordlessChallengeId is set
  isSubmitting, passwordlessBusy, busyProvider,
  script,       \* Apple's script element and what became of it
  task          \* what each handler awaits

props == <<inline, stable>>
link == <<due, sent>>
view == <<showEmail, showCode>>
busy == <<isSubmitting, passwordlessBusy, busyProvider>>
vars == <<props, link, view, challenge, busy, script, task>>

Providers == {"Google", "Apple", "Microsoft"}

TypeOK ==
  /\ inline \in BOOLEAN /\ stable \in BOOLEAN
  /\ due \in BOOLEAN /\ sent \in 0..MaxSent
  /\ showEmail \in BOOLEAN /\ showCode \in BOOLEAN /\ challenge \in BOOLEAN
  /\ isSubmitting \in BOOLEAN /\ passwordlessBusy \in BOOLEAN
  /\ busyProvider \in Providers \cup {Null}
  /\ script \in {"absent", "loading", "loaded", "failed"}
  /\ task \in [Handlers ->
       {"idle", "token", "password", "begin", "complete", "script", "popup", "external"}]

\* `due` holds at first if the host passes a token.
Init ==
  /\ inline \in BOOLEAN /\ stable \in BOOLEAN
  /\ due \in BOOLEAN /\ sent = 0
  /\ showEmail = inline /\ showCode = FALSE
  /\ challenge = FALSE
  /\ isSubmitting = FALSE /\ passwordlessBusy = FALSE /\ busyProvider = Null
  /\ script = "absent"
  /\ task = [h \in Handlers |-> "idle"]

\* The sections that are rendered (365-387).
EmailShown == ~showCode /\ (inline \/ showEmail)
ProvidersShown == ~showCode /\ (inline \/ ~showEmail)

\* The buttons of the providers (components/ExternalAuthButtonList.tsx 42-101); Google's
\* is its own, and the handler returns early (202).
ProviderButtons == ProvidersShown /\ busyProvider = Null

\* The two buttons of the form for a code (PasswordlessEmailLoginForm.tsx 30-52).
CodeForm == showCode /\ ~passwordlessBusy

-----------------------------------------------------------------------------
(* The view *)

Turn(email, code) ==
  /\ showEmail' = email /\ showCode' = code
  /\ UNCHANGED <<props, link, challenge, busy, script, task>>

\* openEmailLogin and the way back (278-290, 326-333).
OpenEmail == ~inline /\ ProviderButtons /\ Turn(TRUE, FALSE)

BackToOptions == ~inline /\ EmailShown /\ Turn(FALSE, FALSE)

\* The form for a code is opened and left; then the effect for inline forms sets what
\* the button has just set (116-122, 311-319, 389-396).
OpenPasswordless == EmailShown /\ Turn(inline, TRUE)

LeavePasswordless == showCode /\ Turn(inline, FALSE)

-----------------------------------------------------------------------------
(* Handlers *)

Start(h, step) == task[h] = "idle" /\ task' = [task EXCEPT ![h] = step]

\* completeTokenLogin (138-145).
SendToken(h) ==
  /\ due /\ sent < MaxSent /\ Start(h, "token")
  /\ due' = FALSE /\ sent' = sent + 1
  /\ UNCHANGED <<props, view, challenge, busy, script>>

\* The host renders the panel with a new value of what the effect depends on: onError or
\* transformError (130-134), onAuthenticated, the return url or the tenant; textOverrides,
\* of which loginText is made (85); or the provider's api or storage, by which the functions
\* of usePasswordlessEmailLogin and setSession are made anew (84).  The state of the panel
\* and the session are not among it.  The token is then sent a second time, and its refusal
\* ends the session that the first one brought (usePasswordlessEmailLogin.ts 12).
Rerender ==
  /\ ~stable /\ sent > 0 /\ due' = TRUE
  /\ UNCHANGED <<props, sent, view, challenge, busy, script, task>>

\* submitPasswordLogin (165-187, 306).
SubmitPassword(h) ==
  /\ EmailShown /\ ~isSubmitting /\ Start(h, "password")
  /\ isSubmitting' = TRUE
  /\ UNCHANGED <<props, link, view, challenge, passwordlessBusy, busyProvider, script>>

\* Variant: the buttons are not disabled.
Passwordless_Unguarded(h, step) ==
  /\ showCode /\ Start(h, step)
  /\ passwordlessBusy' = TRUE
  /\ UNCHANGED <<props, link, view, challenge, isSubmitting, busyProvider, script>>

\* requestPasswordlessCode and completePasswordlessCode (238-242, 256-265).
Passwordless(h, step) ==
  /\ CodeForm /\ Start(h, step)
  /\ passwordlessBusy' = TRUE
  /\ UNCHANGED <<props, link, view, challenge, isSubmitting, busyProvider, script>>

RequestCode(h) == Passwordless(h, "begin")
CompleteCode(h) == challenge /\ Passwordless(h, "complete")

\* runProviderLogin up to its first await (196-205, 223-236): Apple's script may have to
\* be loaded first, and an element that is there is waited for (Apple 23-31).
RunProviderLogin(h, p) ==
  /\ ProviderButtons
  /\ busyProvider' = p
  /\ Start(h, CASE p = "Google" -> "external"
                [] p = "Microsoft" \/ script = "loaded" -> "popup"
                [] OTHER -> "script")
  /\ script' = IF p = "Apple" /\ script = "absent" THEN "loading" ELSE script
  /\ UNCHANGED <<props, link, view, challenge, isSubmitting, passwordlessBusy>>

-----------------------------------------------------------------------------
(* Answers *)

End(h) == task' = [task EXCEPT ![h] = "idle"]

\* Of the token, whether it is accepted or not (145-156).
TokenAnswered(h) ==
  /\ task[h] = "token" /\ End(h)
  /\ UNCHANGED <<props, link, view, challenge, busy, script>>

\* (187-193)
PasswordAnswered(h) ==
  /\ task[h] = "password" /\ End(h)
  /\ isSubmitting' = FALSE
  /\ UNCHANGED <<props, link, view, challenge, passwordlessBusy, busyProvider, script>>

\* A code was sent, or not; it was right or not (242-254, 265-276).
CodeAnswered(h) ==
  /\ task[h] \in {"begin", "complete"} /\ End(h)
  /\ passwordlessBusy' = FALSE
  /\ challenge' \in IF task[h] = "begin" THEN BOOLEAN ELSE {challenge}
  /\ UNCHANGED <<props, link, view, isSubmitting, busyProvider, script>>

\* Variant: an error of the script is not passed on.
ScriptSettles_Quietly(h) ==
  /\ task[h] = "script" /\ script = "loading"
  /\ script' = "loaded"
  /\ task' = [task EXCEPT ![h] = "idle"]
  /\ UNCHANGED <<props, link, view, challenge, busy>>

\* The script loads, or it does not and the flow ends (Apple 23-43); the element stays,
\* and nobody is told twice.
ScriptSettles(h) ==
  /\ task[h] = "script" /\ script = "loading"
  /\ \/ /\ script' = "loaded"
        /\ task' = [task EXCEPT ![h] = "popup"]
        /\ UNCHANGED busyProvider
     \/ /\ script' = "failed"
        /\ End(h)
        /\ busyProvider' = Null
  /\ UNCHANGED <<props, link, view, challenge, isSubmitting, passwordlessBusy>>

\* The popup brings a credential (205-206).
PopupAnswered(h) ==
  /\ task[h] = "popup"
  /\ task' = [task EXCEPT ![h] = "external"]
  /\ UNCHANGED <<props, link, view, challenge, busy, script>>

\* (206-220)
ProviderEnds(h) ==
  /\ task[h] \in {"popup", "external"} /\ End(h)
  /\ busyProvider' = Null
  /\ UNCHANGED <<props, link, view, challenge, isSubmitting, passwordlessBusy, script>>

-----------------------------------------------------------------------------
Ask(h) ==
  \/ SendToken(h) \/ SubmitPassword(h) \/ RequestCode(h) \/ CompleteCode(h)
  \/ \E p \in Providers : RunProviderLogin(h, p)

Answer(h) ==
  \/ TokenAnswered(h) \/ PasswordAnswered(h) \/ CodeAnswered(h)
  \/ ScriptSettles(h) \/ PopupAnswered(h) \/ ProviderEnds(h)

Next ==
  \/ OpenEmail \/ BackToOptions \/ OpenPasswordless \/ LeavePasswordless \/ Rerender
  \/ \E h \in Handlers : Ask(h) \/ Answer(h)

Spec == Init /\ [][Next]_vars

\* Requests time out, popups are closed and the browser settles the load of a script.
Fairness == \A h \in Handlers : WF_vars(Answer(h))

FairSpec == Spec /\ Fairness

-----------------------------------------------------------------------------
(* Properties *)

\* One password login, one request of the code form and one flow with a provider run at a
\* time, although the view can be changed under them (202, 306, 403).
LoginsAlone ==
  \A g, h \in Handlers :
    \A flow \in {{"password"}, {"begin", "complete"}, {"script", "popup", "external"}} :
      task[g] \in flow /\ task[h] \in flow => g = h

\* "Apple sign-in could not be loaded." (Apple 30, 41): a sign-in whose script fails ends with
\* that error, the second one as well as the first.
FailedScriptIsReported == busyProvider = "Apple" ~> busyProvider # "Apple"

\* Whatever overlaps, the buttons come back (192, 219, 253, 275), unless Apple's script
\* failed before.
Flags == <<isSubmitting, passwordlessBusy, busyProvider # Null /\ script # "failed">>
BusyEnds == \A i \in 1..3 : Flags[i] ~> ~Flags[i]

=============================================================================
