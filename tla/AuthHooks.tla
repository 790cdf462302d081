----------------------------- MODULE AuthHooks ------------------------------
(***************************************************************************)
(* The exported hooks that talk to the API themselves and hand the result  *)
(* to setSession: useRefreshToken, useLogin, useExternalLogin,             *)
(* useExternalSignup, usePasswordlessEmailLogin.complete and useLogout.    *)
(* They know nothing of generations, of the Web Lock or of storage.        *)
(***************************************************************************)
EXTENDS AuthProvider

CONSTANT
  HookTabs     \* tabs whose host uses the hooks

VARIABLE
  pending      \* tab -> the request a hook is waiting for

hookVars == <<vars, pending>>

\* `token` is the session whose refresh token useRefreshToken sent; `served` is
\* the session the server issued for it, if it did.
NoRequest == [kind |-> "none", token |-> Null, served |-> Null]
Requests == [kind: {"none", "refresh", "login", "logout"}, token: Session, served: Session]

HookTypeOK == TypeOK /\ pending \in [Tabs -> Requests]

HookInit == Init /\ pending = [t \in Tabs |-> NoRequest]

\* A provider step; requests of a provider that goes away are not followed.
ProviderStep ==
  /\ Next
  /\ pending' = [t \in Tabs |-> IF mounted'[t] THEN pending[t] ELSE NoRequest]

\* The host awaits one of the hooks.
HookStarts(t) ==
  /\ t \in HookTabs
  /\ mounted[t]
  /\ pending[t] = NoRequest
  /\ \/ /\ session[t] # Null
        /\ pending' = [pending EXCEPT ![t].kind = "refresh", ![t].token = session[t]]
     \/ \E kind \in {"login", "logout"} : pending' = [pending EXCEPT ![t].kind = kind]
  /\ UNCHANGED vars

\* The server exchanges the token useRefreshToken sent.
HookRefreshServed(t) ==
  /\ pending[t].kind = "refresh"
  /\ pending[t].served = Null
  /\ fate[pending[t].token] = "live"
  /\ \E new \in Unused :
       /\ fate' = [fate EXCEPT ![pending[t].token] = "rotated", ![new] = "live"]
       /\ pending' = [pending EXCEPT ![t].served = new]
  /\ UNCHANGED <<storage, event, tabVars, reactVars, ref, callVars>>

\* The hook's await ends, and its last statement is setSession(next).
HookSets(t, next) ==
  /\ pending' = [pending EXCEPT ![t] = NoRequest]
  /\ SetSession(t, next)
  /\ UNCHANGED <<mounted, listening, effect, call, about, reply, disturbed>>

\* useRefreshToken (8-9): the new session if there is one, else none, whatever
\* became of the stored session and whatever went wrong.
HookRefreshEnds(t) ==
  /\ pending[t].kind = "refresh"
  /\ \/ pending[t].served # Null /\ HookSets(t, pending[t].served)
     \/ HookSets(t, Null)
  /\ UNCHANGED fate

\* useLogin and its like: a failed attempt ends the session there was.
HookLoginEnds(t) ==
  /\ pending[t].kind = "login"
  /\ \/ \E new \in Unused :
          HookSets(t, new) /\ fate' = [fate EXCEPT ![new] = "live"]
     \/ HookSets(t, Null) /\ UNCHANGED fate

\* useLogout (7-8): the session stays until the server has answered.
HookLogoutEnds(t) ==
  /\ pending[t].kind = "logout"
  /\ HookSets(t, Null)
  /\ UNCHANGED fate

HookNext ==
  \/ ProviderStep
  \/ \E t \in Tabs :
       \/ HookStarts(t) \/ HookRefreshServed(t)
       \/ HookRefreshEnds(t) \/ HookLoginEnds(t) \/ HookLogoutEnds(t)

HookSpec == HookInit /\ [][HookNext]_hookVars

-----------------------------------------------------------------------------
(***************************************************************************)
(* Properties.                                                             *)
(***************************************************************************)

\* docs/refresh-resilience.md:9: "In-flight responses cannot restore sessions
\* after logout, explicit replacement, storage changes or unmount."  So only a
\* login makes a session appear in an origin that is signed out.
InFlightResponsesCannotRestore ==
  [][storage = Null /\ storage' # Null =>
       \E t \in Tabs : Login(t) \/ HookLoginEnds(t)]_hookVars

=============================================================================
