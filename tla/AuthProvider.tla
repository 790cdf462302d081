---------------------------- MODULE AuthProvider ----------------------------
(***************************************************************************)
(* The React session provider (context/AuthContext.tsx) running in several *)
(* browser tabs of one origin.  The tabs share localStorage, hear of each  *)
(* other's writes through storage events, and exchange rotating refresh    *)
(* tokens with one server.  Every point at which JavaScript gives up       *)
(* control is a state: a queued lock request, an answer on its way, a      *)
(* render that is due, a passive effect that has not run.  Code between    *)
(* two such points is one action.                                          *)
(*                                                                         *)
(* When a refresh starts is left open here: a tab may start one whenever   *)
(* it has none in flight.  RefreshSchedule has the timers and the back-off *)
(* that decide it.  The `loading` flag is not modelled.                    *)
(*                                                                         *)
(* A session is an identity: it stands for an access token and the refresh *)
(* token issued with it, which is all that sameSession (69-70) compares.   *)
(***************************************************************************)
EXTENDS Naturals, FiniteSets

CONSTANTS
  Tabs,            \* browser tabs that mount the provider
  Sessions,        \* sessions the server can issue; finite, so a bound
  Null,            \* no session
  NoEffect,        \* no passive effect is waiting to run
  WebLocks,        \* navigator.locks exists (162)
  MayLeave         \* tabs whose provider may be unmounted or whose tab may be closed

ASSUME ConstantsOK ==
  /\ Null \notin Sessions
  /\ NoEffect \notin Sessions \cup {Null}
  /\ WebLocks \in BOOLEAN
  /\ MayLeave \subseteq Tabs

VARIABLES
  storage,     \* the session in localStorage
  event,       \* tab -> how many storage events are queued for it
  mounted,     \* tab -> mountedRef
  listening,   \* tab -> the effect that adds the `storage` listener has run
  session,     \* tab -> the React state `session`, as last set
  renderDue,   \* tab -> a state update is not rendered yet
  effect,      \* tab -> the committed session whose passive effect is due
  ref,         \* tab -> sessionRef
  call,        \* tab -> progress of the call held by refreshInFlightRef
  about,       \* tab -> `original` while queued, `current` once sent
  valid,       \* tab -> the generation the call captured is still current
  reply,       \* tab -> what came back for the request that was sent
  fate,        \* session -> what became of its refresh token on the server
  missed,      \* history: tab -> it lost an event and shows what storage had before
  disturbed    \* history: tab -> it heard a storage event during the call

tabVars    == <<mounted, listening, missed>>
reactVars  == <<session, renderDue, effect>>
callVars   == <<call, about, valid, reply, disturbed>>
vars == <<storage, event, tabVars, reactVars, ref, callVars, fate>>

Session == Sessions \cup {Null}

\* What became of a refresh token: "rotated" while some tab can still learn its
\* replacement, "ended" when it expired or was revoked, and once no tab can learn the
\* replacement any more, how that came about: "lost" when no running provider got the
\* answer, "lapsed" when the client's clock took the new session for expired,
\* "overtaken" when a storage event came before the answer, "dropped" when a provider
\* threw the answer away for another reason.
Fates == {"unused", "live", "rotated", "ended", "lost", "lapsed", "overtaken", "dropped"}

Replies == [kind: {"none", "waiting", "ok", "reject", "transient"}, new: Session]
Reply(kind) == [kind |-> kind, new |-> Null]

TypeOK ==
  /\ storage \in Session
  /\ event \in [Tabs -> Nat]
  /\ mounted \in [Tabs -> BOOLEAN]
  /\ listening \in [Tabs -> BOOLEAN]
  /\ session \in [Tabs -> Session]
  /\ renderDue \in [Tabs -> BOOLEAN]
  /\ effect \in [Tabs -> Session \cup {NoEffect}]
  /\ ref \in [Tabs -> Session]
  /\ call \in [Tabs -> {"idle", "queued", "sent"}]
  /\ about \in [Tabs -> Session]
  /\ valid \in [Tabs -> BOOLEAN]
  /\ reply \in [Tabs -> Replies]
  /\ fate \in [Sessions -> Fates]
  /\ missed \in [Tabs -> BOOLEAN]
  /\ disturbed \in [Tabs -> BOOLEAN]

Unused == {s \in Sessions : fate[s] = "unused"}
Live   == {s \in Sessions : fate[s] = "live"}

-----------------------------------------------------------------------------
(***************************************************************************)
(* Helpers that several handlers call.                                     *)
(***************************************************************************)

\* localStorage.setItem: the browser queues an event for every other tab if the value
\* changed, whether or not somebody listens there.
Store(t, next) ==
  /\ storage' = next
  /\ event' = [u \in Tabs |->
                 event[u] + (IF u # t /\ next # storage THEN 1 ELSE 0)]

\* setSessionState: React bails out when the state stays null.
SetSessionState(t, next) ==
  /\ session' = [session EXCEPT ![t] = next]
  /\ renderDue' = [renderDue EXCEPT ![t] = @ \/ next # Null \/ session[t] # Null]

\* Variant: setSession forgets storage.set (111).
SetSession_InMemory(t, next) ==
  /\ valid' = [valid EXCEPT ![t] = FALSE]
  /\ ref' = [ref EXCEPT ![t] = next]
  /\ SetSessionState(t, next)
  /\ UNCHANGED <<storage, event, missed>>

\* setSession (103-112).  A new generation invalidates the call in flight.
SetSession(t, next) ==
  /\ valid' = [valid EXCEPT ![t] = FALSE]
  /\ ref' = [ref EXCEPT ![t] = next]
  /\ SetSessionState(t, next)
  /\ Store(t, next)
  /\ missed' = [missed EXCEPT ![t] = FALSE]

\* currentRequest (119).
CurrentRequest(t) == mounted[t] /\ valid[t]

\* Variant: storage is not compared with the session of the call.
StorageUnchanged_Assumed(t) == TRUE

\* Storage still holds the session the call was made for (124, 135).
StorageUnchanged(t) == storage = about[t]

\* The call's promise settles; refreshInFlightRef is cleared (165-167).
Settle(t) ==
  /\ call' = [call EXCEPT ![t] = "idle"]
  /\ about' = [about EXCEPT ![t] = Null]
  /\ valid' = [valid EXCEPT ![t] = FALSE]
  /\ reply' = [reply EXCEPT ![t] = Reply("none")]
  /\ disturbed' = [disturbed EXCEPT ![t] = FALSE]

-----------------------------------------------------------------------------
\* Every tab has rendered its provider (83-94); no effect has run.
Init ==
  /\ storage \in Session
  /\ event = [t \in Tabs |-> 0]
  /\ mounted = [t \in Tabs |-> TRUE]
  /\ listening = [t \in Tabs |-> FALSE]
  /\ session = [t \in Tabs |-> storage]
  /\ renderDue = [t \in Tabs |-> FALSE]
  /\ effect = [t \in Tabs |-> storage]
  /\ ref = [t \in Tabs |-> storage]
  /\ call = [t \in Tabs |-> "idle"]
  /\ about = [t \in Tabs |-> Null]
  /\ valid = [t \in Tabs |-> FALSE]
  /\ reply = [t \in Tabs |-> Reply("none")]
  /\ fate = [s \in Sessions |-> IF s = storage THEN "live" ELSE "unused"]
  /\ missed = [t \in Tabs |-> FALSE]
  /\ disturbed = [t \in Tabs |-> FALSE]

-----------------------------------------------------------------------------
(***************************************************************************)
(* A refresh, up to the request.                                           *)
(***************************************************************************)

\* refreshSession (114-118, 160-169), for a timer, a host or a resume.  While a
\* call is in flight its promise is returned (115) and nothing changes.
RefreshSession(t) ==
  /\ mounted[t]
  /\ call[t] = "idle"
  /\ call' = [call EXCEPT ![t] = "queued"]
  /\ about' = [about EXCEPT ![t] = ref[t]]
  /\ valid' = [valid EXCEPT ![t] = TRUE]
  /\ UNCHANGED <<storage, event, tabVars, reactVars, ref, reply, disturbed, fate>>

\* Variant: run without the lock although the browser has it.
LockGranted_Unasked(t) == call[t] = "queued"

\* The lock is held from the first step of run (120) until the call settles:
\* the tab whose call is "sent" holds it.
LockGranted(t) ==
  /\ call[t] = "queued"
  /\ WebLocks => \A u \in Tabs : call[u] # "sent"

\* The generation moved on while the call was queued (121), or this tab has no
\* session although storage agrees with the call (128-129).
RunGivesUp(t) ==
  /\ LockGranted(t)
  /\ CurrentRequest(t) => StorageUnchanged(t) /\ ref[t] = Null
  /\ Settle(t)
  /\ UNCHANGED <<storage, event, tabVars, reactVars, ref, fate>>

\* Another tab changed the session while this one waited for the lock (123-126).
RunAdopts(t) ==
  /\ LockGranted(t)
  /\ CurrentRequest(t)
  /\ ~StorageUnchanged(t)
  /\ SetSession(t, storage)
  /\ Settle(t)
  /\ UNCHANGED <<mounted, listening, effect, fate>>

\* api.refresh with the token of sessionRef (128-133).
RunSends(t) ==
  /\ LockGranted(t)
  /\ CurrentRequest(t)
  /\ StorageUnchanged(t)
  /\ ref[t] # Null
  /\ call' = [call EXCEPT ![t] = "sent"]
  /\ about' = [about EXCEPT ![t] = ref[t]]
  /\ reply' = [reply EXCEPT ![t] = Reply("waiting")]
  /\ UNCHANGED <<storage, event, tabVars, reactVars, ref, valid, disturbed, fate>>

\* navigator.locks.request rejects (162-164).
LockRefused(t) ==
  /\ WebLocks
  /\ call[t] = "queued"
  /\ Settle(t)
  /\ UNCHANGED <<storage, event, tabVars, reactVars, ref, fate>>

-----------------------------------------------------------------------------
(***************************************************************************)
(* The server and the network.  A request is served at most once.  It, or  *)
(* its answer, may be lost, and a request may be served after its client   *)
(* has stopped waiting: that is the same as being served when the client   *)
(* gives up, unless the token is used in between, when it has no effect.   *)
(***************************************************************************)

\* DefaultAuthOrchestrator.RefreshAsync over a store that rotates atomically:
\* a live token is exchanged for a new one, any other is refused.
ServerRefreshes(t) ==
  /\ reply[t].kind = "waiting"
  /\ \/ /\ fate[about[t]] = "live"
        /\ \E new \in Unused :
             /\ fate' = [fate EXCEPT ![about[t]] = "rotated", ![new] = "live"]
             /\ reply' = [reply EXCEPT ![t] = [kind |-> "ok", new |-> new]]
     \/ /\ fate[about[t]] # "live"
        /\ reply' = [reply EXCEPT ![t] = Reply("reject")]
        /\ UNCHANGED fate
  /\ UNCHANGED <<storage, event, tabVars, reactVars, ref, call, about, valid, disturbed>>

\* The request is served, and nobody waits for the answer.
ServedInVain(t) ==
  /\ reply[t].kind = "waiting"
  /\ fate[about[t]] = "live"
  /\ fate' = [fate EXCEPT ![about[t]] = "lost"]

\* An answer that is not applied takes the only copy of its replacement with it.
DropAnswer(t, how) ==
  fate' = IF reply[t].kind = "ok" THEN [fate EXCEPT ![about[t]] = how] ELSE fate

\* The tab gets nothing it can use: a network error, the 30 s time-out of
\* createAuthApi.post, a status that proves nothing.  The request never
\* arrives, or it is served and the answer is lost.
AnswerLost(t) ==
  /\ reply[t].kind \in {"waiting", "ok"}
  /\ DropAnswer(t, "lost") \/ ServedInVain(t)
  /\ reply' = [reply EXCEPT ![t] = Reply("transient")]
  /\ UNCHANGED <<storage, event, tabVars, reactVars, ref, call, about, valid, disturbed>>

\* The token expires, the host revokes it or a logout request reaches LogoutAsync.
ServerEnds ==
  \E s \in Live :
    /\ fate' = [fate EXCEPT ![s] = "ended"]
    /\ UNCHANGED <<storage, event, tabVars, reactVars, ref, callVars>>

-----------------------------------------------------------------------------
(***************************************************************************)
(* run (134-149): what a tab makes of the answer.                          *)
(***************************************************************************)
Answered(t) == call[t] = "sent" /\ reply[t].kind # "waiting"

\* Why the call is obsolete.
Obsolete(t) ==
  IF ~mounted[t] THEN "lost" ELSE IF disturbed[t] THEN "overtaken" ELSE "dropped"

\* Variant: the early return leaves refreshInFlightRef set.
IgnoreAnswer_Unsettled(t) ==
  /\ Answered(t)
  /\ ~CurrentRequest(t)
  /\ DropAnswer(t, Obsolete(t))
  /\ UNCHANGED <<storage, event, tabVars, reactVars, ref, callVars>>

\* The session changed, or the provider is gone (134).
IgnoreAnswer(t) ==
  /\ Answered(t)
  /\ ~CurrentRequest(t)
  /\ Settle(t)
  /\ DropAnswer(t, Obsolete(t))
  /\ UNCHANGED <<storage, event, tabVars, reactVars, ref>>

\* Another tab changed storage and the event is not here yet (135).
YieldToStorage(t) ==
  /\ Answered(t)
  /\ CurrentRequest(t)
  /\ ~StorageUnchanged(t)
  /\ SetSession(t, storage)
  /\ Settle(t)
  /\ DropAnswer(t, "dropped")
  /\ UNCHANGED <<mounted, listening, effect>>

\* A new session (136-139).
ApplyAnswer(t) ==
  /\ Answered(t)
  /\ CurrentRequest(t)
  /\ StorageUnchanged(t)
  /\ reply[t].kind = "ok"
  /\ SetSession(t, reply[t].new)
  /\ Settle(t)
  /\ UNCHANGED <<mounted, listening, effect, fate>>

\* The server refuses the token (140-143).
TerminalAnswer(t) ==
  /\ Answered(t)
  /\ CurrentRequest(t)
  /\ StorageUnchanged(t)
  /\ reply[t].kind = "reject"
  /\ SetSession(t, Null)
  /\ Settle(t)
  /\ UNCHANGED <<mounted, listening, effect, fate>>

\* A failure that proves nothing, or a new session that this tab's clock takes
\* for expired (136, 144-146): defer keeps the session for a later retry.
DeferAnswer(t) ==
  /\ Answered(t)
  /\ CurrentRequest(t)
  /\ StorageUnchanged(t)
  /\ reply[t].kind \in {"transient", "ok"}
  /\ Settle(t)
  /\ DropAnswer(t, "lapsed")
  /\ UNCHANGED <<storage, event, tabVars, reactVars, ref>>

-----------------------------------------------------------------------------
(***************************************************************************)
(* React.  A render commits the latest state; the passive effect of a      *)
(* commit runs later, but before the next render.                          *)
(***************************************************************************)
Commit(t) ==
  /\ renderDue[t]
  /\ effect[t] = NoEffect
  /\ effect' = [effect EXCEPT ![t] = session[t]]
  /\ renderDue' = [renderDue EXCEPT ![t] = FALSE]
  /\ UNCHANGED <<storage, event, tabVars, session, ref, callVars, fate>>

\* Variant: the effect runs although no commit has one due.
RunEffect_Unasked(t) ==
  /\ ref' = [ref EXCEPT ![t] = effect[t]]
  /\ effect' = [effect EXCEPT ![t] = NoEffect]
  /\ listening' = [listening EXCEPT ![t] = TRUE]
  /\ UNCHANGED <<storage, event, mounted, missed, session, renderDue, callVars, fate>>

\* The effects of a commit: sessionRef takes the session of the commit (185-188),
\* which an update that is not rendered yet may have replaced, and those of the first
\* commit add the listeners (197-214).
RunEffect(t) ==
  /\ effect[t] # NoEffect
  /\ ref' = [ref EXCEPT ![t] = effect[t]]
  /\ effect' = [effect EXCEPT ![t] = NoEffect]
  /\ listening' = [listening EXCEPT ![t] = TRUE]
  /\ UNCHANGED <<storage, event, mounted, missed, session, renderDue, callVars, fate>>

\* A queued event is taken from the queue.
TakeEvent(t) ==
  /\ event[t] > 0
  /\ event' = [event EXCEPT ![t] = @ - 1]

\* Variant: an event that finds a refresh in flight is left to the refresh.
OnStorage_UnlessBusy(t) ==
  /\ listening[t]
  /\ TakeEvent(t)
  /\ IF call[t] = "idle"
     THEN SetSessionState(t, storage) /\ ref' = [ref EXCEPT ![t] = storage]
     ELSE UNCHANGED <<session, renderDue, ref>>
  /\ UNCHANGED <<storage, tabVars, effect, callVars, fate>>

\* onStorage (199-205).
OnStorage(t) ==
  /\ listening[t]
  /\ TakeEvent(t)
  /\ valid' = [valid EXCEPT ![t] = FALSE]
  /\ SetSessionState(t, storage)
  /\ ref' = [ref EXCEPT ![t] = storage]
  /\ missed' = [missed EXCEPT ![t] = FALSE]
  /\ disturbed' = [disturbed EXCEPT ![t] = call[t] # "idle"]
  /\ UNCHANGED <<storage, mounted, listening, effect, call, about, reply, fate>>

\* An event that comes before the effect of the first commit, or when there is no
\* provider, finds no listener.
EventUnheard(t) ==
  /\ ~listening[t]
  /\ TakeEvent(t)
  /\ missed' = [missed EXCEPT ![t] = @ \/ (mounted[t] /\ session[t] # storage)]
  /\ UNCHANGED <<storage, mounted, listening, reactVars, ref, callVars, fate>>

-----------------------------------------------------------------------------
(***************************************************************************)
(* The user and the host application.                                      *)
(***************************************************************************)

\* login, externalLogin and externalSignup (225-243), when the answer arrives.
Login(t) ==
  /\ mounted[t]
  /\ \E new \in Unused :
       /\ fate' = [fate EXCEPT ![new] = "live"]
       /\ SetSession(t, new)
  /\ UNCHANGED <<mounted, listening, effect, call, about, reply, disturbed>>

\* logout (245-254): the local session goes first, then a request that the
\* server may get (ServerEnds).
Logout(t) ==
  /\ mounted[t]
  /\ SetSession(t, Null)
  /\ UNCHANGED <<mounted, listening, effect, call, about, reply, disturbed, fate>>

\* What an unmounted provider leaves: no listener, no state, no effect.  Events that
\* are queued for the page stay queued.
Leave(t) ==
  /\ t \in MayLeave
  /\ mounted' = [mounted EXCEPT ![t] = FALSE]
  /\ listening' = [listening EXCEPT ![t] = FALSE]
  /\ missed' = [missed EXCEPT ![t] = FALSE]
  /\ session' = [session EXCEPT ![t] = Null]
  /\ renderDue' = [renderDue EXCEPT ![t] = FALSE]
  /\ effect' = [effect EXCEPT ![t] = NoEffect]
  /\ ref' = [ref EXCEPT ![t] = Null]

\* The effect cleanup (215-222), after the effects that are due: the call in flight
\* goes on and keeps the lock.
Unmount(t) ==
  /\ mounted[t]
  /\ effect[t] = NoEffect
  /\ Leave(t)
  /\ valid' = [valid EXCEPT ![t] = FALSE]
  /\ UNCHANGED <<storage, event, call, about, reply, disturbed, fate>>

\* The browser closes the tab: the lock is free again, a request may live on.
CloseTab(t) ==
  /\ call[t] # "idle" \/ mounted[t]
  /\ Leave(t)
  /\ event' = [event EXCEPT ![t] = 0]
  /\ Settle(t)
  /\ DropAnswer(t, "lost") \/ ServedInVain(t)
  /\ UNCHANGED storage

\* A provider renders (83-94): it reads storage, and listens once its effects have run.
Mount(t) ==
  /\ ~mounted[t]
  /\ call[t] = "idle"
  /\ mounted' = [mounted EXCEPT ![t] = TRUE]
  /\ session' = [session EXCEPT ![t] = storage]
  /\ ref' = [ref EXCEPT ![t] = storage]
  /\ effect' = [effect EXCEPT ![t] = storage]
  /\ UNCHANGED <<storage, event, listening, missed, renderDue, callVars, fate>>

-----------------------------------------------------------------------------
Run(t) == RunGivesUp(t) \/ RunAdopts(t) \/ RunSends(t)

HandleAnswer(t) ==
  \/ IgnoreAnswer(t)
  \/ YieldToStorage(t)
  \/ ApplyAnswer(t)
  \/ TerminalAnswer(t)
  \/ DeferAnswer(t)

TabStep(t) ==
  \/ RefreshSession(t) \/ Run(t) \/ LockRefused(t)
  \/ ServerRefreshes(t) \/ AnswerLost(t) \/ HandleAnswer(t)
  \/ Commit(t) \/ RunEffect(t) \/ OnStorage(t) \/ EventUnheard(t)
  \/ Login(t) \/ Logout(t)
  \/ Unmount(t) \/ CloseTab(t) \/ Mount(t)

Next ==
  \/ \E t \in Tabs : TabStep(t)
  \/ ServerEnds

Spec == Init /\ [][Next]_vars

\* Web Locks are granted in the order they were asked for, so a queued call gets
\* its turn although other calls keep taking the lock (SF); a request is answered
\* or times out; the event loop runs tasks, renders and effects that are due.
Fairness ==
  \A t \in Tabs :
    /\ SF_vars(Run(t))
    /\ WF_vars(ServerRefreshes(t) \/ AnswerLost(t))
    /\ WF_vars(HandleAnswer(t))
    /\ WF_vars(Commit(t))
    /\ WF_vars(RunEffect(t))
    /\ WF_vars(OnStorage(t) \/ EventUnheard(t))

FairSpec == Spec /\ Fairness

-----------------------------------------------------------------------------
(***************************************************************************)
(* Properties.                                                             *)
(***************************************************************************)

\* Once the origin is signed out, in whichever tab, only a login signs it in
\* again: no refresh that was queued, sent or answered before the logout writes a
\* session back, although the tab that refreshes may not have heard of the logout
\* (docs/refresh-resilience.md:9).
NoResurrection ==
  [][storage = Null /\ storage' # Null => \E t \in Tabs : Login(t)]_vars

\* No provider throws away the answer that storage depends on.  If the server has
\* rotated the token of the stored session, then the answer with its replacement still
\* waits in some tab, or it never reached a running provider ("lost"), or its session
\* looked expired to the client (136, "lapsed"), or the tab heard a storage event
\* while it waited for it (201, "overtaken").  A login, a logout, an adoption or a
\* write that another tab makes during the request leaves no stored session behind
\* whose token is spent.
StoredTokenUsable ==
  storage # Null =>
    \/ fate[storage] \in {"live", "ended", "lost", "lapsed", "overtaken"}
    \/ /\ fate[storage] = "rotated"
       /\ \E t \in Tabs : about[t] = storage /\ reply[t].kind = "ok"

\* With Web Locks the session disappears only when the user logs out or when its
\* token is really finished: it expired or was revoked, or its replacement was lost
\* in one of the three ways StoredTokenUsable names.  A tab never logs the others out
\* because one of them used the token first.
NoFalseLogout ==
  [][storage # Null /\ storage' = Null =>
       \/ \E t \in Tabs : Logout(t)
       \/ fate[storage] \in {"ended", "lost", "lapsed", "overtaken"}]_vars

\* A tab that has handled its storage events has the stored session as its state,
\* and sessionRef differs from it only until the effects that are due have run
\* (the effect at 185-188 writes sessionRef from a commit that may be out of date).
\* The exception is a tab that missed a write because its provider had read storage
\* (83) and did not listen yet (212).
TabsAgree ==
  \A t \in Tabs : mounted[t] /\ event[t] = 0 /\ ~missed[t] =>
    /\ session[t] = storage
    /\ ~renderDue[t] /\ effect[t] = NoEffect => ref[t] = storage

\* A tab that missed a write finds out with its next refresh: a call that gets the
\* lock and ends with nothing due and the generation it began with leaves the tab with
\* the stored session, although nobody told the tab of it.
RefreshCatchesUp ==
  [][\A t \in Tabs :
       /\ call[t] # "idle" /\ CurrentRequest(t)
       /\ ~renderDue[t] /\ effect[t] = NoEffect
       /\ call'[t] = "idle" /\ mounted'[t] /\ ~LockRefused(t)
       => session'[t] = storage']_vars

\* Every refreshSession() settles: whatever happens to the lock, the request, the
\* session and the other tabs, refreshInFlightRef is cleared in the end.  A call
\* that stayed would swallow every later refresh (115).
RefreshReturns == \A t \in Tabs : call[t] # "idle" ~> call[t] = "idle"

\* A logout in one tab reaches every tab, unless somebody signs in again or the tab
\* was rendering its provider for the first time and missed the event.
LogoutReachesTabs ==
  \A t \in Tabs : storage = Null ~> ref[t] = Null \/ storage # Null \/ missed[t]

=============================================================================
