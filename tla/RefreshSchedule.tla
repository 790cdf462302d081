--------------------------- MODULE RefreshSchedule --------------------------
(***************************************************************************)
(* When the session provider of a tab (context/AuthContext.tsx) refreshes: *)
(* the refresh timer, the bounded retries after a failure, Retry-After,    *)
(* the resume on focus and online, and the timer that ends the display of  *)
(* an expired session.                                                     *)
(*                                                                         *)
(* Time passes in ticks; a timer is the number of ticks it still has to    *)
(* run.  What is due (a render, a timer, the end of a request that has     *)
(* timed out) happens before the next tick.  AuthProvider has the order of *)
(* renders, effects and storage writes, and the other tabs: here a render  *)
(* and its effects are one step, the wait for a Web Lock takes no time,    *)
(* and a request that fails takes a tick.                                  *)
(***************************************************************************)
EXTENDS Naturals, Sequences, FiniteSets

CONSTANTS
  Lifetimes,      \* what an access token may have to live when it is issued
  MinDelay,       \* 5 s (181)
  Early,          \* refreshEarlyMs + clockSkewMs
  RetryDelays,    \* refreshRetryDelaysMs
  Fallback,       \* 30 s (156), the delay once the retries are used up
  RetryAfters,    \* Retry-After values of a failed answer; 0 is none
  CallTimeout,    \* requestTimeoutMs of createAuthApi
  MaxTimeout,     \* the longest delay of setTimeout, 2^31 - 1 ms
  MaxLoose,       \* timers left behind that may run at once, a bound
  UnstableProps,  \* the host passes a new api, callback or array in every render
  Off             \* no session, or a timer that does not run

ASSUME ConstantsOK ==
  /\ Lifetimes \subseteq Nat \ {0}
  /\ {MinDelay, Fallback, CallTimeout, MaxTimeout} \subseteq Nat \ {0}
  /\ Early \in Nat
  /\ RetryDelays \in Seq(Nat \ {0})
  /\ RetryAfters \subseteq Nat
  /\ MaxLoose \in Nat
  /\ UnstableProps \in BOOLEAN
  /\ Off \notin Nat

VARIABLES
  life,        \* ticks until the access token of `session` expires
  age,         \* ticks since that session arrived, up to MinDelay
  timer,       \* refreshTimerRef
  loose,       \* refresh timers that run although refreshTimerRef has lost them
  call,        \* the call held by refreshInFlightRef
  callAge,     \* ticks since it started
  failed,      \* failedRef
  retryIndex,  \* retryIndexRef, up to the number of RetryDelays
  retryAt,     \* ticks until retryAtRef
  due,         \* what changed since the last render
  shown,       \* isAuthenticated, as last rendered
  nowTimer,    \* the timer of the effect at 190-195
  attempts,    \* calls the timer started since the session, or a resume
  left         \* timers that defer left behind since the session

sessionVars == <<life, age>>
callVars == <<call, callAge>>
retryVars == <<failed, retryIndex, retryAt>>
renderVars == <<due, shown, nowTimer>>
countVars == <<attempts, left>>
vars == <<sessionVars, timer, loose, callVars, retryVars, renderVars, countVars>>

Larger(a, b) == IF a >= b THEN a ELSE b
Smaller(a, b) == IF a <= b THEN a ELSE b

\* "session": a new session; "now": setNow; "props": new props; "parent": a
\* render of the host that passes the same props.
Changes == {"session", "now", "props", "parent"}

Countdowns == Nat \cup {Off}

TypeOK ==
  /\ life \in Countdowns
  /\ age \in 0..MinDelay
  /\ timer \in Countdowns
  /\ call \in {"idle", "current", "obsolete"}
  /\ callAge \in 0..CallTimeout
  /\ failed \in BOOLEAN
  /\ retryIndex \in 0..Len(RetryDelays)
  /\ retryAt \in Nat
  /\ due \subseteq Changes
  /\ shown \in BOOLEAN
  /\ nowTimer \in Countdowns
  /\ loose \subseteq Nat
  /\ attempts \in Nat
  /\ left \in Nat

Authenticated == life \in Nat \ {0}

\* setTimeout with a delay it cannot hold fires at once (182 does not cap it).
SetTimeout(delay) == IF delay <= MaxTimeout THEN delay ELSE 0

\* A delay that is capped first (158, 193).
Capped(delay) == Smaller(delay, MaxTimeout)

\* A stored session may be of any age.
Init ==
  /\ life \in {Off} \cup UNION {0..n : n \in Lifetimes}
  /\ age = 0
  /\ timer = Off
  /\ call = "idle"
  /\ callAge = 0
  /\ failed = FALSE
  /\ retryIndex = 0
  /\ retryAt = 0
  /\ due = {"session"}
  /\ shown = Authenticated
  /\ nowTimer = Off
  /\ loose = {}
  /\ attempts = 0
  /\ left = 0

-----------------------------------------------------------------------------
(***************************************************************************)
(* The session changes.                                                    *)
(***************************************************************************)

\* What setSession and onStorage have in common.
NewSession(next) ==
  /\ life' = next
  /\ age' = 0
  /\ failed' = FALSE
  /\ retryIndex' = 0
  /\ due' = due \cup {"session", "now"}
  /\ attempts' = 0
  /\ left' = 0
  /\ UNCHANGED <<loose, retryAt, shown, nowTimer>>

\* A new generation (104, 201).
Invalidate ==
  /\ call' = IF call = "idle" THEN "idle" ELSE "obsolete"
  /\ UNCHANGED callAge

\* setSession (103-112) by a login, a logout or the host.
SetSession ==
  /\ \E next \in Lifetimes \cup {Off} : NewSession(next)
  /\ timer' = Off
  /\ Invalidate

\* onStorage (199-205): the refresh timer stays until the effect runs.
OnStorage ==
  /\ \E next \in Lifetimes \cup {Off} : NewSession(next)
  /\ Invalidate
  /\ UNCHANGED timer

-----------------------------------------------------------------------------
(***************************************************************************)
(* refreshSession.                                                         *)
(***************************************************************************)

\* refreshSession (114-118, 168) when no call is in flight.
StartCall ==
  /\ call = "idle"
  /\ call' = "current"
  /\ callAge' = 0
  /\ timer' = Off

\* Variant: the callback of the timer calls nothing.
TimerFires_Empty ==
  /\ timer = 0
  /\ timer' = Off
  /\ UNCHANGED <<sessionVars, loose, callVars, retryVars, renderVars, countVars>>

\* The timer (158, 182).  While a call is in flight nothing comes of it (115).
TimerFires ==
  /\ timer = 0
  /\ \/ StartCall /\ attempts' = attempts + 1
     \/ call # "idle" /\ timer' = Off /\ UNCHANGED <<callVars, attempts>>
  /\ UNCHANGED <<sessionVars, loose, retryVars, renderVars, left>>

\* A timer that was left behind fires: the call it starts clears the timer there is.
LooseTimerFires ==
  /\ 0 \in loose
  /\ loose' = loose \ {0}
  /\ StartCall \/ (call # "idle" /\ UNCHANGED <<callVars, timer>>)
  /\ UNCHANGED <<sessionVars, retryVars, renderVars, countVars>>

\* Variant: retryAt is not looked at.
Resume_Eager ==
  /\ life # Off /\ failed
  /\ retryIndex' = 0
  /\ attempts' = 0
  /\ StartCall \/ (call # "idle" /\ UNCHANGED <<callVars, timer>>)
  /\ UNCHANGED <<sessionVars, loose, failed, retryAt, renderVars, left>>

\* resume (206-210), on focus or online.
Resume ==
  /\ life # Off /\ failed /\ retryAt = 0
  /\ retryIndex' = 0
  /\ attempts' = 0
  /\ StartCall \/ (call # "idle" /\ UNCHANGED <<callVars, timer>>)
  /\ UNCHANGED <<sessionVars, loose, failed, retryAt, renderVars, left>>

\* The host calls refreshSession, for instance to switch tenants.
HostRefreshes ==
  /\ life # Off
  /\ StartCall
  /\ UNCHANGED <<sessionVars, loose, retryVars, renderVars, countVars>>

EndCall == call' = "idle" /\ UNCHANGED callAge

\* The answer brings a session (137), is terminal (143), or storage has another
\* one (125, 135).
CallReplaces ==
  /\ call = "current"
  /\ \E next \in Lifetimes \cup {Off} : NewSession(next)
  /\ timer' = Off
  /\ EndCall

\* The session changed since the call started (121, 134).
CallIgnored ==
  /\ call = "obsolete"
  /\ EndCall
  /\ UNCHANGED <<sessionVars, timer, loose, retryVars, renderVars, countVars>>

\* The timer is armed by assignment (157): one that runs already goes on, and nothing
\* can clear it any more, neither setSession nor the next call nor an unmount.
Rearm(delay) ==
  /\ timer' = Capped(delay)
  /\ IF timer = Off
     THEN UNCHANGED <<loose, left>>
     ELSE loose' = loose \cup {timer} /\ left' = left + 1

\* Variant: retryIndex is read and not advanced.
Defer_SameDelay(retryAfter) ==
  LET exhausted == retryIndex = Len(RetryDelays)
      delay == IF exhausted THEN Fallback ELSE RetryDelays[retryIndex + 1]
  IN /\ failed' = TRUE
     /\ due' = due \cup {"now"}
     /\ retryAt' = Larger(delay, retryAfter)
     /\ IF exhausted THEN UNCHANGED <<timer, loose, left>> ELSE Rearm(retryAt')
     /\ UNCHANGED retryIndex

\* Variant: the first failure arms no timer.
Defer_Unarmed(retryAfter) ==
  /\ due' = due \cup {"now"}
  /\ retryAt' = Larger(Fallback, retryAfter)
  /\ UNCHANGED <<failed, timer, loose, left, retryIndex>>

\* defer (152-159).
Defer(retryAfter) ==
  LET exhausted == retryIndex = Len(RetryDelays)
      delay == IF exhausted THEN Fallback ELSE RetryDelays[retryIndex + 1]
  IN /\ failed' = TRUE
     /\ due' = due \cup {"now"}
     /\ retryIndex' = IF exhausted THEN retryIndex ELSE retryIndex + 1
     /\ retryAt' = Larger(delay, retryAfter)
     /\ IF exhausted THEN UNCHANGED <<timer, loose, left>> ELSE Rearm(retryAt')

\* A failure that proves nothing (144-146, 163), after a tick at least.
CallFails ==
  /\ call = "current" /\ callAge # 0
  /\ timer # Off => Cardinality(loose) < MaxLoose
  /\ \E retryAfter \in RetryAfters : Defer(retryAfter)
  /\ EndCall
  /\ UNCHANGED <<sessionVars, shown, nowTimer, attempts>>

-----------------------------------------------------------------------------
(***************************************************************************)
(* Renders and time.                                                       *)
(***************************************************************************)

\* Variant: the delay is not kept above MinDelay.
ScheduleRefresh_AtOnce ==
  IF life = Off THEN Off
  ELSE SetTimeout(IF life > Early THEN life - Early ELSE 0)

\* scheduleRefresh (173-183).
ScheduleRefresh ==
  IF life = Off THEN Off
  ELSE SetTimeout(IF life > Early + MinDelay THEN life - Early ELSE MinDelay)

\* Variant: the effect at 190-195 depends on the session only.
ScheduleExpiry_Once ==
  IF "session" \in due
  THEN IF Authenticated THEN Capped(life) ELSE Off
  ELSE nowTimer

\* The effect at 190-195.
ScheduleExpiry ==
  IF due \cap {"session", "now"} # {}
  THEN IF Authenticated THEN Capped(life) ELSE Off
  ELSE nowTimer

\* A render (257) and its effects (185-195).
Render ==
  /\ due # {}
  /\ due' = {}
  /\ shown' = Authenticated
  /\ timer' = IF due \cap {"session", "props"} # {} THEN ScheduleRefresh ELSE timer
  /\ nowTimer' = ScheduleExpiry
  /\ UNCHANGED <<sessionVars, loose, callVars, retryVars, countVars>>

\* The host renders the provider again.
ParentRenders ==
  /\ due = {}
  /\ due' = {IF UnstableProps THEN "props" ELSE "parent"}
  /\ UNCHANGED <<sessionVars, timer, loose, callVars, retryVars, shown, nowTimer, countVars>>

\* setNow when the display timer fires (193).
NowTimerFires ==
  /\ nowTimer = 0
  /\ nowTimer' = Off
  /\ due' = due \cup {"now"}
  /\ UNCHANGED <<sessionVars, timer, loose, callVars, retryVars, shown, countVars>>

Later(n) == IF n \in Nat \ {0} THEN n - 1 ELSE n

\* Variant: requests do not time out.
Tick_Patient ==
  /\ due = {} /\ timer # 0 /\ 0 \notin loose /\ nowTimer # 0
  /\ life' = Later(life)
  /\ age' = Smaller(age + 1, MinDelay)
  /\ timer' = Later(timer)
  /\ loose' = {Later(n) : n \in loose}
  /\ nowTimer' = Later(nowTimer)
  /\ retryAt' = Later(retryAt)
  /\ callAge' = IF call = "idle" THEN callAge ELSE callAge + 1
  /\ UNCHANGED <<call, failed, retryIndex, due, shown, countVars>>

\* Time passes.  A request in flight is aborted when it has lasted CallTimeout
\* (createAuthApi.post), so it ends before that much time has passed.
Tick ==
  /\ due = {} /\ timer # 0 /\ 0 \notin loose /\ nowTimer # 0
  /\ call # "idle" => callAge < CallTimeout
  /\ life' = Later(life)
  /\ age' = Smaller(age + 1, MinDelay)
  /\ timer' = Later(timer)
  /\ loose' = {Later(n) : n \in loose}
  /\ nowTimer' = Later(nowTimer)
  /\ retryAt' = Later(retryAt)
  /\ callAge' = IF call = "idle" THEN callAge ELSE callAge + 1
  /\ UNCHANGED <<call, failed, retryIndex, due, shown, countVars>>

CallEnds == CallReplaces \/ CallIgnored \/ CallFails

Next ==
  \/ SetSession \/ OnStorage
  \/ TimerFires \/ LooseTimerFires \/ Resume \/ HostRefreshes \/ CallEnds
  \/ Render \/ ParentRenders \/ NowTimerFires
  \/ Tick

Spec == Init /\ [][Next]_vars

\* Time passes however often the host renders (SF); requests end, at the latest
\* when they time out; renders and timers that are due happen.
Fairness ==
  /\ SF_vars(Tick)
  /\ WF_vars(CallEnds)
  /\ WF_vars(Render)
  /\ WF_vars(TimerFires)
  /\ WF_vars(LooseTimerFires)
  /\ WF_vars(NowTimerFires)

FairSpec == Spec /\ Fairness

-----------------------------------------------------------------------------
(***************************************************************************)
(* Properties.                                                             *)
(***************************************************************************)

\* An expired session is not shown as authenticated: once the renders and timers
\* that are due have happened, isAuthenticated means that the token still lives,
\* also when its life is longer than setTimeout can wait and the effect at
\* 190-195 has to go round several times (docs/refresh-resilience.md:5).
ExpiryShown ==
  shown /\ due = {} /\ nowTimer # 0 => Authenticated

\* Every session is attended to: a timer runs, a refresh that can still be applied
\* is under way, or the failure is known and a focus or online event can resume.
\* A timer that fires during an obsolete call is lost (115), so this needs the
\* timer of a new session to outlast the call that the session made obsolete.
NeverStranded ==
  life # Off /\ due = {} => timer # Off \/ call = "current" \/ failed

\* After a failure no automatic refresh starts before the time that defer
\* computed, which is not before the server's Retry-After (RELEASE-NOTES.md:3
\* "bounded retries respect Retry-After"), unless it is a timer that defer has left
\* behind: that one fires at the time it was armed for.
RetryAfterHonoured ==
  [][call = "idle" /\ call' = "current" /\ failed /\ retryAt # 0 =>
       HostRefreshes \/ LooseTimerFires]_vars

\* Without a new session and without focus, online or storage events the timer
\* starts at most one refresh and one retry for each delay, and a session adds at
\* most one to the timers left behind, each of which starts one refresh more.
BoundedRetries == attempts <= 1 + Len(RetryDelays) /\ left <= 1

\* A session that has just arrived is not refreshed before MinDelay has passed,
\* however soon it expires, unless the host asks for it or a timer left behind by a
\* session before it fires: no storm of refreshes.
FreshSessionLeftAlone ==
  [][call = "idle" /\ call' = "current" /\ due = {} /\ ~failed /\ age # MinDelay =>
       HostRefreshes \/ LooseTimerFires]_vars

\* A session is refreshed again and again until it is replaced, ended, or its
\* retries are used up.
Exhausted == failed /\ retryIndex = Len(RetryDelays) /\ timer = Off

RefreshKeepsComing ==
  []<>(life = Off \/ age = 0 \/ call = "current" \/ Exhausted)

=============================================================================
