----------------------- MODULE RefreshSchedule_proofs -----------------------
(***************************************************************************)
(* Proofs about RefreshSchedule: an expired session is never shown, for    *)
(* any delays; and with a host that passes the same props in every render, *)
(* delays that setTimeout can hold and tokens that outlast a request, the  *)
(* retries are bounded and not early, and no session is left alone.        *)
(***************************************************************************)
EXTENDS RefreshSchedule, TLAPS

\* The host passes the same api, callbacks and arrays in every render.
HostIsStable == ~UnstableProps

\* It has not switched the retries off.
HostRetries == RetryDelays # <<>>

\* setTimeout can hold every delay of scheduleRefresh.
RefreshesFit ==
  /\ MinDelay <= MaxTimeout
  /\ \A n \in Lifetimes : n <= Early + MaxTimeout

\* setTimeout can hold every delay of defer.
RetriesFit ==
  /\ \A i \in 1..Len(RetryDelays) : RetryDelays[i] <= MaxTimeout
  /\ \A n \in RetryAfters : n <= MaxTimeout

\* A session that has just been issued is refreshed after a request that is under way
\* has timed out.
TokensOutlastCalls ==
  \A n \in Lifetimes :
    (IF n > Early + MinDelay THEN n - Early ELSE MinDelay) > CallTimeout

-----------------------------------------------------------------------------
(***************************************************************************)
(* Types.                                                                  *)
(***************************************************************************)

\* The delays are numbers.
LEMMA Delays ==
  ASSUME TypeOK
  PROVE  /\ ScheduleRefresh \in Countdowns
         /\ ScheduleExpiry \in Countdowns
         /\ life # Off => ScheduleRefresh \in Nat
         /\ retryIndex # Len(RetryDelays) => RetryDelays[retryIndex + 1] \in Nat \ {0}
         /\ Len(RetryDelays) \in Nat
<1>1. Len(RetryDelays) \in Nat
  BY ConstantsOK
<1>2. retryIndex # Len(RetryDelays) => RetryDelays[retryIndex + 1] \in Nat \ {0}
  BY <1>1, ConstantsOK DEF TypeOK
<1>3. life # Off => ScheduleRefresh \in Nat
  BY ConstantsOK DEF TypeOK, Countdowns, ScheduleRefresh, SetTimeout
<1>4. ScheduleRefresh \in Countdowns
  BY <1>3 DEF ScheduleRefresh, Countdowns
<1>5. ScheduleExpiry \in Countdowns
  BY ConstantsOK DEF TypeOK, Countdowns, ScheduleExpiry, Authenticated, Capped, Smaller
<1> QED BY <1>1, <1>2, <1>3, <1>4, <1>5

\* What a failed call leaves.
LEMMA FailedCall ==
  ASSUME TypeOK, CallFails
  PROVE  /\ call = "current" /\ callAge # 0 /\ call' = "idle"
         /\ failed' = TRUE
         /\ due' = due \cup {"now"}
         /\ retryAt' \in Nat
         /\ \/ /\ retryIndex = Len(RetryDelays)
               /\ retryIndex' = retryIndex /\ timer' = timer
               /\ loose' = loose /\ left' = left
            \/ /\ retryIndex # Len(RetryDelays)
               /\ retryIndex' = retryIndex + 1
               /\ timer' \in Nat
               /\ RetriesFit => timer' = retryAt'
               /\ \/ loose' = loose /\ left' = left
                  \/ timer # Off /\ loose' = loose \cup {timer} /\ left' = left + 1
         /\ UNCHANGED <<life, age, callAge, shown, nowTimer, attempts>>
<1> PICK retryAfter \in RetryAfters : Defer(retryAfter)
  BY DEF CallFails
<1>1. retryAfter \in Nat
  BY ConstantsOK
<1>2. /\ call = "current" /\ callAge # 0 /\ call' = "idle"
      /\ UNCHANGED <<life, age, callAge, shown, nowTimer, attempts>>
  BY DEF CallFails, EndCall, sessionVars
<1>3. CASE retryIndex = Len(RetryDelays)
  BY <1>1, <1>2, <1>3, ConstantsOK DEF Defer, Larger
<1>4. CASE retryIndex # Len(RetryDelays)
  <2> DEFINE delay == RetryDelays[retryIndex + 1]
  <2>1. delay \in Nat \ {0} /\ retryIndex + 1 \in 1..Len(RetryDelays)
    BY <1>4, Delays DEF TypeOK
  <2>2. /\ failed' = TRUE /\ due' = due \cup {"now"} /\ retryIndex' = retryIndex + 1
        /\ retryAt' = Larger(delay, retryAfter)
        /\ timer' = Capped(retryAt')
        /\ \/ loose' = loose /\ left' = left
           \/ timer # Off /\ loose' = loose \cup {timer} /\ left' = left + 1
    BY <1>4 DEF Defer, Rearm
  <2>3. retryAt' \in Nat /\ timer' \in Nat
    BY <1>1, <2>1, <2>2, ConstantsOK DEF Larger, Capped, Smaller
  <2>4. RetriesFit => retryAt' <= MaxTimeout
    BY <2>1, <2>2 DEF RetriesFit, Larger
  <2>5. RetriesFit => timer' = retryAt'
    BY <2>2, <2>4 DEF Capped, Smaller
  <2> QED BY <1>2, <1>4, <2>2, <2>3, <2>5
<1> QED BY <1>3, <1>4

\* What a new session leaves, wherever it comes from.
SessionChanges == SetSession \/ OnStorage \/ CallReplaces

LEMMA ChangedSession ==
  ASSUME TypeOK, SessionChanges
  PROVE  /\ life' \in Lifetimes \cup {Off}
         /\ age' = 0 /\ failed' = FALSE /\ retryIndex' = 0 /\ attempts' = 0 /\ left' = 0
         /\ due' = due \cup {"session", "now"}
         /\ timer' \in {timer, Off}
         /\ call' \in {"idle", "obsolete"}
         /\ UNCHANGED <<loose, retryAt, shown, nowTimer, callAge>>
BY DEF SessionChanges, SetSession, OnStorage, CallReplaces, NewSession, Invalidate, EndCall, TypeOK

\* What the start of a call, or of none because there is one, leaves.
CallStarts == TimerFires \/ LooseTimerFires \/ Resume \/ HostRefreshes

LEMMA StartedCall ==
  ASSUME TypeOK, CallStarts
  PROVE  /\ UNCHANGED <<life, age, failed, retryAt, due, shown, nowTimer, left>>
         /\ loose' \subseteq loose
         /\ \/ call = "idle" /\ call' = "current" /\ callAge' = 0 /\ timer' = Off
            \/ call # "idle" /\ UNCHANGED <<call, callAge>> /\ timer' \in {timer, Off}
         /\ \/ retryIndex' = 0 /\ attempts' = 0 /\ failed
            \/ /\ retryIndex' = retryIndex
               /\ attempts' \in {attempts, attempts + 1}
               /\ attempts' = attempts + 1 => timer = 0 /\ call = "idle"
<1>1. CASE TimerFires
  BY <1>1 DEF TimerFires, StartCall, sessionVars, retryVars, renderVars, callVars, TypeOK
<1>4. CASE LooseTimerFires
  BY <1>4 DEF LooseTimerFires, StartCall, sessionVars, retryVars, renderVars, callVars, countVars,
              TypeOK
<1>2. CASE Resume
  BY <1>2 DEF Resume, StartCall, sessionVars, renderVars, callVars
<1>3. CASE HostRefreshes
  BY <1>3 DEF HostRefreshes, StartCall, sessionVars, retryVars, renderVars, countVars, TypeOK
<1> QED BY <1>1, <1>2, <1>3, <1>4 DEF CallStarts

\* What the actions that touch neither session, nor call, nor retries leave.
LEMMA Rendered ==
  ASSUME TypeOK, Render
  PROVE  /\ due # {} /\ due' = {} /\ shown' = Authenticated /\ nowTimer' = ScheduleExpiry
         /\ timer' = IF due \cap {"session", "props"} # {} THEN ScheduleRefresh ELSE timer
         /\ UNCHANGED <<life, age, call, callAge, failed, retryIndex, retryAt>>
         /\ UNCHANGED <<loose, attempts, left>>
BY DEF Render, sessionVars, callVars, retryVars, countVars

\* The steps by which something new is to be rendered.
Asks == ParentRenders \/ NowTimerFires

LEMMA Asked ==
  ASSUME TypeOK, Asks
  PROVE  /\ due' \subseteq Changes
         /\ "session" \in due' <=> "session" \in due
         /\ "props" \in due' => "props" \in due \/ UnstableProps
         /\ UNCHANGED <<life, age, timer, call, callAge, failed, retryIndex, retryAt>>
         /\ UNCHANGED <<loose, shown, attempts, left>>
BY DEF TypeOK, Changes, Asks, ParentRenders, NowTimerFires, sessionVars, callVars, retryVars,
       countVars

\* The time a countdown has left.
LEMMA Ticked ==
  ASSUME TypeOK, Tick
  PROVE  /\ due = {} /\ timer # 0 /\ nowTimer # 0
         /\ call # "idle" => callAge < CallTimeout
         /\ {life', timer', nowTimer'} \subseteq Countdowns /\ retryAt' \in Nat
         /\ life' = (IF life \in Nat \ {0} THEN life - 1 ELSE life)
         /\ timer' = (IF timer \in Nat \ {0} THEN timer - 1 ELSE timer)
         /\ nowTimer' = (IF nowTimer \in Nat \ {0} THEN nowTimer - 1 ELSE nowTimer)
         /\ retryAt' = (IF retryAt \in Nat \ {0} THEN retryAt - 1 ELSE retryAt)
         /\ age' = (IF age + 1 <= MinDelay THEN age + 1 ELSE MinDelay)
         /\ callAge' = (IF call = "idle" THEN callAge ELSE callAge + 1)
         /\ loose' \subseteq Nat
         /\ UNCHANGED <<call, failed, retryIndex, due, shown, attempts, left>>
BY ConstantsOK DEF Tick, Later, Smaller, TypeOK, Countdowns, countVars

\* The steps there are.
LEMMA Steps ==
  Next => SessionChanges \/ CallStarts \/ CallIgnored \/ CallFails \/ Render \/ Asks \/ Tick
BY DEF Next, SessionChanges, CallStarts, CallEnds, Asks

\* An ignored answer changes nothing but the call.
LEMMA Ignored ==
  ASSUME CallIgnored
  PROVE  /\ call = "obsolete" /\ call' = "idle"
         /\ UNCHANGED <<life, age, timer, callAge, failed, retryIndex, retryAt>>
         /\ UNCHANGED <<due, shown, nowTimer, loose, attempts, left>>
BY DEF CallIgnored, EndCall, sessionVars, retryVars, renderVars, countVars

\* Every variable keeps its type.
THEOREM TypeCorrect == Spec => []TypeOK
<1>1. Init => TypeOK
  <2> SUFFICES ASSUME Init PROVE TypeOK
    OBVIOUS
  <2>1. life \in Countdowns
    BY ConstantsOK DEF Init, Countdowns
  <2>2. 0 \in 0..MinDelay /\ 0 \in 0..CallTimeout /\ 0 \in 0..Len(RetryDelays)
    BY ConstantsOK
  <2>3. shown \in BOOLEAN
    BY DEF Init, Authenticated
  <2>4. timer \in Countdowns /\ nowTimer \in Countdowns /\ due \subseteq Changes
    BY DEF Init, Countdowns, Changes
  <2> QED BY <2>1, <2>2, <2>3, <2>4 DEF Init, TypeOK
<1>2. TypeOK /\ [Next]_vars => TypeOK'
  <2> SUFFICES ASSUME TypeOK, [Next]_vars PROVE TypeOK'
    OBVIOUS
  <2>0. Len(RetryDelays) \in Nat /\ Lifetimes \subseteq Nat
        /\ MinDelay \in Nat /\ CallTimeout \in Nat
    BY ConstantsOK
  <2>1. CASE SessionChanges
    <3>1. age' \in 0..MinDelay /\ retryIndex' \in 0..Len(RetryDelays) /\ attempts' \in Nat
      BY <2>0, <2>1, ChangedSession
    <3>2. life' \in Countdowns /\ timer' \in Countdowns
      BY <2>0, <2>1, ChangedSession DEF TypeOK, Countdowns
    <3>3. due' \subseteq Changes /\ call' \in {"idle", "current", "obsolete"}
      BY <2>1, ChangedSession DEF TypeOK, Changes
    <3> QED BY <2>1, <3>1, <3>2, <3>3, ChangedSession DEF TypeOK
  <2>2. CASE CallStarts
    <3>1. callAge' \in 0..CallTimeout /\ retryIndex' \in 0..Len(RetryDelays) /\ attempts' \in Nat
      BY <2>0, <2>2, StartedCall DEF TypeOK
    <3>2. timer' \in Countdowns /\ call' \in {"idle", "current", "obsolete"}
      BY <2>2, StartedCall DEF TypeOK, Countdowns
    <3> QED BY <2>2, <3>1, <3>2, StartedCall DEF TypeOK
  <2>3. CASE CallIgnored
    BY <2>3, Ignored DEF TypeOK
  <2>4. CASE CallFails
    <3>0. \/ retryIndex' = retryIndex
          \/ retryIndex # Len(RetryDelays) /\ retryIndex' = retryIndex + 1
      BY <2>4, FailedCall
    <3>1. retryIndex' \in 0..Len(RetryDelays)
      BY <2>0, <3>0 DEF TypeOK
    <3>2. timer' \in Countdowns
      BY <2>4, FailedCall DEF TypeOK, Countdowns
    <3>3. loose' \subseteq Nat /\ left' \in Nat
      <4>1. \/ loose' = loose /\ left' = left
            \/ timer # Off /\ loose' = loose \cup {timer} /\ left' = left + 1
        BY <2>4, FailedCall
      <4>2. loose \subseteq Nat /\ left \in Nat /\ (timer # Off => timer \in Nat)
        BY DEF TypeOK, Countdowns
      <4>3. loose' \subseteq Nat
        BY <4>1, <4>2
      <4> QED BY <4>1, <4>2, <4>3
    <3> QED BY <2>4, <3>1, <3>2, <3>3, FailedCall DEF TypeOK, Changes
  <2>5. CASE Render
    <3>1. shown' \in BOOLEAN
      BY <2>5, Rendered DEF Authenticated
    <3>2. timer' \in Countdowns /\ nowTimer' \in Countdowns
      BY <2>5, Rendered, Delays DEF TypeOK
    <3> QED BY <2>5, <3>1, <3>2, Rendered DEF TypeOK
  <2>6. CASE Asks
    <3>1. nowTimer' \in Countdowns
      BY <2>6 DEF Asks, ParentRenders, NowTimerFires, TypeOK, Countdowns
    <3> QED BY <2>6, <3>1, Asked DEF TypeOK
  <2>7. CASE Tick
    <3>1. age' \in 0..MinDelay /\ callAge' \in 0..CallTimeout
      BY <2>0, <2>7, Ticked DEF TypeOK
    <3> QED BY <2>7, <3>1, Ticked DEF TypeOK
  <2>8. CASE UNCHANGED vars
    BY <2>8 DEF vars, sessionVars, callVars, retryVars, renderVars, countVars, TypeOK
  <2> QED BY <2>1, <2>2, <2>3, <2>4, <2>5, <2>6, <2>7, <2>8, Steps
<1> QED BY <1>1, <1>2, PTL DEF Spec

-----------------------------------------------------------------------------
(***************************************************************************)
(* What is shown.                                                          *)
(***************************************************************************)

\* When nothing is to be rendered for the session or the clock, a session that lives or
\* is shown has a display timer that does not outlast it.
DisplayOK ==
  due \cap {"session", "now"} = {} /\ (shown \/ Authenticated) =>
    life \in Nat /\ nowTimer \in Nat /\ nowTimer <= life

\* An expired session is not shown once what is due has happened, for any lives and any
\* longest delay of setTimeout, whatever the host passes and whenever it renders.
THEOREM ExpiredNeverShown == Spec => []ExpiryShown
<1>1. Init => DisplayOK
  BY DEF Init, DisplayOK
<1>2. TypeOK /\ DisplayOK /\ [Next]_vars => DisplayOK'
  <2> SUFFICES ASSUME TypeOK, DisplayOK, [Next]_vars PROVE DisplayOK'
    OBVIOUS
  <2>1. CASE SessionChanges
    BY <2>1, ChangedSession DEF DisplayOK
  <2>2. CASE CallStarts
    BY <2>2, StartedCall DEF DisplayOK, Authenticated
  <2>3. CASE CallIgnored
    BY <2>3, Ignored DEF DisplayOK, Authenticated
  <2>4. CASE CallFails
    BY <2>4, FailedCall DEF DisplayOK
  <2>5. CASE Render
    <3> SUFFICES ASSUME shown' \/ Authenticated'
                 PROVE  life \in Nat /\ nowTimer' \in Nat /\ nowTimer' <= life
      BY <2>5, Rendered DEF DisplayOK
    <3>1. Authenticated
      BY <2>5, Rendered DEF Authenticated
    <3>2. CASE due \cap {"session", "now"} = {}
      BY <2>5, <3>1, <3>2, Rendered DEF DisplayOK, ScheduleExpiry
    <3>3. CASE due \cap {"session", "now"} # {}
      <4>1. nowTimer' = Capped(life)
        BY <2>5, <3>1, <3>3, Rendered DEF ScheduleExpiry
      <4> QED BY <3>1, <4>1, ConstantsOK DEF Authenticated, Capped, Smaller
    <3> QED BY <3>2, <3>3
  <2>6. CASE Asks
    <3>1. CASE ParentRenders
      BY <3>1 DEF ParentRenders, DisplayOK, Authenticated, sessionVars
    <3>2. CASE NowTimerFires
      BY <3>2 DEF NowTimerFires, DisplayOK
    <3> QED BY <2>6, <3>1, <3>2 DEF Asks
  <2>7. CASE Tick
    <3> SUFFICES ASSUME shown' \/ Authenticated'
                 PROVE  life' \in Nat /\ nowTimer' \in Nat /\ nowTimer' <= life'
      BY DEF DisplayOK
    <3>1. shown \/ Authenticated
      BY <2>7, Ticked DEF Authenticated
    <3>2. life \in Nat /\ nowTimer \in Nat \ {0} /\ nowTimer <= life
      BY <2>7, <3>1, Ticked DEF DisplayOK
    <3> QED BY <2>7, <3>2, Ticked
  <2>8. CASE UNCHANGED vars
    BY <2>8 DEF vars, sessionVars, renderVars, DisplayOK, Authenticated
  <2> QED BY <2>1, <2>2, <2>3, <2>4, <2>5, <2>6, <2>7, <2>8, Steps
<1>3. TypeOK /\ DisplayOK => ExpiryShown
  BY DEF TypeOK, Countdowns, DisplayOK, ExpiryShown, Authenticated
<1> QED BY <1>1, <1>2, <1>3, TypeCorrect, PTL DEF Spec

-----------------------------------------------------------------------------
(***************************************************************************)
(* How often the timer refreshes.                                          *)
(***************************************************************************)

\* A render of the provider has the props of the one before.
SameProps == "props" \notin due

LEMMA SamePropsInvariant ==
  ASSUME HostIsStable
  PROVE  Spec => []SameProps
<1>1. Init => SameProps
  BY DEF Init, SameProps
<1>2. TypeOK /\ SameProps /\ [Next]_vars => SameProps'
  <2> SUFFICES ASSUME TypeOK, SameProps, [Next]_vars PROVE "props" \notin due'
    BY DEF SameProps
  <2>1. CASE SessionChanges
    BY <2>1, ChangedSession DEF SameProps
  <2>2. CASE CallFails
    BY <2>2, FailedCall DEF SameProps
  <2>3. CASE Render
    BY <2>3, Rendered
  <2>4. CASE Asks
    BY <2>4, Asked DEF SameProps, HostIsStable
  <2>5. CASE UNCHANGED due
    BY <2>5 DEF SameProps
  <2> QED BY <2>1, <2>2, <2>3, <2>4, <2>5, Steps, StartedCall, Ignored, Ticked
          DEF vars, renderVars
<1> QED BY <1>1, <1>2, TypeCorrect, PTL DEF Spec

\* Until a new session is rendered no call about it has had time to fail.
NewSessionOK ==
  "session" \in due =>
    /\ retryIndex = 0 /\ ~failed
    /\ attempts = 0 \/ (attempts = 1 /\ call = "current")
    /\ call = "current" => callAge = 0

\* Only the render of a new session arms the timer during a call that counts.
ArmedOK == call = "current" /\ timer # Off => retryIndex = 0

\* A call that fails pays for the next one.
CountOK ==
  /\ attempts <= 1 + retryIndex
  /\ timer # Off /\ call # "current" => attempts <= retryIndex

\* A timer that runs during a call that counts is the first of its session.
LeftOK ==
  /\ "session" \in due => left = 0
  /\ call = "current" /\ timer # Off => left = 0
  /\ left <= 1

RetriesInv == TypeOK /\ NewSessionOK /\ ArmedOK /\ CountOK /\ LeftOK

\* With a host that passes the same props and asks for retries this is an invariant.
LEMMA RetriesInvariant ==
  ASSUME HostIsStable, HostRetries
  PROVE  Spec => []RetriesInv
<1> DEFINE Inv == NewSessionOK /\ ArmedOK /\ CountOK /\ LeftOK
<1>0. Len(RetryDelays) \in Nat \ {0}
  BY ConstantsOK DEF HostRetries
<1>1. Init => Inv
  BY ConstantsOK DEF Init, NewSessionOK, ArmedOK, CountOK, LeftOK
<1>2. TypeOK /\ SameProps /\ Inv /\ [Next]_vars => Inv'
  <2> SUFFICES ASSUME TypeOK, SameProps, Inv, [Next]_vars PROVE Inv'
    OBVIOUS
  <2>1. CASE SessionChanges
    BY <2>1, ChangedSession DEF NewSessionOK, ArmedOK, CountOK, LeftOK
  <2>2. CASE CallStarts
    <3>1. NewSessionOK'
      BY <2>2, StartedCall DEF NewSessionOK
    <3>2. ArmedOK'
      BY <2>2, StartedCall DEF ArmedOK
    <3>3. CountOK'
      <4>1. attempts' <= 1 + retryIndex'
        <5>1. CASE attempts' = attempts + 1 /\ retryIndex' = retryIndex
          <6>1. CASE timer = 0 /\ call = "idle"
            BY <5>1, <6>1, ConstantsOK DEF CountOK, TypeOK
          <6>2. CASE retryIndex' = 0 /\ attempts' = 0
            BY <6>2
          <6> QED BY <2>2, <5>1, <6>1, <6>2, StartedCall
        <5> QED BY <2>2, <5>1, StartedCall DEF CountOK
      <4>2. timer' # Off /\ call' # "current" => attempts' <= retryIndex'
        <5> SUFFICES ASSUME timer' # Off, call' # "current"
                     PROVE  attempts' <= retryIndex'
          OBVIOUS
        <5>1. timer # Off /\ call # "idle" /\ call' = call
          BY <2>2, StartedCall
        <5> QED BY <2>2, <5>1, StartedCall DEF CountOK, TypeOK
      <4> QED BY <4>1, <4>2 DEF CountOK
    <3>4. LeftOK'
      BY <2>2, StartedCall DEF LeftOK
    <3> QED BY <3>1, <3>2, <3>3, <3>4
  <2>3. CASE CallIgnored
    BY <2>3, Ignored DEF NewSessionOK, ArmedOK, CountOK, LeftOK
  <2>4. CASE CallFails
    <3>1. "session" \notin due
      BY <2>4, FailedCall DEF NewSessionOK
    <3>2. NewSessionOK'
      BY <2>4, <3>1, FailedCall DEF NewSessionOK
    <3>3. ArmedOK'
      BY <2>4, FailedCall DEF ArmedOK
    <3>4. CountOK'
      <4>1. CASE retryIndex = Len(RetryDelays) /\ retryIndex' = retryIndex /\ timer' = timer
        BY <1>0, <2>4, <4>1, FailedCall DEF ArmedOK, CountOK
      <4>2. CASE retryIndex' = retryIndex + 1
        <5>1. attempts' = attempts
          BY <2>4, FailedCall
        <5> QED BY <4>2, <5>1 DEF CountOK, TypeOK
      <4> QED BY <2>4, <4>1, <4>2, FailedCall
    <3>5. LeftOK'
      <4>1. left' = left \/ (timer # Off /\ left' = left + 1)
        BY <2>4, FailedCall
      <4>2. call = "current" /\ call' = "idle" /\ "session" \notin due'
        BY <2>4, <3>1, FailedCall
      <4> QED BY <4>1, <4>2 DEF LeftOK, TypeOK
    <3> QED BY <3>2, <3>3, <3>4, <3>5
  <2>5. CASE Render
    <3>1. CASE "session" \in due
      BY <2>5, <3>1, Rendered DEF NewSessionOK, ArmedOK, CountOK, LeftOK
    <3>2. CASE "session" \notin due
      BY <2>5, <3>2, Rendered DEF SameProps, NewSessionOK, ArmedOK, CountOK, LeftOK
    <3> QED BY <3>1, <3>2
  <2>6. CASE Asks
    BY <2>6, Asked DEF NewSessionOK, ArmedOK, CountOK, LeftOK
  <2>7. CASE Tick
    <3>1. timer' # Off => timer # Off
      BY <2>7, Ticked, ConstantsOK
    <3> QED BY <2>7, <3>1, Ticked DEF NewSessionOK, ArmedOK, CountOK, LeftOK
  <2>8. CASE UNCHANGED vars
    BY <2>8 DEF vars, callVars, retryVars, renderVars, countVars, NewSessionOK, ArmedOK, CountOK,
                LeftOK
  <2> QED BY <2>1, <2>2, <2>3, <2>4, <2>5, <2>6, <2>7, <2>8, Steps
<1>3. TypeOK /\ Inv => RetriesInv
  BY DEF RetriesInv
<1> QED BY <1>1, <1>2, <1>3, TypeCorrect, SamePropsInvariant, PTL DEF Spec

\* The timer starts one refresh and one retry for each delay at most and a session leaves at
\* most one timer behind, when the host passes the same props in every render and asks for
\* retries: no order of calls, renders and events makes it more.
THEOREM RetriesAreBounded ==
  ASSUME HostIsStable, HostRetries
  PROVE  Spec => []BoundedRetries
<1>1. RetriesInv => BoundedRetries
  <2> SUFFICES ASSUME RetriesInv PROVE BoundedRetries
    OBVIOUS
  <2>1. Len(RetryDelays) \in Nat
    BY ConstantsOK
  <2> QED BY <2>1 DEF RetriesInv, TypeOK, CountOK, LeftOK, BoundedRetries
<1> QED BY <1>1, RetriesInvariant, PTL

\* A retry is due when retryAt has come.
RetryDue == failed /\ timer # Off => timer >= retryAt

\* No refresh that the provider starts by itself comes before the time that the last
\* failure set, when besides the delays are within what setTimeout can hold, but that of a
\* timer that was left behind.
THEOREM RetriesAreNotEarly ==
  ASSUME HostIsStable, HostRetries, RetriesFit
  PROVE  Spec => RetryAfterHonoured
<1>0. Len(RetryDelays) \in Nat \ {0}
  BY ConstantsOK DEF HostRetries
<1>1. Init => RetryDue
  BY DEF Init, RetryDue
<1>2. RetriesInv /\ SameProps /\ RetryDue /\ [Next]_vars => RetryDue'
  <2> SUFFICES ASSUME RetriesInv, SameProps, RetryDue, [Next]_vars PROVE RetryDue'
    OBVIOUS
  <2> USE DEF RetriesInv
  <2>1. CASE SessionChanges
    BY <2>1, ChangedSession DEF RetryDue
  <2>2. CASE CallStarts
    BY <2>2, StartedCall DEF RetryDue
  <2>3. CASE CallIgnored
    BY <2>3, Ignored DEF RetryDue
  <2>4. CASE CallFails
    <3>1. CASE retryIndex = Len(RetryDelays) /\ timer' = timer
      BY <1>0, <2>4, <3>1, FailedCall DEF ArmedOK, RetryDue
    <3>2. CASE timer' = retryAt'
      BY <2>4, <3>2, FailedCall DEF RetryDue
    <3> QED BY <2>4, <3>1, <3>2, FailedCall
  <2>5. CASE Render
    BY <2>5, Rendered DEF SameProps, NewSessionOK, RetryDue
  <2>6. CASE Asks
    BY <2>6, Asked DEF RetryDue
  <2>7. CASE Tick
    <3> SUFFICES ASSUME failed', timer' # Off PROVE timer' >= retryAt'
      BY DEF RetryDue
    <3>1. timer \in Nat \ {0} /\ timer >= retryAt
      BY <2>7, Ticked, ConstantsOK DEF RetryDue, TypeOK, Countdowns
    <3>2. /\ timer' = timer - 1 /\ retryAt \in Nat
          /\ retryAt' = (IF retryAt \in Nat \ {0} THEN retryAt - 1 ELSE retryAt)
      BY <2>7, <3>1, Ticked DEF TypeOK
    <3> QED BY <3>1, <3>2
  <2>8. CASE UNCHANGED vars
    BY <2>8 DEF vars, retryVars, RetryDue
  <2> QED BY <2>1, <2>2, <2>3, <2>4, <2>5, <2>6, <2>7, <2>8, Steps
<1>3. RetriesInv /\ RetryDue /\ [Next]_vars =>
        [call = "idle" /\ call' = "current" /\ failed /\ retryAt # 0 =>
           HostRefreshes \/ LooseTimerFires]_vars
  <2> SUFFICES ASSUME RetriesInv, RetryDue, Next,
                      call = "idle", call' = "current", failed, retryAt # 0
               PROVE  HostRefreshes \/ LooseTimerFires
    OBVIOUS
  <2> USE DEF RetriesInv
  <2>1. ~TimerFires
    BY ConstantsOK DEF TimerFires, RetryDue, TypeOK
  <2>2. ~Resume
    BY DEF Resume
  <2> QED BY <2>1, <2>2, Steps, ChangedSession, Ignored, FailedCall, Rendered, Asked, Ticked
          DEF CallStarts
<1> QED BY <1>1, <1>2, <1>3, RetriesInvariant, SamePropsInvariant, PTL
        DEF Spec, RetryAfterHonoured

-----------------------------------------------------------------------------
(***************************************************************************)
(* The timer of a session.                                                 *)
(***************************************************************************)

\* A session never has more to live than setTimeout can wait.
LivesFit == life # Off => life <= Early + MaxTimeout

\* So its timer never has less than MinDelay to run.
LEMMA TimerFits ==
  ASSUME RefreshesFit, TypeOK, LivesFit, life # Off
  PROVE  /\ ScheduleRefresh \in Nat
         /\ ScheduleRefresh >= MinDelay
         /\ ScheduleRefresh = (IF life > Early + MinDelay THEN life - Early ELSE MinDelay)
<1> DEFINE delay == IF life > Early + MinDelay THEN life - Early ELSE MinDelay
<1>1. life \in Nat /\ {Early, MinDelay, MaxTimeout} \subseteq Nat
  BY ConstantsOK DEF TypeOK, Countdowns
<1>2. delay \in Nat /\ delay >= MinDelay /\ delay <= MaxTimeout
  BY <1>1 DEF RefreshesFit, LivesFit
<1>3. ScheduleRefresh = delay
  BY <1>2 DEF ScheduleRefresh, SetTimeout
<1> QED BY <1>2, <1>3

LEMMA LivesInvariant ==
  ASSUME RefreshesFit
  PROVE  Spec => []LivesFit
<1>1. Init => LivesFit
  <2> SUFFICES ASSUME Init, life # Off PROVE life <= Early + MaxTimeout
    BY DEF LivesFit
  <2> PICK n \in Lifetimes : life \in 0..n
    BY DEF Init
  <2> QED BY ConstantsOK DEF RefreshesFit
<1>2. TypeOK /\ LivesFit /\ [Next]_vars => LivesFit'
  <2> SUFFICES ASSUME TypeOK, LivesFit, [Next]_vars, life' # Off
               PROVE  life' <= Early + MaxTimeout
    BY DEF LivesFit
  <2>1. CASE SessionChanges
    BY <2>1, ChangedSession DEF RefreshesFit
  <2>2. CASE UNCHANGED life
    BY <2>2 DEF LivesFit
  <2>3. CASE Tick
    BY <2>3, Ticked, ConstantsOK DEF LivesFit, TypeOK, Countdowns
  <2> QED BY <2>1, <2>2, <2>3, Steps, StartedCall, Ignored, FailedCall, Rendered, Asked
          DEF vars, sessionVars
<1> QED BY <1>1, <1>2, TypeCorrect, PTL DEF Spec

\* As long as no call about a session has failed its timer waits for MinDelay at least.
PatientOK ==
  "session" \notin due /\ ~failed /\ timer # Off => timer + age >= MinDelay

\* A session that has just arrived is left alone for MinDelay by all but the timers that
\* sessions before it left behind, when setTimeout can hold the delays; also when the host
\* passes other props in every render.
THEOREM FreshSessionsAreLeftAlone ==
  ASSUME RefreshesFit
  PROVE  Spec => FreshSessionLeftAlone
<1>1. Init => PatientOK
  BY DEF Init, PatientOK
<1>2. TypeOK /\ LivesFit /\ PatientOK /\ [Next]_vars => PatientOK'
  <2> SUFFICES ASSUME TypeOK, LivesFit, PatientOK, [Next]_vars PROVE PatientOK'
    OBVIOUS
  <2>1. CASE SessionChanges
    BY <2>1, ChangedSession DEF PatientOK
  <2>2. CASE CallStarts
    BY <2>2, StartedCall DEF PatientOK
  <2>3. CASE CallIgnored
    BY <2>3, Ignored DEF PatientOK
  <2>4. CASE CallFails
    BY <2>4, FailedCall DEF PatientOK
  <2>5. CASE Render
    <3>1. CASE due \cap {"session", "props"} = {}
      BY <2>5, <3>1, Rendered DEF PatientOK
    <3>2. CASE due \cap {"session", "props"} # {}
      <4>1. timer' = ScheduleRefresh /\ age' = age
        BY <2>5, <3>2, Rendered
      <4>2. timer' = Off \/ (timer' \in Nat /\ timer' >= MinDelay)
        BY <4>1, TimerFits DEF ScheduleRefresh
      <4> QED BY <4>1, <4>2, ConstantsOK DEF PatientOK, TypeOK
    <3> QED BY <3>1, <3>2
  <2>6. CASE Asks
    BY <2>6, Asked DEF PatientOK
  <2>7. CASE Tick
    <3> SUFFICES ASSUME ~failed', timer' # Off PROVE timer' + age' >= MinDelay
      BY DEF PatientOK
    <3>1. timer \in Nat \ {0} /\ timer + age >= MinDelay
      BY <2>7, Ticked, ConstantsOK DEF PatientOK, TypeOK, Countdowns
    <3>2. timer' = timer - 1
      BY <2>7, <3>1, Ticked
    <3> QED BY <2>7, <3>1, <3>2, Ticked, ConstantsOK DEF TypeOK
  <2>8. CASE UNCHANGED vars
    BY <2>8 DEF vars, sessionVars, retryVars, renderVars, PatientOK
  <2> QED BY <2>1, <2>2, <2>3, <2>4, <2>5, <2>6, <2>7, <2>8, Steps
<1>3. TypeOK /\ PatientOK /\ [Next]_vars =>
        [call = "idle" /\ call' = "current" /\ due = {} /\ ~failed /\ age # MinDelay =>
           HostRefreshes \/ LooseTimerFires]_vars
  <2> SUFFICES ASSUME TypeOK, PatientOK, Next,
                      call = "idle", call' = "current", due = {}, ~failed, age # MinDelay
               PROVE  HostRefreshes \/ LooseTimerFires
    OBVIOUS
  <2>1. ~TimerFires
    BY ConstantsOK DEF TypeOK, PatientOK, TimerFires
  <2>2. ~Resume
    BY DEF Resume
  <2> QED BY <2>1, <2>2, Steps, ChangedSession, Ignored, FailedCall, Rendered, Asked, Ticked
          DEF CallStarts
<1> QED BY <1>1, <1>2, <1>3, LivesInvariant, TypeCorrect, PTL DEF Spec, FreshSessionLeftAlone

-----------------------------------------------------------------------------
(***************************************************************************)
(* Nobody is stranded.                                                     *)
(***************************************************************************)

\* A session that was rendered is attended to.
AttendedOK ==
  life # Off /\ "session" \notin due => timer # Off \/ call = "current" \/ failed

\* The timer of a session outlasts the call that the session made obsolete, and will do so
\* when the session is rendered.
OutlastsOK ==
  call = "obsolete" /\ life # Off =>
    IF "session" \in due THEN life \in Lifetimes
                         ELSE timer \in Nat /\ timer + callAge > CallTimeout

\* Every session is attended to: no order of logins, storage events, answers, failures and
\* renders leaves one without a timer, a call that counts or a known failure.
THEOREM SessionsAreAttendedTo ==
  ASSUME HostIsStable, RefreshesFit, TokensOutlastCalls
  PROVE  Spec => []NeverStranded
<1> DEFINE Known == TypeOK /\ SameProps /\ LivesFit
           Inv == AttendedOK /\ OutlastsOK
<1>1. Init => Inv
  BY DEF Init, AttendedOK, OutlastsOK
<1>2. Known /\ Inv /\ [Next]_vars => Inv'
  <2> SUFFICES ASSUME TypeOK, SameProps, LivesFit, Inv, [Next]_vars PROVE Inv'
    OBVIOUS
  <2>1. CASE SessionChanges
    BY <2>1, ChangedSession DEF AttendedOK, OutlastsOK
  <2>2. CASE CallStarts
    <3>1. CASE call = "idle"
      BY <2>2, <3>1, StartedCall DEF AttendedOK, OutlastsOK
    <3>2. CASE call # "idle" /\ timer' = timer
      BY <2>2, <3>2, StartedCall DEF AttendedOK, OutlastsOK
    <3>3. CASE call = "current"
      BY <2>2, <3>3, StartedCall DEF AttendedOK, OutlastsOK
    <3>4. CASE call = "obsolete" /\ timer' # timer
      <4>1. timer = 0
        BY <2>2, <3>4 DEF CallStarts, TimerFires, LooseTimerFires, Resume, HostRefreshes, StartCall
      <4>2. life = Off \/ "session" \in due
        BY <3>4, <4>1, ConstantsOK DEF OutlastsOK, TypeOK
      <4> QED BY <2>2, <4>2, StartedCall DEF AttendedOK, OutlastsOK
    <3> QED BY <3>1, <3>2, <3>3, <3>4 DEF TypeOK
  <2>3. CASE CallIgnored
    BY <2>3, Ignored, ConstantsOK DEF AttendedOK, OutlastsOK
  <2>4. CASE CallFails
    BY <2>4, FailedCall DEF AttendedOK, OutlastsOK
  <2>5. CASE Render
    <3>1. CASE "session" \notin due
      BY <2>5, <3>1, Rendered DEF SameProps, AttendedOK, OutlastsOK
    <3>2. CASE "session" \in due
      <4> SUFFICES ASSUME life # Off
                   PROVE  /\ timer' \in Nat /\ timer' # Off
                          /\ call = "obsolete" => timer' + callAge > CallTimeout
        BY <2>5, Rendered DEF AttendedOK, OutlastsOK
      <4>1. timer' = ScheduleRefresh /\ timer' \in Nat
        BY <2>5, <3>2, Rendered, TimerFits
      <4>2. call = "obsolete" => timer' > CallTimeout
        BY <3>2, <4>1, TimerFits DEF OutlastsOK, TokensOutlastCalls
      <4> QED BY <4>1, <4>2, ConstantsOK DEF TypeOK
    <3> QED BY <3>1, <3>2
  <2>6. CASE Asks
    BY <2>6, Asked DEF AttendedOK, OutlastsOK
  <2>7. CASE Tick
    <3>1. life' # Off => life # Off
      BY <2>7, Ticked, ConstantsOK
    <3>2. timer # Off => timer' # Off
      BY <2>7, Ticked, ConstantsOK DEF TypeOK, Countdowns
    <3>3. AttendedOK'
      BY <2>7, <3>1, <3>2, Ticked DEF AttendedOK
    <3>4. OutlastsOK'
      <4> SUFFICES ASSUME call = "obsolete", life # Off
                   PROVE  timer' \in Nat /\ timer' + callAge' > CallTimeout
        BY <2>7, <3>1, Ticked DEF OutlastsOK
      <4>1. timer \in Nat \ {0} /\ timer + callAge > CallTimeout
        BY <2>7, Ticked DEF OutlastsOK
      <4>2. timer' = timer - 1 /\ callAge' = callAge + 1
        BY <2>7, <4>1, Ticked
      <4> QED BY <4>1, <4>2, ConstantsOK DEF TypeOK
    <3> QED BY <3>3, <3>4
  <2>8. CASE UNCHANGED vars
    BY <2>8 DEF vars, sessionVars, callVars, retryVars, renderVars, AttendedOK, OutlastsOK
  <2> QED BY <2>1, <2>2, <2>3, <2>4, <2>5, <2>6, <2>7, <2>8, Steps
<1>3. Inv => NeverStranded
  BY DEF AttendedOK, NeverStranded
<1> QED BY <1>1, <1>2, <1>3, TypeCorrect, SamePropsInvariant, LivesInvariant, PTL DEF Spec

=============================================================================
