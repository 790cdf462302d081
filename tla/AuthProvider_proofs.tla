------------------------ MODULE AuthProvider_proofs -------------------------
(***************************************************************************)
(* Theorems about AuthProvider, for any number of tabs and sessions.       *)
(***************************************************************************)
EXTENDS AuthProvider, TLAPS

-----------------------------------------------------------------------------
(***************************************************************************)
(* What the helpers assign, in terms of the types.                         *)
(***************************************************************************)

CallTypes ==
  /\ call \in [Tabs -> {"idle", "queued", "sent"}]
  /\ about \in [Tabs -> Session]
  /\ valid \in [Tabs -> BOOLEAN]
  /\ reply \in [Tabs -> Replies]
  /\ disturbed \in [Tabs -> BOOLEAN]

LEMMA SettleTypes ==
  ASSUME CallTypes, NEW t \in Tabs, Settle(t)
  PROVE  CallTypes'
BY DEF CallTypes, Settle, Session, Replies, Reply

\* setSession assigns the generation too; a call that settles as well agrees.
LEMMA SetSessionTypes ==
  ASSUME TypeOK, NEW t \in Tabs, NEW next \in Session, SetSession(t, next)
  PROVE  /\ storage' \in Session
         /\ event' \in [Tabs -> Nat]
         /\ missed' \in [Tabs -> BOOLEAN]
         /\ session' \in [Tabs -> Session]
         /\ renderDue' \in [Tabs -> BOOLEAN]
         /\ ref' \in [Tabs -> Session]
         /\ valid' \in [Tabs -> BOOLEAN]
BY DEF TypeOK, SetSession, SetSessionState, Store

LEMMA DropTypes ==
  ASSUME TypeOK, NEW t \in Tabs, NEW how \in Fates, DropAnswer(t, how) \/ ServedInVain(t)
  PROVE  fate' \in [Sessions -> Fates]
BY DEF TypeOK, DropAnswer, ServedInVain, Fates

LEMMA LeaveTypes ==
  ASSUME TypeOK, NEW t \in Tabs, Leave(t)
  PROVE  /\ mounted' \in [Tabs -> BOOLEAN]
         /\ listening' \in [Tabs -> BOOLEAN]
         /\ missed' \in [Tabs -> BOOLEAN]
         /\ session' \in [Tabs -> Session]
         /\ renderDue' \in [Tabs -> BOOLEAN]
         /\ effect' \in [Tabs -> Session \cup {NoEffect}]
         /\ ref' \in [Tabs -> Session]
BY DEF TypeOK, Leave, Session

-----------------------------------------------------------------------------
(***************************************************************************)
(* Types.                                                                  *)
(***************************************************************************)

\* A step keeps the types.
LEMMA TypeStep == TypeOK /\ [Next]_vars => TypeOK'
<1> SUFFICES ASSUME TypeOK, [Next]_vars PROVE TypeOK'
  OBVIOUS
<1>0. TypeOK <=> /\ CallTypes
                 /\ storage \in Session
                 /\ event \in [Tabs -> Nat]
                 /\ mounted \in [Tabs -> BOOLEAN]
                 /\ listening \in [Tabs -> BOOLEAN]
                 /\ missed \in [Tabs -> BOOLEAN]
                 /\ session \in [Tabs -> Session]
                 /\ renderDue \in [Tabs -> BOOLEAN]
                 /\ effect \in [Tabs -> Session \cup {NoEffect}]
                 /\ ref \in [Tabs -> Session]
                 /\ fate \in [Sessions -> Fates]
  BY DEF TypeOK, CallTypes
<1> USE DEF TypeOK, tabVars, reactVars, callVars
<1>1. ASSUME NEW t \in Tabs, RefreshSession(t) PROVE TypeOK'
  BY <1>1 DEF RefreshSession
<1>2. ASSUME NEW t \in Tabs, RunGivesUp(t) \/ LockRefused(t) PROVE TypeOK'
  BY <1>0, <1>2, SettleTypes DEF RunGivesUp, LockRefused, CallTypes
<1>3. ASSUME NEW t \in Tabs, RunAdopts(t) PROVE TypeOK'
  BY <1>0, <1>3, SettleTypes, SetSessionTypes DEF RunAdopts, CallTypes
<1>4. ASSUME NEW t \in Tabs, RunSends(t) PROVE TypeOK'
  BY <1>4 DEF RunSends, Replies, Reply, Session
<1>5. ASSUME NEW t \in Tabs, ServerRefreshes(t) PROVE TypeOK'
  <2>1. fate' \in [Sessions -> Fates]
    BY <1>5 DEF ServerRefreshes, Unused, Fates
  <2>2. reply' \in [Tabs -> Replies]
    BY <1>5 DEF ServerRefreshes, Unused, Replies, Reply, Session
  <2> QED BY <1>5, <2>1, <2>2 DEF ServerRefreshes
<1>6. ASSUME NEW t \in Tabs, AnswerLost(t) PROVE TypeOK'
  BY <1>6, DropTypes DEF AnswerLost, Replies, Reply, Session, Fates
<1>7. CASE ServerEnds
  BY <1>7 DEF ServerEnds, Live, Fates
<1>8. ASSUME NEW t \in Tabs, HandleAnswer(t) PROVE TypeOK'
  <2>1. CASE IgnoreAnswer(t) \/ DeferAnswer(t)
    <3>1. "lapsed" \in Fates /\ Obsolete(t) \in Fates
      BY DEF Fates, Obsolete
    <3> QED BY <1>0, <2>1, <3>1, SettleTypes, DropTypes
            DEF IgnoreAnswer, DeferAnswer, CallTypes
  <2>2. CASE YieldToStorage(t)
    <3>1. "dropped" \in Fates
      BY DEF Fates
    <3> QED BY <1>0, <2>2, <3>1, SettleTypes, SetSessionTypes, DropTypes
            DEF YieldToStorage, CallTypes
  <2>3. CASE ApplyAnswer(t)
    <3>1. reply[t].new \in Session
      BY DEF Replies
    <3> QED BY <1>0, <2>3, <3>1, SettleTypes, SetSessionTypes DEF ApplyAnswer, CallTypes
  <2>4. CASE TerminalAnswer(t)
    <3>1. Null \in Session
      BY DEF Session
    <3> QED BY <1>0, <2>4, <3>1, SettleTypes, SetSessionTypes
            DEF TerminalAnswer, CallTypes
  <2> QED BY <1>8, <2>1, <2>2, <2>3, <2>4 DEF HandleAnswer
<1>9. ASSUME NEW t \in Tabs, Commit(t) \/ RunEffect(t) PROVE TypeOK'
  <2>1. CASE Commit(t)
    BY <2>1 DEF Commit
  <2>2. CASE RunEffect(t)
    <3>1. effect[t] \in Session
      BY <2>2 DEF RunEffect
    <3> QED BY <2>2, <3>1 DEF RunEffect
  <2> QED BY <1>9, <2>1, <2>2
<1>10. ASSUME NEW t \in Tabs, OnStorage(t) \/ EventUnheard(t) PROVE TypeOK'
  <2>1. event' \in [Tabs -> Nat]
    BY <1>10 DEF OnStorage, EventUnheard, TakeEvent
  <2>2. CASE OnStorage(t)
    BY <2>1, <2>2 DEF OnStorage, SetSessionState
  <2>3. CASE EventUnheard(t)
    BY <2>1, <2>3 DEF EventUnheard
  <2> QED BY <1>10, <2>2, <2>3
<1>11. ASSUME NEW t \in Tabs, Login(t) PROVE TypeOK'
  <2> PICK new \in Unused : fate' = [fate EXCEPT ![new] = "live"] /\ SetSession(t, new)
    BY <1>11 DEF Login
  <2>1. new \in Session /\ fate' \in [Sessions -> Fates]
    BY DEF Unused, Session, Fates
  <2> QED BY <1>11, <2>1, SetSessionTypes DEF Login
<1>12. ASSUME NEW t \in Tabs, Logout(t) PROVE TypeOK'
  <2>1. Null \in Session
    BY DEF Session
  <2> QED BY <1>12, <2>1, SetSessionTypes DEF Logout
<1>13. ASSUME NEW t \in Tabs, Unmount(t) PROVE TypeOK'
  BY <1>13, LeaveTypes DEF Unmount
<1>14. ASSUME NEW t \in Tabs, CloseTab(t) PROVE TypeOK'
  BY <1>0, <1>14, LeaveTypes, SettleTypes, DropTypes DEF CloseTab, CallTypes, Fates
<1>15. ASSUME NEW t \in Tabs, Mount(t) PROVE TypeOK'
  BY <1>15 DEF Mount
<1>16. CASE UNCHANGED vars
  BY <1>16 DEF vars
<1> QED BY <1>1, <1>2, <1>3, <1>4, <1>5, <1>6, <1>7, <1>8, <1>9, <1>10, <1>11,
           <1>12, <1>13, <1>14, <1>15, <1>16 DEF Next, TabStep, Run

\* Every variable keeps its type.
THEOREM TypeCorrect == Spec => []TypeOK
<1>1. Init => TypeOK
  BY ConstantsOK DEF Init, TypeOK, Session, Replies, Reply, Fates
<1> QED BY <1>1, TypeStep, PTL DEF Spec

-----------------------------------------------------------------------------
(***************************************************************************)
(* A refresh never signs an origin in.                                     *)
(***************************************************************************)

\* A request is about a session, and nothing but a sent request has an answer.
CallsOK ==
  \A t \in Tabs :
    /\ call[t] = "sent" => about[t] \in Sessions
    /\ call[t] # "sent" => reply[t] = Reply("none")

LEMMA CallsStep == TypeOK /\ CallsOK /\ [Next]_vars => CallsOK'
<1> SUFFICES ASSUME TypeOK, CallsOK, [Next]_vars PROVE CallsOK'
  OBVIOUS
<1>1. ASSUME NEW t \in Tabs, Settle(t) PROVE CallsOK'
  BY <1>1 DEF Settle, CallsOK, TypeOK, Reply
<1>2. ASSUME UNCHANGED <<call, about, reply>> PROVE CallsOK'
  BY <1>2 DEF CallsOK
<1>3. ASSUME NEW t \in Tabs, RefreshSession(t) PROVE CallsOK'
  BY <1>3 DEF RefreshSession, CallsOK, TypeOK
<1>4. ASSUME NEW t \in Tabs, RunSends(t) PROVE CallsOK'
  BY <1>4 DEF RunSends, CallsOK, TypeOK, Session
<1>5. ASSUME NEW t \in Tabs, ServerRefreshes(t) PROVE CallsOK'
  BY <1>5 DEF ServerRefreshes, CallsOK, TypeOK, Reply
<1>6. ASSUME NEW t \in Tabs, AnswerLost(t) PROVE CallsOK'
  BY <1>6 DEF AnswerLost, CallsOK, TypeOK, Reply
<1> QED BY <1>1, <1>2, <1>3, <1>4, <1>5, <1>6
        DEF Next, TabStep, Run, RunGivesUp, RunAdopts, LockRefused, HandleAnswer,
            IgnoreAnswer, YieldToStorage, ApplyAnswer, TerminalAnswer, DeferAnswer,
            Commit, RunEffect, OnStorage, EventUnheard, Login, Logout, Unmount, CloseTab, Mount,
            ServerEnds, vars, callVars

\* However the tabs interleave, a refresh that was under way when the origin was signed
\* out never writes a session into storage: only a login does.
THEOREM RefreshNeverResurrects == Spec => NoResurrection
<1>1. Init => TypeOK /\ CallsOK
  BY ConstantsOK DEF Init, TypeOK, CallsOK, Session, Replies, Reply, Fates
<1>2. TypeOK /\ CallsOK /\ [Next]_vars => TypeOK' /\ CallsOK'
  BY TypeStep, CallsStep
<1>3. TypeOK /\ CallsOK /\ [Next]_vars =>
        [storage = Null /\ storage' # Null => \E t \in Tabs : Login(t)]_vars
  <2> SUFFICES ASSUME TypeOK, CallsOK, [Next]_vars, storage = Null, storage' # Null
               PROVE  \E t \in Tabs : Login(t)
    OBVIOUS
  <2>1. ASSUME NEW t \in Tabs, NEW next, SetSession(t, next) PROVE storage' = next
    BY <2>1 DEF SetSession, Store
  <2>2. ASSUME NEW t \in Tabs PROVE ~(RunAdopts(t) \/ YieldToStorage(t))
    BY <2>1 DEF RunAdopts, YieldToStorage
  <2>3. ASSUME NEW t \in Tabs PROVE ~(TerminalAnswer(t) \/ Logout(t))
    BY <2>1 DEF TerminalAnswer, Logout
  <2>4. ASSUME NEW t \in Tabs PROVE ~ApplyAnswer(t)
    BY ConstantsOK DEF ApplyAnswer, Answered, StorageUnchanged, CallsOK
  <2> QED BY <2>2, <2>3, <2>4
          DEF Next, TabStep, Run, RefreshSession, RunGivesUp, RunSends, LockRefused,
              ServerRefreshes, AnswerLost, HandleAnswer, IgnoreAnswer, DeferAnswer,
              Commit, RunEffect, OnStorage, EventUnheard, Unmount, CloseTab, Mount, ServerEnds, vars
<1> QED BY <1>1, <1>2, <1>3, PTL DEF Spec, NoResurrection

-----------------------------------------------------------------------------
(***************************************************************************)
(* The tabs and storage agree.                                             *)
(***************************************************************************)

\* What a tab shows: once every render is done, the effect that is due belongs to the
\* latest session, and sessionRef has it when none is due.
ReactOK ==
  \A t \in Tabs : mounted[t] /\ ~renderDue[t] =>
    IF effect[t] = NoEffect THEN ref[t] = session[t] ELSE effect[t] = session[t]

HeardOK ==
  \A t \in Tabs : mounted[t] /\ event[t] = 0 /\ ~missed[t] => session[t] = storage

AgreeInv == TypeOK /\ ReactOK /\ HeardOK

\* setSession in one tab: its state and storage are the new session, and every other
\* tab has an event to handle or already has that session.
LEMMA SetSessionAgrees ==
  ASSUME AgreeInv, TypeOK', NEW t \in Tabs, NEW next \in Session, SetSession(t, next),
         UNCHANGED <<mounted, effect>>
  PROVE  AgreeInv'
<1> USE DEF AgreeInv, SetSession, TypeOK
<1>1. HeardOK'
  BY DEF HeardOK, Store, SetSessionState
<1>2. ReactOK'
  <2> SUFFICES ASSUME NEW u \in Tabs, mounted[u], ~renderDue'[u]
               PROVE  IF effect[u] = NoEffect
                      THEN ref'[u] = session'[u] ELSE effect[u] = session'[u]
    BY DEF ReactOK
  <2>1. CASE u = t
    BY <2>1 DEF ReactOK, SetSessionState
  <2>2. CASE u # t
    BY <2>2 DEF ReactOK, SetSessionState
  <2> QED BY <2>1, <2>2
<1> QED BY <1>1, <1>2

\* The tabs agree at first,
LEMMA AgreeInit == Init => AgreeInv
BY ConstantsOK DEF Init, AgreeInv, ReactOK, HeardOK, TypeOK, Session, Replies, Reply,
   Fates

\* and every step of a provider keeps them so.
LEMMA AgreeStep == AgreeInv /\ [Next]_vars => AgreeInv'
<1> SUFFICES ASSUME AgreeInv, [Next]_vars PROVE AgreeInv'
  OBVIOUS
<1>0. TypeOK'
  BY TypeStep DEF AgreeInv
<1>1. ASSUME UNCHANGED <<storage, event, mounted, missed, reactVars, ref>>
      PROVE  AgreeInv'
  BY <1>0, <1>1 DEF AgreeInv, ReactOK, HeardOK, reactVars
<1>2. ASSUME NEW t \in Tabs, NEW next \in Session, SetSession(t, next),
             UNCHANGED <<mounted, effect>>
      PROVE  AgreeInv'
  BY <1>0, <1>2, SetSessionAgrees
<1>3. ASSUME NEW t \in Tabs, RunAdopts(t) \/ YieldToStorage(t) PROVE AgreeInv'
  BY <1>2, <1>3 DEF RunAdopts, YieldToStorage, AgreeInv, TypeOK
<1>4. ASSUME NEW t \in Tabs, ApplyAnswer(t) PROVE AgreeInv'
  <2>1. reply[t].new \in Session
    BY DEF AgreeInv, TypeOK, Replies
  <2> QED BY <1>2, <1>4, <2>1 DEF ApplyAnswer
<1>5. ASSUME NEW t \in Tabs, TerminalAnswer(t) \/ Logout(t) PROVE AgreeInv'
  BY <1>2, <1>5 DEF TerminalAnswer, Logout, Session
<1>6. ASSUME NEW t \in Tabs, Login(t) PROVE AgreeInv'
  BY <1>2, <1>6 DEF Login, Unused, Session
<1>7. ASSUME NEW t \in Tabs, Commit(t) PROVE AgreeInv'
  BY <1>0, <1>7, ConstantsOK
  DEF Commit, AgreeInv, ReactOK, HeardOK, TypeOK, Session, tabVars
<1>8. ASSUME NEW t \in Tabs, RunEffect(t) PROVE AgreeInv'
  BY <1>0, <1>8 DEF RunEffect, AgreeInv, ReactOK, HeardOK, TypeOK
<1>9. ASSUME NEW t \in Tabs, OnStorage(t) PROVE AgreeInv'
  <2>1. HeardOK'
    BY <1>9 DEF OnStorage, TakeEvent, SetSessionState, AgreeInv, HeardOK, TypeOK
  <2>2. ReactOK'
    BY <1>9 DEF OnStorage, SetSessionState, AgreeInv, ReactOK, TypeOK
  <2> QED BY <1>0, <2>1, <2>2 DEF AgreeInv
<1>12. ASSUME NEW t \in Tabs, EventUnheard(t) PROVE AgreeInv'
  <2>1. HeardOK'
    BY <1>12 DEF EventUnheard, TakeEvent, reactVars, AgreeInv, HeardOK, TypeOK
  <2>2. ReactOK'
    BY <1>12 DEF EventUnheard, reactVars, AgreeInv, ReactOK
  <2> QED BY <1>0, <2>1, <2>2 DEF AgreeInv
<1>10. ASSUME NEW t \in Tabs, Unmount(t) \/ CloseTab(t) PROVE AgreeInv'
  <2>1. /\ Leave(t) /\ UNCHANGED storage
        /\ \A u \in Tabs \ {t} : event'[u] = event[u]
    BY <1>10 DEF Unmount, CloseTab, AgreeInv, TypeOK
  <2> QED BY <1>0, <2>1 DEF Leave, AgreeInv, ReactOK, HeardOK, TypeOK
<1>11. ASSUME NEW t \in Tabs, Mount(t) PROVE AgreeInv'
  BY <1>0, <1>11, ConstantsOK DEF Mount, AgreeInv, ReactOK, HeardOK, TypeOK, Session
<1> QED BY <1>1, <1>3, <1>4, <1>5, <1>6, <1>7, <1>8, <1>9, <1>10, <1>11, <1>12
        DEF tabVars, Next, TabStep, Run, RefreshSession, RunGivesUp, RunSends, LockRefused,
            ServerRefreshes, AnswerLost, HandleAnswer, IgnoreAnswer, DeferAnswer,
            ServerEnds, vars

LEMMA AgreeEnough == AgreeInv => TabsAgree
BY DEF AgreeInv, ReactOK, HeardOK, TabsAgree

\* A tab that has handled its storage events, and missed none while its provider was
\* rendered for the first time, has the stored session as its state, and sessionRef too
\* once its effects have run, for any number of tabs.
THEOREM TabsAlwaysAgree == Spec => []TabsAgree
BY AgreeInit, AgreeStep, AgreeEnough, PTL DEF Spec

-----------------------------------------------------------------------------
(***************************************************************************)
(* Tokens.  The server rotates a token only for an answer, the answer has  *)
(* the only copy of the replacement, and nobody knows the replacement      *)
(* before the answer is applied.                                           *)
(***************************************************************************)

Knows(s) ==
  \/ storage = s
  \/ \E t \in Tabs : session[t] = s \/ effect[t] = s \/ ref[t] = s \/ about[t] = s

KnownOK == \A s \in Sessions : Knows(s) => fate[s] # "unused"

\* Tokens that the server refuses.
Spent == Fates \ {"unused", "live"}

AnswersOK ==
  \A t \in Tabs :
    /\ reply[t].kind = "reject" => fate[about[t]] \in Spent
    /\ reply[t].kind = "ok" =>
         /\ fate[about[t]] = "rotated"
         /\ reply[t].new \in Sessions
         /\ fate[reply[t].new] \in {"live", "ended"}
         /\ ~Knows(reply[t].new)
         /\ \A u \in Tabs \ {t} :
              reply[u].kind = "ok" => about[u] # about[t] /\ reply[u].new # reply[t].new

\* A call that became obsolete without a storage event is not about the stored session:
\* whatever made it obsolete wrote another one.
ObsoleteOK ==
  \A t \in Tabs :
    call[t] = "sent" /\ mounted[t] /\ ~valid[t] /\ ~disturbed[t] => storage # about[t]

TokenInv ==
  TypeOK /\ CallsOK /\ KnownOK /\ AnswersOK /\ ObsoleteOK /\ StoredTokenUsable

\* With Web Locks at most one tab waits for an answer.
OneRequest ==
  WebLocks => \A t, u \in Tabs : call[t] = "sent" /\ call[u] = "sent" => t = u

\* setSession makes no session known but the next one.
LEMMA SetSessionKnows ==
  ASSUME TypeOK, NEW t \in Tabs, NEW next, SetSession(t, next), UNCHANGED effect,
         \A u \in Tabs : about'[u] = about[u] \/ about'[u] = Null
  PROVE  \A s \in Sessions : Knows(s)' => Knows(s) \/ s = next
BY ConstantsOK DEF Knows, SetSession, SetSessionState, Store, TypeOK

LEMMA LeaveKnows ==
  ASSUME TypeOK, NEW t \in Tabs, Leave(t), UNCHANGED storage,
         \A u \in Tabs : about'[u] = about[u] \/ about'[u] = Null
  PROVE  \A s \in Sessions : Knows(s)' => Knows(s)
BY ConstantsOK DEF Knows, Leave, TypeOK

\* A step after which no call is obsolete that was not before, unless it changed the
\* stored session to none or to one that nobody knew.
LEMMA StaysObsolete ==
  ASSUME TypeOK, CallsOK, ObsoleteOK, storage' \in {storage, Null} \/ ~Knows(storage'),
         \A t \in Tabs : call'[t] = "sent" =>
           /\ call[t] = "sent" /\ about'[t] = about[t]
           /\ \/ storage' # storage
              \/ mounted'[t] /\ ~valid'[t] /\ ~disturbed'[t] =>
                   mounted[t] /\ ~valid[t] /\ ~disturbed[t]
  PROVE  ObsoleteOK'
<1> SUFFICES ASSUME NEW t \in Tabs, call'[t] = "sent", mounted'[t],
                    ~valid'[t], ~disturbed'[t], storage' = about[t]
             PROVE  FALSE
  BY DEF ObsoleteOK
<1>1. about[t] \in Sessions /\ Knows(about[t])
  BY DEF CallsOK, Knows
<1> QED BY <1>1, ConstantsOK DEF ObsoleteOK

LEMMA ObsoleteStep ==
  ASSUME TypeOK, CallsOK, KnownOK, AnswersOK, ObsoleteOK, [Next]_vars
  PROVE  ObsoleteOK'
<1>s. ASSUME NEW t \in Tabs, Settle(t)
      PROVE  /\ call'[t] = "idle"
             /\ \A u \in Tabs \ {t} : /\ call'[u] = call[u] /\ about'[u] = about[u]
                                      /\ valid'[u] = valid[u]
                                      /\ disturbed'[u] = disturbed[u]
  BY <1>s DEF Settle, TypeOK
<1>n. ASSUME NEW t \in Tabs, NEW next, SetSession(t, next)
      PROVE  /\ storage' = next
             /\ \A u \in Tabs \ {t} : valid'[u] = valid[u]
  BY <1>n DEF SetSession, Store, TypeOK
<1>1. ASSUME NEW t \in Tabs, RefreshSession(t) PROVE ObsoleteOK'
  BY <1>1, StaysObsolete DEF RefreshSession, TypeOK, tabVars
<1>2. ASSUME NEW t \in Tabs, RunGivesUp(t) \/ LockRefused(t) PROVE ObsoleteOK'
  BY <1>2, <1>s, StaysObsolete DEF RunGivesUp, LockRefused, tabVars
<1>3. ASSUME NEW t \in Tabs, RunAdopts(t) \/ YieldToStorage(t) PROVE ObsoleteOK'
  <2>1. Settle(t) /\ storage' = storage /\ UNCHANGED mounted
    BY <1>3, <1>n DEF RunAdopts, YieldToStorage
  <2> QED BY <2>1, <1>s, StaysObsolete
<1>4. ASSUME NEW t \in Tabs, RunSends(t) PROVE ObsoleteOK'
  <2>1. valid'[t] /\ storage' = storage
    BY <1>4 DEF RunSends, CurrentRequest
  <2>2. \A u \in Tabs \ {t} : call'[u] = call[u] /\ about'[u] = about[u]
    BY <1>4 DEF RunSends, TypeOK
  <2> QED BY <1>4, <2>1, <2>2 DEF RunSends, ObsoleteOK, tabVars
<1>5. ASSUME NEW t \in Tabs, ServerRefreshes(t) \/ AnswerLost(t) PROVE ObsoleteOK'
  BY <1>5 DEF ServerRefreshes, AnswerLost, ObsoleteOK, tabVars
<1>6. ASSUME NEW t \in Tabs, IgnoreAnswer(t) \/ DeferAnswer(t) PROVE ObsoleteOK'
  BY <1>6, <1>s, StaysObsolete DEF IgnoreAnswer, DeferAnswer, tabVars
<1>7. ASSUME NEW t \in Tabs, ApplyAnswer(t) PROVE ObsoleteOK'
  <2>1. Settle(t) /\ SetSession(t, reply[t].new) /\ UNCHANGED mounted
    BY <1>7 DEF ApplyAnswer
  <2>2. ~Knows(reply[t].new)
    BY <1>7 DEF ApplyAnswer, AnswersOK
  <2>3. storage' # storage
    BY <2>1, <2>2, <1>n DEF Knows
  <2> QED BY <2>1, <2>2, <2>3, <1>n, <1>s, StaysObsolete
<1>8. ASSUME NEW t \in Tabs, TerminalAnswer(t) PROVE ObsoleteOK'
  BY <1>8, <1>n, <1>s, StaysObsolete DEF TerminalAnswer
<1>9. ASSUME NEW t \in Tabs, Login(t) PROVE ObsoleteOK'
  <2> PICK new \in Unused : SetSession(t, new)
    BY <1>9 DEF Login
  <2>1. ~Knows(new)
    BY DEF KnownOK, Unused
  <2>2. storage' = new /\ storage' # storage
    BY <2>1, <1>n DEF Knows
  <2> QED BY <1>9, <2>1, <2>2, StaysObsolete DEF Login
<1>10. ASSUME NEW t \in Tabs, Logout(t) PROVE ObsoleteOK'
  <2>1. storage' = Null /\ \A u \in Tabs \ {t} : valid'[u] = valid[u]
    BY <1>10, <1>n DEF Logout
  <2>2. call[t] = "sent" => about[t] # Null
    BY ConstantsOK DEF CallsOK
  <2> QED BY <1>10, <2>1, <2>2, ConstantsOK DEF Logout, ObsoleteOK, CallsOK
<1>11. ASSUME NEW t \in Tabs, Commit(t) \/ RunEffect(t) \/ EventUnheard(t) \/ Mount(t)
       PROVE  ObsoleteOK'
  <2>1. UNCHANGED <<storage, call, about, valid, disturbed>>
    BY <1>11 DEF Commit, RunEffect, EventUnheard, Mount, callVars
  <2>2. \A u \in Tabs : call[u] = "sent" => mounted'[u] = mounted[u]
    BY <1>11 DEF Commit, RunEffect, EventUnheard, Mount, tabVars, TypeOK
  <2> QED BY <2>1, <2>2, StaysObsolete
<1>12. ASSUME NEW t \in Tabs, OnStorage(t) PROVE ObsoleteOK'
  BY <1>12, StaysObsolete DEF OnStorage, TypeOK
<1>13. ASSUME NEW t \in Tabs, Unmount(t) PROVE ObsoleteOK'
  BY <1>13, StaysObsolete DEF Unmount, Leave, TypeOK
<1>14. ASSUME NEW t \in Tabs, CloseTab(t) PROVE ObsoleteOK'
  <2>1. Settle(t) /\ UNCHANGED storage /\ \A u \in Tabs \ {t} : mounted'[u] = mounted[u]
    BY <1>14 DEF CloseTab, Leave, TypeOK
  <2> QED BY <2>1, <1>s, StaysObsolete
<1>15. CASE ServerEnds \/ UNCHANGED vars
  BY <1>15, StaysObsolete DEF ServerEnds, vars, tabVars, callVars
<1> QED BY <1>1, <1>2, <1>3, <1>4, <1>5, <1>6, <1>7, <1>8, <1>9, <1>10, <1>11, <1>12,
           <1>13, <1>14, <1>15 DEF Next, TabStep, Run, HandleAnswer

\* A step that leaves the calls and the server alone and passes on known sessions.
LEMMA QuietStep ==
  ASSUME TokenInv, TypeOK', CallsOK', ObsoleteOK',
         UNCHANGED <<fate, about, reply>>,
         storage' \in {storage, Null},
         \A s \in Sessions : Knows(s)' => Knows(s)
  PROVE  TokenInv'
<1> USE DEF TokenInv
<1>1. KnownOK' /\ StoredTokenUsable'
  BY DEF KnownOK, StoredTokenUsable
<1>2. AnswersOK'
  BY DEF AnswersOK
<1> QED BY <1>1, <1>2

\* A tab that has no answer any more, and took none that the server still counts on.
LEMMA AnswerGone ==
  ASSUME TokenInv, TypeOK', CallsOK', ObsoleteOK', NEW t \in Tabs,
         NEW how \in {"lost", "lapsed", "overtaken", "dropped"},
         DropAnswer(t, how) \/ ServedInVain(t),
         how = "dropped" => storage' # about[t],
         reply'[t].kind \notin {"ok", "reject"},
         \A u \in Tabs \ {t} : reply'[u] = reply[u] /\ about'[u] = about[u],
         storage' \in {storage, Null},
         \A s \in Sessions : Knows(s)' => Knows(s)
  PROVE  TokenInv'
<1> USE DEF TokenInv
<1>1. \A s \in Sessions : fate'[s] # fate[s] =>
        s = about[t] /\ fate'[s] \in {"lost", how}
  BY DEF DropAnswer, ServedInVain, TypeOK
<1>2. \A u \in Tabs : reply[u].kind \in {"ok", "reject"} => about[u] \in Sessions
  BY DEF CallsOK, Reply
<1>3. KnownOK'
  BY <1>1 DEF KnownOK
<1>4. AnswersOK'
  <2> SUFFICES ASSUME NEW u \in Tabs PROVE AnswersOK!(u)'
    BY DEF AnswersOK
  <2>1. CASE u = t
    BY <2>1
  <2>2. CASE u # t
    <3>1. CASE reply[u].kind = "reject"
      BY <1>1, <1>2, <2>2, <3>1 DEF AnswersOK, Spent, Fates
    <3>2. CASE reply[u].kind = "ok"
      <4>1. fate'[about[u]] = "rotated"
        BY <1>1, <1>2, <2>2, <3>2 DEF AnswersOK, DropAnswer, ServedInVain, TypeOK
      <4>2. reply[u].new \in Sessions /\ reply[u].new # about[t]
        BY <3>2 DEF AnswersOK, Knows
      <4> QED BY <1>1, <2>2, <3>2, <4>1, <4>2 DEF AnswersOK
    <3> QED BY <2>2, <3>1, <3>2
  <2> QED BY <2>1, <2>2
<1>5. StoredTokenUsable'
  <2> SUFFICES ASSUME storage # Null, storage' = storage,
                      fate'[storage] \notin {"live", "ended", "lost", "lapsed", "overtaken"}
               PROVE  /\ fate'[storage] = "rotated"
                      /\ \E u \in Tabs : about'[u] = storage /\ reply'[u].kind = "ok"
    BY DEF StoredTokenUsable
  <2>1. storage \in Sessions /\ fate'[storage] = fate[storage]
    BY <1>1 DEF TypeOK, Session
  <2>2. /\ fate[storage] = "rotated"
        /\ \E u \in Tabs : about[u] = storage /\ reply[u].kind = "ok"
    BY <2>1 DEF StoredTokenUsable
  <2>3. PICK u \in Tabs : about[u] = storage /\ reply[u].kind = "ok"
    BY <2>2
  <2>4. u # t
    BY <2>1, <2>2, <2>3 DEF DropAnswer, ServedInVain, TypeOK
  <2> QED BY <2>1, <2>2, <2>3, <2>4
<1> QED BY <1>3, <1>4, <1>5

\* The server answers: the replacement is a session nobody knows.
LEMMA ServerRefreshesKeeps ==
  ASSUME TokenInv, TypeOK', CallsOK', ObsoleteOK', NEW t \in Tabs, ServerRefreshes(t)
  PROVE  TokenInv'
<1> USE DEF TokenInv
<1>1. \A s : Knows(s)' <=> Knows(s)
  BY DEF ServerRefreshes, Knows, reactVars
<1>2. about[t] \in Sessions /\ Knows(about[t]) /\ fate[about[t]] # "unused"
  BY DEF ServerRefreshes, CallsOK, Reply, Knows, KnownOK
<1>3. CASE fate[about[t]] = "live"
  <2> PICK new \in Unused :
        /\ fate' = [fate EXCEPT ![about[t]] = "rotated", ![new] = "live"]
        /\ reply' = [reply EXCEPT ![t] = [kind |-> "ok", new |-> new]]
    BY <1>3 DEF ServerRefreshes
  <2>1. new \in Sessions /\ fate[new] = "unused" /\ ~Knows(new) /\ new # about[t]
    BY <1>2 DEF Unused, KnownOK
  <2>2. UNCHANGED <<storage, about>>
    BY DEF ServerRefreshes
  <2>3. \A s \in Sessions \ {about[t], new} : fate'[s] = fate[s]
    BY DEF TypeOK
  <2>4. fate'[about[t]] = "rotated" /\ fate'[new] = "live"
    BY <1>2, <2>1 DEF TypeOK
  <2>5. reply'[t] = [kind |-> "ok", new |-> new]
        /\ \A u \in Tabs \ {t} : reply'[u] = reply[u]
    BY DEF TypeOK
  <2>6. KnownOK'
    BY <1>1, <2>3, <2>4 DEF KnownOK
  <2>7. AnswersOK'
    <3> SUFFICES ASSUME NEW u \in Tabs PROVE AnswersOK!(u)'
      BY DEF AnswersOK
    <3>1. \A v \in Tabs \ {t} : reply[v].kind = "ok" =>
            /\ about[v] \in Sessions /\ about[v] # about[t] /\ about[v] # new
            /\ reply[v].new # new /\ reply[v].new # about[t]
      BY <1>2, <1>3, <2>1 DEF AnswersOK, CallsOK, Reply
    <3>2. CASE u = t
      BY <1>1, <2>1, <2>2, <2>4, <2>5, <3>1, <3>2
    <3>3. CASE u # t
      <4>1. CASE reply[u].kind = "reject"
        <5>1. about[u] \in Sessions
          BY <4>1 DEF CallsOK, Reply
        <5>2. fate[about[u]] \in Spent
          BY <4>1 DEF AnswersOK
        <5>3. fate'[about'[u]] \in Spent
          BY <1>2, <1>3, <2>1, <2>2, <2>3, <5>1, <5>2 DEF Spent
        <5>4. reply'[u].kind = "reject"
          BY <2>5, <3>3, <4>1
        <5> QED BY <5>3, <5>4
      <4>2. CASE reply[u].kind = "ok"
        <5>1. reply[u].new \in Sessions \ {about[t], new}
          BY <3>1, <3>3, <4>2 DEF AnswersOK
        <5>2. /\ fate'[about[u]] = "rotated"
              /\ fate'[reply[u].new] \in {"live", "ended"}
              /\ ~Knows(reply[u].new)'
          BY <1>1, <2>3, <2>5, <3>1, <3>3, <4>2, <5>1 DEF AnswersOK
        <5>3. ASSUME NEW v \in Tabs \ {u}, reply'[v].kind = "ok"
              PROVE  about[v] # about[u] /\ reply'[v].new # reply[u].new
          <6>1. CASE v = t
            BY <2>5, <3>1, <3>3, <4>2, <6>1
          <6>2. CASE v # t
            BY <2>5, <4>2, <5>3, <6>2 DEF AnswersOK
          <6> QED BY <6>1, <6>2
        <5>4. reply'[u] = reply[u]
          BY <2>5, <3>3
        <5> QED BY <2>2, <4>2, <5>1, <5>2, <5>3, <5>4
      <4>3. CASE reply[u].kind \notin {"ok", "reject"}
        BY <2>5, <3>3, <4>3
      <4> QED BY <4>1, <4>2, <4>3
    <3> QED BY <3>2, <3>3
  <2>8. StoredTokenUsable'
    <3>1. storage # new
      BY <2>1 DEF Knows
    <3> QED BY <2>2, <2>3, <2>4, <2>5, <3>1, <1>3
            DEF StoredTokenUsable, TypeOK, Session
  <2> QED BY <2>6, <2>7, <2>8
<1>4. CASE fate[about[t]] # "live"
  <2>1. /\ reply' = [reply EXCEPT ![t] = Reply("reject")]
        /\ UNCHANGED <<storage, about, fate>>
        /\ reply[t].kind = "waiting"
    BY <1>4 DEF ServerRefreshes
  <2>2. fate[about[t]] \in Spent
    BY <1>2, <1>4 DEF TypeOK, Fates, Spent
  <2>3. AnswersOK'
    BY <1>1, <2>1, <2>2 DEF AnswersOK, TypeOK, Reply
  <2> QED BY <1>1, <2>1, <2>3 DEF KnownOK, StoredTokenUsable, TypeOK
<1> QED BY <1>3, <1>4

\* The answer is applied: its replacement becomes known, and is what storage holds.
LEMMA ApplyAnswerKeeps ==
  ASSUME TokenInv, TypeOK', CallsOK', ObsoleteOK', NEW t \in Tabs, ApplyAnswer(t)
  PROVE  TokenInv'
<1> USE DEF TokenInv
<1> DEFINE next == reply[t].new
<1>1. /\ reply[t].kind = "ok" /\ next \in Sessions /\ fate[next] \in {"live", "ended"}
      /\ SetSession(t, next) /\ Settle(t) /\ UNCHANGED <<mounted, effect, fate>>
  BY DEF ApplyAnswer, AnswersOK
<1>2. /\ \A u \in Tabs \ {t} : reply'[u] = reply[u] /\ about'[u] = about[u]
      /\ reply'[t].kind = "none" /\ about'[t] = Null /\ storage' = next
  BY <1>1 DEF Settle, SetSession, Store, TypeOK, Reply
<1>3. \A s \in Sessions : Knows(s)' => Knows(s) \/ s = next
  BY <1>1, <1>2, SetSessionKnows
<1>4. \A u \in Tabs \ {t} : reply[u].kind = "ok" => reply[u].new # next
  BY <1>1 DEF AnswersOK
<1> HIDE DEF next
<1>5. KnownOK'
  BY <1>1, <1>3 DEF KnownOK
<1>6. AnswersOK'
  <2> SUFFICES ASSUME NEW u \in Tabs PROVE AnswersOK!(u)'
    BY DEF AnswersOK
  <2>1. CASE u = t
    BY <1>2, <2>1
  <2>2. CASE u # t
    BY <1>1, <1>2, <1>3, <1>4, <2>2 DEF AnswersOK
  <2> QED BY <2>1, <2>2
<1>7. StoredTokenUsable'
  BY <1>1, <1>2 DEF StoredTokenUsable
<1> QED BY <1>5, <1>6, <1>7

LEMMA LoginKeeps ==
  ASSUME TokenInv, TypeOK', CallsOK', ObsoleteOK', NEW t \in Tabs, Login(t)
  PROVE  TokenInv'
<1> USE DEF TokenInv
<1> PICK new \in Unused : fate' = [fate EXCEPT ![new] = "live"] /\ SetSession(t, new)
  BY DEF Login
<1>1. UNCHANGED <<mounted, effect, call, about, reply>> /\ storage' = new
  BY DEF Login, SetSession, Store
<1>2. /\ new \in Sessions /\ fate[new] = "unused" /\ fate'[new] = "live"
      /\ \A s \in Sessions \ {new} : fate'[s] = fate[s]
  BY DEF Unused, TypeOK
<1>3. \A s \in Sessions : Knows(s)' => Knows(s) \/ s = new
  BY <1>1, SetSessionKnows
<1>4. KnownOK'
  BY <1>2, <1>3 DEF KnownOK
<1>5. AnswersOK'
  <2> SUFFICES ASSUME NEW u \in Tabs PROVE AnswersOK!(u)'
    BY DEF AnswersOK
  <2>1. CASE reply[u].kind \in {"ok", "reject"}
    <3>1. about[u] \in Sessions /\ about[u] # new
      BY <1>2, <2>1 DEF CallsOK, AnswersOK, Reply, Spent
    <3>2. fate'[about[u]] = fate[about[u]]
      BY <1>2, <3>1
    <3>3. reply[u].kind = "ok" => reply[u].new \in Sessions \ {new}
      BY <1>2 DEF AnswersOK
    <3>4. CASE reply[u].kind = "reject"
      <4>1. fate[about[u]] \in Spent
        BY <3>4 DEF AnswersOK
      <4> QED BY <1>1, <3>2, <3>4, <4>1
    <3>5. CASE reply[u].kind = "ok"
      <4>1. fate'[reply[u].new] = fate[reply[u].new]
        BY <1>2, <3>3, <3>5
      <4>2. ~Knows(reply[u].new)'
        BY <1>1, <1>3, <3>3, <3>5 DEF AnswersOK
      <4> QED BY <1>1, <3>2, <3>3, <3>5, <4>1, <4>2 DEF AnswersOK
    <3> QED BY <2>1, <3>4, <3>5
  <2>2. CASE reply[u].kind \notin {"ok", "reject"}
    BY <1>1, <2>2
  <2> QED BY <2>1, <2>2
<1>6. StoredTokenUsable'
  BY <1>1, <1>2 DEF StoredTokenUsable
<1> QED BY <1>4, <1>5, <1>6

LEMMA ServerEndsKeeps ==
  ASSUME TokenInv, TypeOK', CallsOK', ObsoleteOK', ServerEnds
  PROVE  TokenInv'
<1> USE DEF TokenInv
<1> PICK s \in Live : fate' = [fate EXCEPT ![s] = "ended"]
  BY DEF ServerEnds
<1>1. UNCHANGED <<storage, event, tabVars, reactVars, ref, callVars>>
  BY DEF ServerEnds
<1>2. fate[s] = "live" /\ \A r \in Sessions : fate'[r] = IF r = s THEN "ended" ELSE fate[r]
  BY DEF Live, TypeOK
<1>3. \A r : Knows(r)' <=> Knows(r)
  BY <1>1 DEF Knows, reactVars, callVars
<1>4. \A t \in Tabs : reply[t].kind \in {"ok", "reject"} => about[t] \in Sessions
  BY DEF CallsOK, Reply
<1>5. KnownOK' /\ AnswersOK'
  BY <1>1, <1>2, <1>3, <1>4 DEF KnownOK, AnswersOK, callVars, Spent, Fates
<1>6. StoredTokenUsable'
  BY <1>1, <1>2 DEF StoredTokenUsable, callVars, TypeOK, Session
<1> QED BY <1>5, <1>6

\* A tab's call settles before it has an answer, or after it dropped one.
LEMMA SettledStep ==
  ASSUME TokenInv, TypeOK', CallsOK', ObsoleteOK', NEW t \in Tabs, Settle(t),
         NEW how \in {"lost", "lapsed", "overtaken", "dropped"},
         DropAnswer(t, how) \/ ServedInVain(t),
         how = "dropped" => storage' # about[t],
         storage' \in {storage, Null},
         \A s \in Sessions : Knows(s)' => Knows(s)
  PROVE  TokenInv'
<1>1. /\ reply'[t].kind = "none"
      /\ \A u \in Tabs \ {t} : reply'[u] = reply[u] /\ about'[u] = about[u]
  BY DEF TokenInv, Settle, TypeOK, Reply
<1> QED BY <1>1, AnswerGone

LEMMA TokenStep == TokenInv /\ [Next]_vars => TokenInv'
<1> SUFFICES ASSUME TokenInv, [Next]_vars PROVE TokenInv'
  OBVIOUS
<1>0. TypeOK /\ CallsOK /\ TypeOK' /\ CallsOK' /\ ObsoleteOK'
  BY TypeStep, CallsStep, ObsoleteStep DEF TokenInv
<1>s. ASSUME NEW t \in Tabs, Settle(t)
      PROVE  \A u \in Tabs : about'[u] = about[u] \/ about'[u] = Null
  BY <1>0, <1>s DEF Settle, TypeOK
<1>1. ASSUME NEW t \in Tabs, RefreshSession(t) PROVE TokenInv'
  <2>1. about' = [about EXCEPT ![t] = ref[t]] /\ UNCHANGED <<storage, reply, fate>>
    BY <1>1 DEF RefreshSession
  <2>2. reply[t].kind = "none"
    BY <1>0, <1>1 DEF RefreshSession, CallsOK, Reply
  <2>3. \A s \in Sessions : Knows(s)' => Knows(s)
    BY <1>0, <1>1 DEF RefreshSession, Knows, TypeOK, reactVars
  <2>4. DropAnswer(t, "lost")
    BY <2>1, <2>2 DEF DropAnswer
  <2>5. \A u \in Tabs \ {t} : about'[u] = about[u]
    BY <1>0, <2>1 DEF TypeOK
  <2> QED BY <1>0, <2>1, <2>2, <2>3, <2>4, <2>5, AnswerGone
<1>2. ASSUME NEW t \in Tabs, RunGivesUp(t) \/ LockRefused(t) PROVE TokenInv'
  <2>1. Settle(t) /\ call[t] = "queued"
        /\ UNCHANGED <<storage, event, tabVars, reactVars, ref, fate>>
    BY <1>2 DEF RunGivesUp, LockRefused, LockGranted
  <2>2. DropAnswer(t, "lost")
    BY <1>0, <2>1 DEF CallsOK, Reply, DropAnswer
  <2>3. \A s \in Sessions : Knows(s)' => Knows(s)
    BY <1>s, <2>1, ConstantsOK DEF Knows, reactVars
  <2> QED BY <1>0, <2>1, <2>2, <2>3, SettledStep
<1>3. ASSUME NEW t \in Tabs, RunAdopts(t) PROVE TokenInv'
  <2>1. /\ Settle(t) /\ call[t] = "queued" /\ SetSession(t, storage)
        /\ UNCHANGED <<mounted, effect, fate>>
    BY <1>3 DEF RunAdopts, LockGranted
  <2>2. DropAnswer(t, "lost")
    BY <1>0, <2>1 DEF CallsOK, Reply, DropAnswer
  <2>3. storage' = storage /\ \A s \in Sessions : Knows(s)' => Knows(s) \/ s = storage
    BY <1>0, <1>s, <2>1, SetSessionKnows DEF SetSession, Store
  <2>4. \A s \in Sessions : Knows(s)' => Knows(s)
    BY <2>3 DEF Knows
  <2> QED BY <1>0, <2>1, <2>2, <2>3, <2>4, SettledStep
<1>4. ASSUME NEW t \in Tabs, RunSends(t) PROVE TokenInv'
  <2>1. /\ about' = [about EXCEPT ![t] = ref[t]]
        /\ reply' = [reply EXCEPT ![t] = Reply("waiting")]
        /\ call[t] = "queued"
        /\ UNCHANGED <<storage, event, tabVars, reactVars, ref, fate>>
    BY <1>4 DEF RunSends, LockGranted
  <2>2. DropAnswer(t, "lost")
    BY <1>0, <2>1 DEF CallsOK, Reply, DropAnswer
  <2>3. \A s \in Sessions : Knows(s)' => Knows(s)
    BY <1>0, <2>1 DEF Knows, TypeOK, reactVars
  <2>4. /\ reply'[t].kind = "waiting"
        /\ \A u \in Tabs \ {t} : reply'[u] = reply[u] /\ about'[u] = about[u]
    BY <1>0, <2>1 DEF TypeOK, Reply
  <2> QED BY <1>0, <2>1, <2>2, <2>3, <2>4, AnswerGone
<1>5. ASSUME NEW t \in Tabs, ServerRefreshes(t) PROVE TokenInv'
  BY <1>0, <1>5, ServerRefreshesKeeps
<1>6. ASSUME NEW t \in Tabs, AnswerLost(t) PROVE TokenInv'
  <2>1. /\ DropAnswer(t, "lost") \/ ServedInVain(t)
        /\ reply' = [reply EXCEPT ![t] = Reply("transient")]
        /\ UNCHANGED <<storage, event, tabVars, reactVars, ref, about>>
    BY <1>6 DEF AnswerLost
  <2>2. /\ reply'[t].kind = "transient"
        /\ \A u \in Tabs \ {t} : reply'[u] = reply[u] /\ about'[u] = about[u]
    BY <1>0, <2>1 DEF TypeOK, Reply
  <2>3. \A s \in Sessions : Knows(s)' => Knows(s)
    BY <2>1 DEF Knows, reactVars
  <2> QED BY <1>0, <2>1, <2>2, <2>3, AnswerGone
<1>7. CASE ServerEnds
  BY <1>0, <1>7, ServerEndsKeeps
<1>8. ASSUME NEW t \in Tabs, IgnoreAnswer(t) \/ DeferAnswer(t) PROVE TokenInv'
  <2>1. /\ Settle(t) /\ (DropAnswer(t, Obsolete(t)) \/ DropAnswer(t, "lapsed"))
        /\ UNCHANGED <<storage, event, tabVars, reactVars, ref>>
    BY <1>8 DEF IgnoreAnswer, DeferAnswer
  <2>2. \A s \in Sessions : Knows(s)' => Knows(s)
    BY <1>s, <2>1, ConstantsOK DEF Knows, reactVars
  <2>3. CASE DropAnswer(t, "lapsed")
    BY <1>0, <2>1, <2>2, <2>3, SettledStep
  <2>4. CASE DropAnswer(t, Obsolete(t)) /\ IgnoreAnswer(t)
    <3>1. Obsolete(t) \in {"lost", "lapsed", "overtaken", "dropped"}
      BY DEF Obsolete
    <3>2. Obsolete(t) = "dropped" => storage' # about[t]
      BY <2>1, <2>4 DEF IgnoreAnswer, Answered, CurrentRequest, Obsolete, TokenInv, ObsoleteOK
    <3> QED BY <1>0, <2>1, <2>2, <2>4, <3>1, <3>2, SettledStep
  <2> QED BY <1>8, <2>3, <2>4 DEF IgnoreAnswer, DeferAnswer
<1>9. ASSUME NEW t \in Tabs, YieldToStorage(t) PROVE TokenInv'
  <2>1. /\ Settle(t) /\ DropAnswer(t, "dropped") /\ SetSession(t, storage)
        /\ UNCHANGED effect /\ storage # about[t]
    BY <1>9 DEF YieldToStorage, StorageUnchanged
  <2>2. storage' = storage /\ \A s \in Sessions : Knows(s)' => Knows(s) \/ s = storage
    BY <1>0, <1>s, <2>1, SetSessionKnows DEF SetSession, Store
  <2>3. \A s \in Sessions : Knows(s)' => Knows(s)
    BY <2>2 DEF Knows
  <2> QED BY <1>0, <2>1, <2>2, <2>3, SettledStep
<1>10. ASSUME NEW t \in Tabs, ApplyAnswer(t) PROVE TokenInv'
  BY <1>0, <1>10, ApplyAnswerKeeps
<1>11. ASSUME NEW t \in Tabs, TerminalAnswer(t) PROVE TokenInv'
  <2>1. /\ Settle(t) /\ SetSession(t, Null) /\ reply[t].kind = "reject"
        /\ UNCHANGED <<effect, fate>>
    BY <1>11 DEF TerminalAnswer
  <2>2. DropAnswer(t, "lost") /\ storage' = Null
    BY <2>1 DEF DropAnswer, SetSession, Store
  <2>3. \A s \in Sessions : Knows(s)' => Knows(s)
    BY <1>0, <1>s, <2>1, SetSessionKnows, ConstantsOK
  <2> QED BY <1>0, <2>1, <2>2, <2>3, SettledStep
<1>12. ASSUME NEW t \in Tabs, Commit(t) \/ RunEffect(t) \/ OnStorage(t) \/ EventUnheard(t)
                          \/ Mount(t)
       PROVE  TokenInv'
  <2>1. UNCHANGED <<storage, fate, about, reply>>
    BY <1>12 DEF Commit, RunEffect, OnStorage, EventUnheard, Mount, callVars
  <2>2. \A s \in Sessions : Knows(s)' => Knows(s)
    <3>1. CASE Commit(t)
      BY <1>0, <3>1, ConstantsOK DEF Commit, Knows, TypeOK, callVars
    <3>2. CASE RunEffect(t)
      BY <1>0, <3>2, ConstantsOK DEF RunEffect, Knows, TypeOK, callVars
    <3>3. CASE OnStorage(t)
      BY <1>0, <3>3, ConstantsOK DEF OnStorage, SetSessionState, Knows, TypeOK
    <3>4. CASE Mount(t)
      BY <1>0, <3>4, ConstantsOK DEF Mount, Knows, TypeOK, callVars
    <3>5. CASE EventUnheard(t)
      BY <3>5 DEF EventUnheard, Knows, reactVars, callVars
    <3> QED BY <1>12, <3>1, <3>2, <3>3, <3>4, <3>5
  <2> QED BY <1>0, <2>1, <2>2, QuietStep
<1>13. ASSUME NEW t \in Tabs, Login(t) PROVE TokenInv'
  BY <1>0, <1>13, LoginKeeps
<1>14. ASSUME NEW t \in Tabs, Logout(t) PROVE TokenInv'
  <2>1. SetSession(t, Null) /\ UNCHANGED <<effect, fate, about, reply>>
    BY <1>14 DEF Logout
  <2>2. storage' = Null /\ \A s \in Sessions : Knows(s)' => Knows(s)
    BY <1>0, <2>1, SetSessionKnows, ConstantsOK DEF SetSession, Store
  <2> QED BY <1>0, <2>1, <2>2, QuietStep
<1>15. ASSUME NEW t \in Tabs, Unmount(t) PROVE TokenInv'
  <2>1. Leave(t) /\ UNCHANGED <<storage, fate, about, reply>>
    BY <1>15 DEF Unmount
  <2>2. \A s \in Sessions : Knows(s)' => Knows(s)
    BY <1>0, <2>1, LeaveKnows
  <2> QED BY <1>0, <2>1, <2>2, QuietStep
<1>16. ASSUME NEW t \in Tabs, CloseTab(t) PROVE TokenInv'
  <2>1. Leave(t) /\ Settle(t) /\ (DropAnswer(t, "lost") \/ ServedInVain(t)) /\ UNCHANGED storage
    BY <1>16 DEF CloseTab
  <2>2. \A s \in Sessions : Knows(s)' => Knows(s)
    BY <1>0, <1>s, <2>1, LeaveKnows
  <2> QED BY <1>0, <2>1, <2>2, SettledStep
<1>17. CASE UNCHANGED vars
  BY <1>0, <1>17, QuietStep DEF vars, Knows, reactVars, callVars
<1> QED BY <1>1, <1>2, <1>3, <1>4, <1>5, <1>6, <1>7, <1>8, <1>9, <1>10, <1>11,
           <1>12, <1>13, <1>14, <1>15, <1>16, <1>17
        DEF Next, TabStep, Run, HandleAnswer

\* At first every token that is known is live.
LEMMA TokenInit == Init => TokenInv
BY ConstantsOK DEF Init, TokenInv, TypeOK, CallsOK, KnownOK, AnswersOK,
   ObsoleteOK, StoredTokenUsable, Knows, Session, Replies, Reply, Fates

\* No provider throws away the answer that storage depends on, with Web Locks or without
\* them: what can spend the stored token is a lost answer, a client whose clock is ahead
\* and a storage event that comes late.
THEOREM StoredTokenAlwaysUsable == Spec => []StoredTokenUsable
<1>1. TokenInv => StoredTokenUsable
  BY DEF TokenInv
<1> QED BY <1>1, TokenInit, TokenStep, PTL DEF Spec

-----------------------------------------------------------------------------
(***************************************************************************)
(* A tab that missed a write catches up.                                   *)
(***************************************************************************)

\* What a tab still holds of an earlier session.
Holds(t) == {ref[t], effect[t], about[t]}

\* Storage never goes back to a session: if a tab still holds the stored one of what
\* was before, it shows it too.
OlderOK ==
  \A t \in Tabs : mounted[t] /\ storage \in Sessions \cap Holds(t) => session[t] = storage

CatchUpInv == TokenInv /\ AgreeInv /\ OlderOK

\* A step after which storage holds what it did, none, or a session that nobody knew, and
\* each tab shows that or holds nothing it did not hold or show before.
LEMMA StaysOlder ==
  ASSUME TypeOK, OlderOK, storage' \in {storage, Null} \/ ~Knows(storage'),
         \A t \in Tabs : mounted'[t] =>
           \/ session'[t] = storage'
           \/ /\ mounted[t] /\ session'[t] = session[t]
              /\ Holds(t)' \cap Sessions \subseteq Holds(t) \cup {session[t]}
  PROVE  OlderOK'
<1> SUFFICES ASSUME NEW t \in Tabs, mounted'[t], storage' \in Sessions, storage' \in Holds(t)',
                    session'[t] # storage'
             PROVE  FALSE
  BY DEF OlderOK
<1>1. /\ mounted[t] /\ session'[t] = session[t]
      /\ storage' \in Holds(t) \cup {session[t]}
  OBVIOUS
<1>2. Knows(storage')
  BY <1>1 DEF Knows, Holds
<1>3. storage' = storage
  BY <1>2, ConstantsOK
<1> QED BY <1>1, <1>3 DEF OlderOK

\* setSession changes what its own tab holds and shows.
LEMMA SetSessionOlder ==
  ASSUME TypeOK, OlderOK, NEW t \in Tabs, NEW next, SetSession(t, next),
         next \in {storage, Null} \/ ~Knows(next), UNCHANGED <<mounted, effect>>,
         \A u \in Tabs : about'[u] = about[u] \/ about'[u] = Null
  PROVE  OlderOK'
<1>1. storage' = next /\ session'[t] = next
  BY DEF SetSession, Store, SetSessionState, TypeOK
<1>2. ASSUME NEW u \in Tabs \ {t}, mounted'[u]
      PROVE  /\ mounted[u] /\ session'[u] = session[u]
             /\ Holds(u)' \cap Sessions \subseteq Holds(u) \cup {session[u]}
  BY <1>2, ConstantsOK DEF SetSession, SetSessionState, TypeOK, Holds
<1> QED BY <1>1, <1>2, StaysOlder

LEMMA OlderStep ==
  ASSUME TokenInv, OlderOK, [Next]_vars
  PROVE  OlderOK'
<1> USE DEF TokenInv
<1>s. ASSUME NEW t \in Tabs, Settle(t)
      PROVE  \A u \in Tabs : about'[u] = about[u] \/ about'[u] = Null
  BY <1>s DEF Settle, TypeOK
<1>1. ASSUME UNCHANGED <<storage, mounted, reactVars, ref>>,
             \A u \in Tabs : about'[u] \in {about[u], ref[u], Null}
      PROVE  OlderOK'
  <2>1. \A u \in Tabs : Holds(u)' \cap Sessions \subseteq Holds(u)
    BY <1>1, ConstantsOK DEF Holds, reactVars
  <2> QED BY <1>1, <2>1, StaysOlder DEF reactVars
<1>2. ASSUME NEW t \in Tabs, RefreshSession(t) \/ RunSends(t) PROVE OlderOK'
  BY <1>1, <1>2 DEF RefreshSession, RunSends, TypeOK, tabVars
<1>3. ASSUME NEW t \in Tabs, RunGivesUp(t) \/ LockRefused(t) \/ IgnoreAnswer(t) \/ DeferAnswer(t)
      PROVE  OlderOK'
  <2>1. Settle(t) /\ UNCHANGED <<storage, mounted, reactVars, ref>>
    BY <1>3 DEF RunGivesUp, LockRefused, IgnoreAnswer, DeferAnswer, tabVars
  <2> QED BY <1>1, <1>s, <2>1
<1>4. ASSUME NEW t \in Tabs, RunAdopts(t) \/ YieldToStorage(t) \/ TerminalAnswer(t)
      PROVE  OlderOK'
  <2>1. Settle(t) /\ UNCHANGED <<mounted, effect>>
        /\ (SetSession(t, storage) \/ SetSession(t, Null))
    BY <1>4 DEF RunAdopts, YieldToStorage, TerminalAnswer
  <2> QED BY <2>1, <1>s, SetSessionOlder
<1>5. ASSUME NEW t \in Tabs, ApplyAnswer(t) PROVE OlderOK'
  BY <1>5, <1>s, SetSessionOlder DEF ApplyAnswer, AnswersOK
<1>6. ASSUME NEW t \in Tabs, Login(t) PROVE OlderOK'
  <2> PICK new \in Unused : SetSession(t, new)
    BY <1>6 DEF Login
  <2>1. ~Knows(new)
    BY DEF KnownOK, Unused
  <2> QED BY <1>6, <2>1, SetSessionOlder DEF Login
<1>7. ASSUME NEW t \in Tabs, Logout(t) PROVE OlderOK'
  BY <1>7, SetSessionOlder DEF Logout
<1>8. ASSUME NEW t \in Tabs, Commit(t) \/ RunEffect(t) PROVE OlderOK'
  <2>1. UNCHANGED <<storage, mounted, session>>
    BY <1>8 DEF Commit, RunEffect, tabVars
  <2>2. \A u \in Tabs : Holds(u)' \cap Sessions \subseteq Holds(u) \cup {session[u]}
    BY <1>8, ConstantsOK DEF Commit, RunEffect, Holds, TypeOK, callVars
  <2> QED BY <2>1, <2>2, StaysOlder
<1>9. ASSUME NEW t \in Tabs, OnStorage(t) \/ Mount(t) PROVE OlderOK'
  <2>1. storage' = storage /\ session'[t] = storage
    BY <1>9 DEF OnStorage, Mount, SetSessionState, TypeOK
  <2>2. ASSUME NEW u \in Tabs \ {t}, mounted'[u]
        PROVE  mounted[u] /\ session'[u] = session[u] /\ Holds(u)' = Holds(u)
    BY <1>9, <2>2 DEF OnStorage, Mount, SetSessionState, TypeOK, Holds, callVars
  <2> QED BY <2>1, <2>2, StaysOlder
<1>10. ASSUME NEW t \in Tabs, Unmount(t) \/ CloseTab(t) PROVE OlderOK'
  <2>1. Leave(t) /\ storage' = storage
        /\ \A u \in Tabs : about'[u] = about[u] \/ about'[u] = Null
    BY <1>10, <1>s DEF Unmount, CloseTab
  <2>2. ASSUME NEW u \in Tabs, mounted'[u]
        PROVE  /\ mounted[u] /\ session'[u] = session[u]
               /\ Holds(u)' \cap Sessions \subseteq Holds(u)
    BY <2>1, <2>2, ConstantsOK DEF Leave, TypeOK, Holds
  <2> QED BY <2>1, <2>2, StaysOlder
<1>11. ASSUME NEW t \in Tabs,
              ServerRefreshes(t) \/ AnswerLost(t) \/ EventUnheard(t)
       PROVE  OlderOK'
  <2>1. UNCHANGED <<storage, mounted, reactVars, ref, about>>
    BY <1>11 DEF ServerRefreshes, AnswerLost, EventUnheard, tabVars, callVars
  <2> QED BY <1>1, <2>1
<1>12. CASE ServerEnds \/ UNCHANGED vars
  <2>1. UNCHANGED <<storage, mounted, reactVars, ref, about>>
    BY <1>12 DEF ServerEnds, vars, tabVars, callVars
  <2> QED BY <1>1, <2>1
<1> QED BY <1>1, <1>2, <1>3, <1>4, <1>5, <1>6, <1>7, <1>8, <1>9, <1>10, <1>11, <1>12
        DEF Next, TabStep, Run, HandleAnswer

\* A refresh that ends by itself in a tab with nothing due leaves the tab with the stored
\* session, whether or not it missed a write, for any number of tabs.
THEOREM RefreshesCatchUp == Spec => RefreshCatchesUp
<1>1. Init => CatchUpInv
  <2>1. Init => OlderOK
    BY DEF Init, OlderOK
  <2> QED BY <2>1, TokenInit, AgreeInit DEF CatchUpInv
<1>2. CatchUpInv /\ [Next]_vars => CatchUpInv'
  BY TokenStep, AgreeStep, OlderStep DEF CatchUpInv
<1>3. CatchUpInv /\ [Next]_vars =>
        [\A t \in Tabs :
           /\ call[t] # "idle" /\ CurrentRequest(t)
           /\ ~renderDue[t] /\ effect[t] = NoEffect
           /\ call'[t] = "idle" /\ mounted'[t] /\ ~LockRefused(t)
           => session'[t] = storage']_vars
  <2> SUFFICES ASSUME CatchUpInv, Next, NEW t \in Tabs,
                      call[t] # "idle", CurrentRequest(t), ~renderDue[t], effect[t] = NoEffect,
                      call'[t] = "idle", mounted'[t], ~LockRefused(t)
               PROVE  session'[t] = storage'
    BY DEF vars, callVars
  <2> USE DEF CatchUpInv, TokenInv
  <2>1. mounted[t] /\ ref[t] = session[t]
    BY DEF CurrentRequest, AgreeInv, ReactOK
  <2>2. ASSUME NEW next, SetSession(t, next) PROVE session'[t] = storage'
    BY <2>2 DEF SetSession, Store, SetSessionState, TypeOK
  <2>3. CASE RunAdopts(t) \/ YieldToStorage(t) \/ ApplyAnswer(t) \/ TerminalAnswer(t)
    BY <2>2, <2>3 DEF RunAdopts, YieldToStorage, ApplyAnswer, TerminalAnswer
  <2>4. CASE RunGivesUp(t)
    <3>1. storage = about[t] /\ session[t] = Null
      BY <2>1, <2>4 DEF RunGivesUp, StorageUnchanged
    <3>2. storage = Null
      BY <2>1, <3>1, ConstantsOK DEF OlderOK, Holds, TypeOK, Session
    <3> QED BY <2>4, <3>1, <3>2 DEF RunGivesUp, reactVars
  <2>5. CASE DeferAnswer(t)
    <3>1. storage = about[t] /\ about[t] \in Sessions
      BY <2>5 DEF DeferAnswer, Answered, StorageUnchanged, CallsOK
    <3>2. session[t] = storage
      BY <2>1, <3>1 DEF OlderOK, Holds
    <3> QED BY <2>5, <3>2 DEF DeferAnswer, reactVars
  <2>6. ~IgnoreAnswer(t) /\ ~CloseTab(t)
    BY DEF IgnoreAnswer, CloseTab, Leave, TypeOK
  <2>7. ASSUME NEW u \in Tabs \ {t}, Settle(u) PROVE call'[t] = call[t]
    BY <2>7 DEF Settle, TypeOK
  <2>8. ASSUME NEW u \in Tabs,
               RefreshSession(u) \/ RunSends(u) \/ ServerRefreshes(u) \/ AnswerLost(u)
               \/ Commit(u) \/ RunEffect(u) \/ OnStorage(u) \/ EventUnheard(u)
               \/ Login(u) \/ Logout(u) \/ Unmount(u) \/ Mount(u) \/ ServerEnds
        PROVE  FALSE
    BY <2>8 DEF RefreshSession, RunSends, ServerRefreshes, AnswerLost, Commit, RunEffect,
       OnStorage, EventUnheard, Login, Logout, Unmount, Mount, ServerEnds, callVars, TypeOK
  <2>9. ASSUME NEW u \in Tabs \ {t},
               RunGivesUp(u) \/ RunAdopts(u) \/ LockRefused(u) \/ HandleAnswer(u) \/ CloseTab(u)
        PROVE  FALSE
    BY <2>7, <2>9 DEF RunGivesUp, RunAdopts, LockRefused, HandleAnswer, IgnoreAnswer,
       YieldToStorage, ApplyAnswer, TerminalAnswer, DeferAnswer, CloseTab
  <2> QED BY <2>3, <2>4, <2>5, <2>6, <2>8, <2>9 DEF Next, TabStep, Run, HandleAnswer
<1> QED BY <1>1, <1>2, <1>3, PTL DEF Spec, RefreshCatchesUp

-----------------------------------------------------------------------------
(***************************************************************************)
(* Web Locks.                                                              *)
(***************************************************************************)

LEMMA OneRequestStep == TypeOK /\ OneRequest /\ [Next]_vars => OneRequest'
<1> SUFFICES ASSUME TypeOK, OneRequest, [Next]_vars PROVE OneRequest'
  OBVIOUS
<1>1. ASSUME NEW t \in Tabs, Settle(t) PROVE OneRequest'
  BY <1>1 DEF Settle, OneRequest, TypeOK
<1>2. ASSUME UNCHANGED call PROVE OneRequest'
  BY <1>2 DEF OneRequest
<1>3. ASSUME NEW t \in Tabs, RefreshSession(t) PROVE OneRequest'
  BY <1>3 DEF RefreshSession, OneRequest, TypeOK
<1>4. ASSUME NEW t \in Tabs, RunSends(t) PROVE OneRequest'
  BY <1>4 DEF RunSends, LockGranted, OneRequest, TypeOK
<1> QED BY <1>1, <1>2, <1>3, <1>4
        DEF Next, TabStep, Run, RunGivesUp, RunAdopts, LockRefused, HandleAnswer,
            IgnoreAnswer, YieldToStorage, ApplyAnswer, TerminalAnswer, DeferAnswer,
            ServerRefreshes, AnswerLost, Commit, RunEffect, OnStorage, EventUnheard, Login, Logout,
            Unmount, CloseTab, Mount, ServerEnds, vars, callVars

\* With Web Locks no tab signs the others out because one of them used the token first:
\* a session goes when the user logs out or when its token is finished.
THEOREM WebLocksPreventFalseLogout ==
  ASSUME WebLocks
  PROVE  Spec => NoFalseLogout
<1> DEFINE Inv == TokenInv /\ OneRequest
<1>1. Init => Inv
  BY TokenInit DEF Init, OneRequest
<1>2. Inv /\ [Next]_vars => Inv'
  BY TokenStep, OneRequestStep DEF TokenInv
<1>3. Inv /\ [Next]_vars =>
        [storage # Null /\ storage' = Null =>
           \/ \E t \in Tabs : Logout(t)
           \/ fate[storage] \in {"ended", "lost", "lapsed", "overtaken"}]_vars
  <2> SUFFICES ASSUME Inv, [Next]_vars, storage # Null, storage' = Null,
                      ~\E t \in Tabs : Logout(t)
               PROVE  fate[storage] \in {"ended", "lost", "lapsed", "overtaken"}
    OBVIOUS
  <2>1. ASSUME NEW t \in Tabs, NEW next, SetSession(t, next) PROVE storage' = next
    BY <2>1 DEF SetSession, Store
  <2>2. ASSUME NEW t \in Tabs PROVE ~(RunAdopts(t) \/ YieldToStorage(t))
    BY <2>1 DEF RunAdopts, YieldToStorage
  <2>3. ASSUME NEW t \in Tabs PROVE ~(ApplyAnswer(t) \/ Login(t))
    BY <2>1, ConstantsOK DEF ApplyAnswer, Login, Unused, TokenInv, AnswersOK
  <2>4. ASSUME NEW t \in Tabs, TerminalAnswer(t)
        PROVE  fate[storage] \in {"ended", "lost", "lapsed", "overtaken"}
    <3>1. about[t] = storage /\ reply[t].kind = "reject" /\ call[t] = "sent"
      BY <2>4 DEF TerminalAnswer, Answered, StorageUnchanged
    <3>2. fate[storage] \in Spent /\ storage # Null
      BY <3>1, ConstantsOK DEF TokenInv, AnswersOK, CallsOK
    <3>3. ~\E u \in Tabs : about[u] = storage /\ reply[u].kind = "ok"
      BY <3>1 DEF TokenInv, CallsOK, OneRequest, Reply
    <3> QED BY <3>2, <3>3 DEF TokenInv, StoredTokenUsable, Spent, Fates
  <2> QED BY <2>2, <2>3, <2>4
          DEF Next, TabStep, Run, RefreshSession, RunGivesUp, RunSends, LockRefused,
              ServerRefreshes, AnswerLost, HandleAnswer, IgnoreAnswer, DeferAnswer,
              Commit, RunEffect, OnStorage, EventUnheard, Unmount, CloseTab, Mount, ServerEnds, vars
<1> QED BY <1>1, <1>2, <1>3, PTL DEF Spec, NoFalseLogout

=============================================================================
