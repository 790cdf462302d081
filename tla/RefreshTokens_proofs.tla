------------------------ MODULE RefreshTokens_proofs ------------------------
(***************************************************************************)
(* Theorems about RefreshTokens, for any number of operations, users and   *)
(* tokens.                                                                 *)
(***************************************************************************)
EXTENDS RefreshTokens, TLAPS

\* A step keeps the types: TypeOK is inductive because a position that has issued a
\* token records which one.
LEMMA TypeStep == TypeOK /\ [Next]_vars => TypeOK'
<1> SUFFICES ASSUME TypeOK, [Next]_vars PROVE TypeOK'
  OBVIOUS
<1> USE DEF TypeOK, States, Positions, Idle, At
<1>1. ASSUME NEW p \in Operations, LogIn(p) PROVE TypeOK'
  BY <1>1 DEF LogIn, storeVars
<1>2. ASSUME NEW p \in Operations, RefreshAsync(p) PROVE TypeOK'
  BY <1>2 DEF RefreshAsync, storeVars
<1>3. ASSUME NEW p \in Operations, RefuseRevoked(p) PROVE TypeOK'
  BY <1>3 DEF RefuseRevoked, Revoke
<1>4. ASSUME NEW p \in Operations, IssueOrRotate(p) PROVE TypeOK'
  BY <1>4 DEF IssueOrRotate, Issue, Rotate, Unused
<1>5. ASSUME NEW p \in Operations, SaveSession(p) PROVE TypeOK'
  <2>1. op[p].new \in Tokens
    BY <1>5 DEF SaveSession
  <2>2. saved' \in [Users -> Tokens \cup {Null}]
    BY <1>5, <2>1 DEF SaveSession
  <2>3. delivered' \subseteq Tokens /\ op' \in [Operations -> Positions]
    BY <1>5, <2>1 DEF SaveSession
  <2> QED BY <1>5, <2>2, <2>3 DEF SaveSession, storeVars
<1>6. ASSUME NEW p \in Operations, Fail(p) PROVE TypeOK'
  BY <1>6 DEF Fail, storeVars
<1>7. CASE LogoutAsync
  BY <1>7 DEF LogoutAsync, Revoke
<1>8. CASE UNCHANGED vars
  BY <1>8 DEF vars, storeVars
<1> QED BY <1>1, <1>2, <1>3, <1>4, <1>5, <1>6, <1>7, <1>8 DEF Next

\* Every variable keeps its type.
THEOREM TypeCorrect == Spec => []TypeOK
<1>1. Init => TypeOK
  BY DEF Init, TypeOK, States, Positions, Idle, At
<1> QED BY <1>1, TypeStep, PTL DEF Spec

-----------------------------------------------------------------------------
(***************************************************************************)
(* The session store.  A token that is being saved is known to nobody but  *)
(* its operation; a token that was replaced had been delivered before.  So *)
(* a late SaveAsync can only bring back a token nobody has replaced.       *)
(***************************************************************************)

\* A token in use belongs to a user; one that replaces another was issued to
\* a client that had the other one, for the same user.
TokenRowsOK ==
  \A k \in Tokens :
    /\ k \in delivered => state[k] # "unused" /\ owner[k] \in Users
    /\ parent[k] # Null =>
         /\ parent[k] \in delivered
         /\ owner[parent[k]] = owner[k]
         /\ state[k] # "unused"

\* An operation works for the owner of the token it was given, and keeps the
\* token it has issued to itself.
PositionsOK ==
  \A p \in Operations :
    /\ op[p].step # "idle" => op[p].user \in Users
    /\ op[p].token # Null =>
         op[p].token \in delivered /\ owner[op[p].token] = op[p].user
    /\ op[p].step = "save" =>
         /\ state[op[p].new] # "unused"
         /\ op[p].new \notin delivered
         /\ owner[op[p].new] = op[p].user
         /\ \A q \in Operations \ {p} : op[q].new # op[p].new

SavedOK ==
  \A u \in Users :
    saved[u] # Null => owner[saved[u]] = u /\ state[saved[u]] # "unused"

SessionInv ==
  TypeOK /\ TokenRowsOK /\ PositionsOK /\ SavedOK /\ SessionStoreNotBehindClient

\* What an operation's position says of its fields.
LEMMA PositionFields ==
  ASSUME TypeOK, NEW p \in Operations
  PROVE  /\ op[p].new \in Tokens <=> op[p].step = "save"
         /\ op[p].token \in Tokens \cup {Null}
         /\ op[p].user \in Users \cup {Null}
BY ConstantsOK DEF TypeOK, Positions, Idle, At

\* Operations that change no row and no session: a new position that keeps nothing,
\* or that presents a delivered token, leaves the invariant as it is.
LEMMA NewPosition ==
  ASSUME SessionInv, TypeOK', NEW p \in Operations,
         NEW step \in {"exchange", "reuse"}, NEW user, NEW token,
         op' = [op EXCEPT ![p] = At(step, user, token, Null)],
         user \in Users,
         token # Null => token \in delivered /\ owner[token] = user,
         UNCHANGED <<storeVars, delivered, reused, saved>>
  PROVE  SessionInv'
<1> USE DEF SessionInv, storeVars
<1>1. TokenRowsOK' /\ SavedOK' /\ SessionStoreNotBehindClient'
  BY DEF TokenRowsOK, SavedOK, SessionStoreNotBehindClient
<1>2. PositionsOK'
  <2> SUFFICES ASSUME NEW q \in Operations PROVE PositionsOK!(q)'
    BY DEF PositionsOK
  <2>1. CASE q = p
    BY <2>1 DEF PositionsOK, TypeOK, At
  <2>2. CASE q # p
    <3>1. op'[q] = op[q]
      BY <2>2 DEF TypeOK
    <3>2. op[q].step = "save" => \A r \in Operations \ {q} : op'[r].new # op'[q].new
      BY <3>1, PositionFields, ConstantsOK DEF PositionsOK, TypeOK, At
    <3> QED BY <3>1, <3>2 DEF PositionsOK
  <2> QED BY <2>1, <2>2
<1> QED BY <1>1, <1>2

\* An operation that ends, having changed no row and no session that matters.
LEMMA OperationEnds ==
  ASSUME SessionInv, TypeOK', NEW p \in Operations,
         op' = [op EXCEPT ![p] = Idle],
         UNCHANGED <<owner, delivered>>,
         \A k \in Tokens : state[k] # "unused" => state'[k] # "unused"
  PROVE  PositionsOK'
<1> SUFFICES ASSUME NEW q \in Operations PROVE PositionsOK!(q)'
  BY DEF PositionsOK
<1>1. CASE q = p
  BY <1>1 DEF SessionInv, TypeOK, Idle, At
<1>2. CASE q # p
  <2>1. op'[q] = op[q]
    BY <1>2 DEF SessionInv, TypeOK
  <2>2. op[q].step = "save" => \A r \in Operations \ {q} : op'[r].new # op'[q].new
    BY <2>1, PositionFields, ConstantsOK DEF SessionInv, PositionsOK, TypeOK, Idle, At
  <2> QED BY <2>1, <2>2, PositionFields DEF SessionInv, PositionsOK
<1> QED BY <1>1, <1>2

\* A token that was unused is nobody's: not delivered, not a parent, not saved.
LEMMA UnusedIsUnknown ==
  ASSUME SessionInv, NEW new \in Unused
  PROVE  /\ new \in Tokens /\ new # Null /\ new \notin delivered
         /\ parent[new] = Null
         /\ \A k \in Tokens : parent[k] # new
         /\ \A u \in Users : saved[u] # new
         /\ \A p \in Operations : op[p].step = "save" => op[p].new # new
<1> USE ConstantsOK DEF Unused, SessionInv
<1>1. new \in Tokens /\ new # Null /\ state[new] = "unused" /\ new \notin delivered
  BY DEF TokenRowsOK
<1>2. \A k \in Tokens : parent[k] # new
  BY <1>1 DEF TokenRowsOK
<1>3. \A u \in Users : saved[u] # new
  BY <1>1 DEF SavedOK
<1> QED BY <1>1, <1>2, <1>3 DEF TokenRowsOK, PositionsOK

\* IssueOrRotate keeps the invariant: the new token is its operation's alone.
LEMMA IssueOrRotateKeeps ==
  ASSUME SessionInv, TypeOK', NEW p \in Operations, IssueOrRotate(p)
  PROVE  SessionInv'
<1> PICK new \in Unused :
      /\ IF op[p].token = Null \/ ~RotateOnRefresh
         THEN Issue(new, op[p].user)
         ELSE Rotate(op[p].token, new, op[p].user)
      /\ op' = [op EXCEPT ![p] = At("save", op[p].user, op[p].token, new)]
  BY DEF IssueOrRotate
<1>1. UNCHANGED <<delivered, reused, saved>> /\ op[p].step = "exchange"
  BY DEF IssueOrRotate
<1>2. op[p].user \in Users /\ op[p].token \in Tokens \cup {Null}
  BY <1>1, PositionFields DEF SessionInv, PositionsOK
<1>3. op[p].token # Null =>
        op[p].token \in delivered /\ owner[op[p].token] = op[p].user
  BY DEF SessionInv, PositionsOK
<1>4. /\ owner' = [owner EXCEPT ![new] = op[p].user]
      /\ state'[new] = "active"
      /\ \A k \in Tokens : state[k] # "unused" => state'[k] # "unused"
      /\ \A k \in Tokens \ {new} : parent'[k] = parent[k]
      /\ parent'[new] # Null =>
           op[p].token # Null /\ parent'[new] = op[p].token
  BY <1>2, UnusedIsUnknown DEF Issue, Rotate, SessionInv, TypeOK
<1>5. TokenRowsOK'
  <2> SUFFICES ASSUME NEW k \in Tokens PROVE TokenRowsOK!(k)'
    BY DEF TokenRowsOK
  <2>1. CASE k = new
    BY <1>1, <1>2, <1>3, <1>4, <2>1, UnusedIsUnknown DEF SessionInv, TypeOK
  <2>2. CASE k # new
    BY <1>1, <1>4, <2>2, UnusedIsUnknown DEF SessionInv, TokenRowsOK, TypeOK
  <2> QED BY <2>1, <2>2
<1>6. PositionsOK'
  <2> SUFFICES ASSUME NEW q \in Operations PROVE PositionsOK!(q)'
    BY DEF PositionsOK
  <2>1. \A r \in Operations \ {p} : op'[r] = op[r] /\ op[r].new # new
    BY UnusedIsUnknown, PositionFields DEF SessionInv, TypeOK
  <2>2. op'[p] = At("save", op[p].user, op[p].token, new)
    BY DEF SessionInv, TypeOK
  <2>3. CASE q = p
    BY <1>1, <1>2, <1>3, <1>4, <2>1, <2>2, <2>3, UnusedIsUnknown
    DEF SessionInv, TypeOK, At
  <2>4. CASE q # p
    <3>1. op[q].step = "save" => \A r \in Operations \ {q} : op'[r].new # op'[q].new
      BY <2>1, <2>2, <2>4, UnusedIsUnknown DEF SessionInv, PositionsOK, At
    <3>2. op[q].token # Null => owner'[op[q].token] = op[q].user
      BY <1>4, UnusedIsUnknown DEF SessionInv, PositionsOK, TypeOK
    <3>3. op[q].step = "save" => owner'[op[q].new] = op[q].user
      BY <1>4, <2>1, <2>4, PositionFields DEF SessionInv, PositionsOK, TypeOK
    <3> QED BY <1>1, <1>4, <2>1, <2>4, <3>1, <3>2, <3>3, PositionFields
            DEF SessionInv, PositionsOK
  <2> QED BY <2>3, <2>4
<1>7. SavedOK'
  BY <1>1, <1>4, UnusedIsUnknown DEF SessionInv, SavedOK, TypeOK
<1>8. SessionStoreNotBehindClient'
  BY <1>1, <1>4, UnusedIsUnknown
  DEF SessionInv, SessionStoreNotBehindClient, TypeOK
<1> QED BY <1>5, <1>6, <1>7, <1>8 DEF SessionInv

\* SaveSession keeps the invariant: the session it saves is the newest token, and the
\* token it replaces, if any, belongs to the same user, whose saved session it now is.
LEMMA SaveSessionKeeps ==
  ASSUME SessionInv, TypeOK', NEW p \in Operations, SaveSession(p)
  PROVE  SessionInv'
<1> DEFINE new == op[p].new
           user == op[p].user
<1>1. /\ new \in Tokens /\ new # Null /\ user \in Users
      /\ state[new] # "unused" /\ new \notin delivered /\ owner[new] = user
      /\ \A q \in Operations \ {p} : op[q].new # new
  BY PositionFields, ConstantsOK DEF SaveSession, SessionInv, PositionsOK
<1>2. /\ saved' = [saved EXCEPT ![user] = new]
      /\ delivered \subseteq delivered' /\ delivered' \subseteq delivered \cup {new}
      /\ op' = [op EXCEPT ![p] = Idle]
      /\ UNCHANGED <<state, owner, parent, family>>
  BY DEF SaveSession, storeVars
<1> HIDE DEF new, user
<1>3. TokenRowsOK'
  BY <1>1, <1>2 DEF SessionInv, TokenRowsOK
<1>4. SavedOK'
  BY <1>1, <1>2 DEF SessionInv, SavedOK, TypeOK
<1>5. SessionStoreNotBehindClient'
  <2> SUFFICES ASSUME NEW u \in Users, NEW k \in delivered', parent[k] # Null
               PROVE  saved'[u] # parent[k]
    BY <1>2 DEF SessionStoreNotBehindClient
  <2>1. parent[k] \in delivered /\ owner[parent[k]] = owner[k] /\ k \in Tokens
    BY <1>1, <1>2 DEF SessionInv, TokenRowsOK, TypeOK
  <2>2. CASE u = user
    BY <1>1, <1>2, <2>1, <2>2 DEF SessionInv, TypeOK
  <2>3. CASE u # user /\ k = new
    BY <1>1, <1>2, <2>1, <2>3 DEF SessionInv, SavedOK, TypeOK
  <2>4. CASE u # user /\ k \in delivered
    BY <1>2, <2>4 DEF SessionInv, SessionStoreNotBehindClient, TypeOK
  <2> QED BY <1>2, <2>2, <2>3, <2>4
<1>6. PositionsOK'
  <2> SUFFICES ASSUME NEW q \in Operations PROVE PositionsOK!(q)'
    BY DEF PositionsOK
  <2>1. CASE q = p
    BY <1>2, <2>1, ConstantsOK DEF SessionInv, TypeOK, Idle, At
  <2>2. CASE q # p
    <3>1. op'[q] = op[q] /\ op[q].new # new
      BY <1>1, <1>2, <2>2 DEF SessionInv, TypeOK
    <3>2. op[q].step = "save" => \A r \in Operations \ {q} : op'[r].new # op'[q].new
      BY <1>2, <3>1, PositionFields, ConstantsOK
      DEF SessionInv, PositionsOK, TypeOK, Idle, At
    <3> QED BY <1>2, <3>1, <3>2 DEF SessionInv, PositionsOK
  <2> QED BY <2>1, <2>2
<1> QED BY <1>3, <1>4, <1>5, <1>6 DEF SessionInv

\* The saved session of a user is never one that a token in the client's hands has
\* replaced: for any number of operations, whatever the host's RotateAsync does.
THEOREM SessionStoreCorrect == Spec => []SessionStoreNotBehindClient
<1>1. Init => SessionInv
  BY ConstantsOK DEF Init, SessionInv, TypeOK, States, Positions, Idle, At,
     TokenRowsOK, PositionsOK, SavedOK, SessionStoreNotBehindClient
<1>2. SessionInv /\ [Next]_vars => SessionInv'
  <2> SUFFICES ASSUME SessionInv, [Next]_vars PROVE SessionInv'
    OBVIOUS
  <2>0. TypeOK'
    BY TypeStep DEF SessionInv
  <2>1. ASSUME NEW p \in Operations, LogIn(p) PROVE SessionInv'
    <3> PICK u \in Users : op' = [op EXCEPT ![p] = At("exchange", u, Null, Null)]
      BY <2>1 DEF LogIn
    <3> QED BY <2>0, <2>1, NewPosition DEF LogIn
  <2>2. ASSUME NEW p \in Operations, RefreshAsync(p) PROVE SessionInv'
    <3> PICK k \in delivered :
          op' = [op EXCEPT ![p] =
                   At(IF IsRevoked(k) THEN "reuse" ELSE "exchange", owner[k], k, Null)]
      BY <2>2 DEF RefreshAsync
    <3> DEFINE step == IF IsRevoked(k) THEN "reuse" ELSE "exchange"
    <3>1. owner[k] \in Users /\ step \in {"exchange", "reuse"}
      BY DEF SessionInv, TokenRowsOK, TypeOK
    <3> HIDE DEF step
    <3>2. UNCHANGED <<storeVars, delivered, reused, saved>>
      BY <2>2 DEF RefreshAsync
    <3>3. op' = [op EXCEPT ![p] = At(step, owner[k], k, Null)]
      BY DEF step
    <3> QED BY <2>0, <3>1, <3>2, <3>3, NewPosition
  <2>3. ASSUME NEW p \in Operations, RefuseRevoked(p) PROVE SessionInv'
    <3>1. /\ op' = [op EXCEPT ![p] = Idle]
          /\ UNCHANGED <<owner, parent, delivered, saved>>
          /\ \A k \in Tokens : state[k] # "unused" => state'[k] # "unused"
      BY <2>3 DEF RefuseRevoked, Revoke, SessionInv, TypeOK
    <3>2. PositionsOK'
      BY <2>0, <3>1, OperationEnds
    <3> QED BY <2>0, <3>1, <3>2
            DEF SessionInv, TokenRowsOK, SavedOK, SessionStoreNotBehindClient, TypeOK
  <2>4. ASSUME NEW p \in Operations, IssueOrRotate(p) PROVE SessionInv'
    BY <2>0, <2>4, IssueOrRotateKeeps
  <2>5. ASSUME NEW p \in Operations, SaveSession(p) PROVE SessionInv'
    BY <2>0, <2>5, SaveSessionKeeps
  <2>6. ASSUME NEW p \in Operations, Fail(p) PROVE SessionInv'
    <3>1. op' = [op EXCEPT ![p] = Idle] /\ UNCHANGED <<storeVars, delivered, saved>>
      BY <2>6 DEF Fail
    <3>2. PositionsOK'
      BY <2>0, <3>1, OperationEnds DEF storeVars
    <3> QED BY <2>0, <3>1, <3>2
            DEF SessionInv, TokenRowsOK, SavedOK, SessionStoreNotBehindClient, storeVars
  <2>7. CASE LogoutAsync
    <3>1. /\ UNCHANGED <<owner, parent, delivered, saved, op>>
          /\ \A k \in Tokens : state[k] # "unused" => state'[k] # "unused"
      BY <2>7 DEF LogoutAsync, Revoke, SessionInv, TypeOK
    <3>2. PositionsOK'
      BY <3>1, PositionFields DEF SessionInv, PositionsOK
    <3> QED BY <2>0, <3>1, <3>2
            DEF SessionInv, TokenRowsOK, SavedOK, SessionStoreNotBehindClient, TypeOK
  <2>8. CASE UNCHANGED vars
    BY <2>0, <2>8 DEF vars, storeVars, SessionInv, TokenRowsOK, PositionsOK, SavedOK,
       SessionStoreNotBehindClient
  <2> QED BY <2>1, <2>2, <2>3, <2>4, <2>5, <2>6, <2>7, <2>8 DEF Next
<1>3. SessionInv => SessionStoreNotBehindClient
  BY DEF SessionInv
<1> QED BY <1>1, <1>2, <1>3, PTL DEF Spec

-----------------------------------------------------------------------------
(***************************************************************************)
(* Families.                                                               *)
(***************************************************************************)

\* A token in use descends from one in use, so an issued token's family is new.
FamilyInv ==
  /\ TypeOK
  /\ \A k \in Tokens :
       state[k] # "unused" => family[k] \in Tokens /\ state[family[k]] # "unused"
  /\ OneActivePerFamily

\* FamilyInv is inductive: RotateAsync replaces an active token, the only one of its
\* family, and every other step only ends tokens or begins a family.
LEMMA FamilyInvariant ==
  ASSUME RotateOnRefresh, ConditionalRotate
  PROVE  Spec => []FamilyInv
<1>1. Init => FamilyInv
  BY DEF Init, FamilyInv, OneActivePerFamily, TypeOK, States, Positions, Idle, At
<1>2. FamilyInv /\ [Next]_vars => FamilyInv'
  <2> SUFFICES ASSUME FamilyInv, [Next]_vars PROVE FamilyInv'
    OBVIOUS
  <2>0. TypeOK'
    BY TypeStep DEF FamilyInv
  <2>1. ASSUME NEW k \in Tokens, Revoke(k), UNCHANGED family PROVE FamilyInv'
    BY <2>0, <2>1 DEF Revoke, FamilyInv, OneActivePerFamily, TypeOK
  <2>2. ASSUME UNCHANGED <<state, family>> PROVE FamilyInv'
    BY <2>0, <2>2 DEF FamilyInv, OneActivePerFamily
  <2>3. ASSUME NEW p \in Operations, RefuseRevoked(p) PROVE FamilyInv'
    <3>1. op[p].token \in Tokens
      BY <2>3, ConstantsOK DEF RefuseRevoked, FamilyInv, TypeOK, Positions, Idle, At
    <3> QED BY <2>1, <2>2, <2>3, <3>1 DEF RefuseRevoked
  <2>4. ASSUME NEW p \in Operations, IssueOrRotate(p) PROVE FamilyInv'
    <3> PICK new \in Unused :
          IF op[p].token = Null
          THEN Issue(new, op[p].user)
          ELSE Rotate(op[p].token, new, op[p].user)
      BY <2>4 DEF IssueOrRotate
    <3>1. CASE op[p].token = Null
      BY <2>0, <3>1 DEF Issue, Unused, FamilyInv, OneActivePerFamily, TypeOK
    <3>2. CASE op[p].token # Null
      <4>1. op[p].token \in Tokens
        BY <3>2 DEF FamilyInv, TypeOK, Positions, Idle, At
      <4> QED BY <2>0, <3>2, <4>1
              DEF Rotate, Unused, FamilyInv, OneActivePerFamily, TypeOK
    <3> QED BY <3>1, <3>2
  <2>5. CASE LogoutAsync
    BY <2>1, <2>5 DEF LogoutAsync, FamilyInv, TypeOK
  <2> QED BY <2>2, <2>3, <2>4, <2>5
          DEF Next, LogIn, RefreshAsync, SaveSession, Fail, storeVars, vars
<1> QED BY <1>1, <1>2, PTL DEF Spec

\* With rotation on and a host whose RotateAsync is conditional, no interleaving of
\* refreshes, replays, logouts and failures leaves a login with two active tokens.
THEOREM FamiliesNeverFork ==
  ASSUME RotateOnRefresh, ConditionalRotate
  PROVE  Spec => []OneActivePerFamily
<1>1. FamilyInv => OneActivePerFamily
  BY DEF FamilyInv
<1> QED BY <1>1, FamilyInvariant, PTL

-----------------------------------------------------------------------------
(***************************************************************************)
(* Refinement.                                                             *)
(***************************************************************************)

\* Under the invariant the head of a line is its active token.
LEMMA HeadIsActive ==
  ASSUME FamilyInv, NEW k \in Tokens, state[k] = "active"
  PROVE  HeadOf(family[k]) = k
<1>1. ActiveIn(family[k]) = {k}
  BY DEF FamilyInv, OneActivePerFamily, ActiveIn
<1> QED BY <1>1 DEF HeadOf

\* A line whose active tokens stay what they are keeps its head.
LEMMA HeadUnchanged ==
  ASSUME NEW f,
         \A j \in Tokens : state'[j] = "active" /\ family'[j] = f
                          <=> state[j] = "active" /\ family[j] = f
  PROVE  HeadOf(f)' = HeadOf(f)
<1>1. ActiveIn(f)' = ActiveIn(f)
  BY DEF ActiveIn
<1> QED BY <1>1 DEF HeadOf

\* Revoking a token ends its line if it is the head, and changes nothing otherwise.
LEMMA RevokeEnds ==
  ASSUME FamilyInv, FamilyInv', NEW k \in Tokens, Revoke(k), UNCHANGED family
  PROVE  [Lines!Next]_Lines!vars
<1>1. Unused' = Unused
  BY DEF Revoke, Unused, FamilyInv, TypeOK
<1>2. CASE state[k] # "active"
  <2>1. state' = state
    BY <1>2 DEF Revoke, FamilyInv, TypeOK
  <2>2. \A f \in Tokens : HeadOf(f)' = HeadOf(f)
    BY <2>1, HeadUnchanged
  <2> QED BY <1>1, <2>2 DEF Lines!vars
<1>3. CASE state[k] = "active"
  <2> DEFINE f == family[k]
  <2>1. f \in Tokens /\ HeadOf(f) = k
    BY <1>3, HeadIsActive DEF FamilyInv
  <2>2. \A j \in Tokens : state'[j] = "active" <=> state[j] = "active" /\ j # k
    BY DEF Revoke, FamilyInv, TypeOK
  <2>3. HeadOf(f)' = Null
    <3>1. ActiveIn(f)' = {}
      BY <1>3, <2>2 DEF ActiveIn, FamilyInv, OneActivePerFamily
    <3> QED BY <3>1 DEF HeadOf
  <2>4. \A g \in Tokens \ {f} : HeadOf(g)' = HeadOf(g)
    BY <2>2, HeadUnchanged
  <2>5. Lines!End(f)
    BY <1>1, <2>1, <2>3, <2>4, ConstantsOK DEF Lines!End
  <2> QED BY <2>1, <2>5 DEF Lines!Next
<1> QED BY <1>2, <1>3

\* The step that creates a token begins a line or puts a new head to one.
LEMMA NewTokenIsHead ==
  ASSUME FamilyInv, FamilyInv', NEW new \in Unused, NEW f \in Tokens,
         state'[new] = "active", family' = [family EXCEPT ![new] = f],
         \A j \in Tokens \ {new} :
           IF family[j] = f /\ state[j] = "active"
           THEN state'[j] = "rotated"
           ELSE state'[j] = state[j]
  PROVE  /\ Tokens \ Unused' = (Tokens \ Unused) \cup {new}
         /\ [g \in Tokens |-> HeadOf(g)]'
            = [[g \in Tokens |-> HeadOf(g)] EXCEPT ![f] = new]
<1>1. new \in Tokens /\ state[new] = "unused"
  BY DEF Unused
<1>2. family'[new] = f
  BY <1>1 DEF FamilyInv, TypeOK
<1>3. HeadOf(f)' = new
  <2>1. ActiveIn(f)' = {new}
    BY <1>1, <1>2 DEF ActiveIn, FamilyInv, OneActivePerFamily
  <2> QED BY <2>1 DEF HeadOf
<1>4. ASSUME NEW g \in Tokens \ {f} PROVE HeadOf(g)' = HeadOf(g)
  <2>1. \A j \in Tokens : state'[j] = "active" /\ family'[j] = g
                         <=> state[j] = "active" /\ family[j] = g
    BY <1>1, <1>2 DEF FamilyInv, TypeOK
  <2> QED BY <2>1, HeadUnchanged
<1>5. Unused' = Unused \ {new}
  BY <1>1 DEF Unused
<1> QED BY <1>1, <1>3, <1>4, <1>5

\* With a host whose RotateAsync is conditional, every login is a line of tokens with
\* one usable head, which is gone for good once it was revoked.
THEOREM LoginsImplementLines ==
  ASSUME RotateOnRefresh, ConditionalRotate
  PROVE  Spec => LoginsAreLines
<1>1. Init => Lines!Init
  <2> SUFFICES ASSUME Init PROVE Lines!Init
    OBVIOUS
  <2>1. \A f \in Tokens : HeadOf(f) = Null
    BY DEF Init, HeadOf, ActiveIn
  <2> QED BY <2>1 DEF Init, Unused, Lines!Init
<1>2. FamilyInv /\ FamilyInv' /\ [Next]_vars => [Lines!Next]_Lines!vars
  <2> SUFFICES ASSUME FamilyInv, FamilyInv', [Next]_vars
               PROVE  [Lines!Next]_Lines!vars
    OBVIOUS
  <2>1. ASSUME UNCHANGED <<state, family>> PROVE [Lines!Next]_Lines!vars
    <3>1. \A f \in Tokens : HeadOf(f)' = HeadOf(f)
      BY <2>1, HeadUnchanged
    <3> QED BY <2>1, <3>1 DEF Lines!vars, Unused
  <2>2. ASSUME NEW p \in Operations, RefuseRevoked(p) PROVE [Lines!Next]_Lines!vars
    <3>1. op[p].token \in Tokens
      BY <2>2, ConstantsOK DEF RefuseRevoked, FamilyInv, TypeOK, Positions, Idle, At
    <3> QED BY <2>1, <2>2, <3>1, RevokeEnds DEF RefuseRevoked
  <2>3. ASSUME NEW p \in Operations, IssueOrRotate(p) PROVE Lines!Next
    <3> PICK new \in Unused :
          IF op[p].token = Null
          THEN Issue(new, op[p].user)
          ELSE Rotate(op[p].token, new, op[p].user)
      BY <2>3 DEF IssueOrRotate
    <3>1. new \in Tokens /\ state[new] = "unused"
      BY DEF Unused
    <3>2. CASE op[p].token = Null
      <4>1. \A j \in Tokens : state[j] = "active" => family[j] # new
        BY <3>1 DEF FamilyInv
      <4>2. /\ state'[new] = "active" /\ family' = [family EXCEPT ![new] = new]
            /\ \A j \in Tokens \ {new} : state'[j] = state[j]
        BY <3>1, <3>2 DEF Issue, FamilyInv, TypeOK
      <4>3. /\ Tokens \ Unused' = (Tokens \ Unused) \cup {new}
            /\ [g \in Tokens |-> HeadOf(g)]'
               = [[g \in Tokens |-> HeadOf(g)] EXCEPT ![new] = new]
        BY <3>1, <4>1, <4>2, NewTokenIsHead
      <4>4. Lines!Begin(new)
        BY <3>1, <4>3 DEF Lines!Begin, Unused
      <4> QED BY <3>1, <4>4 DEF Lines!Next
    <3>3. CASE op[p].token # Null
      <4> DEFINE token == op[p].token
                 f == family[token]
      <4>1. token \in Tokens /\ state[token] = "active"
        BY <3>3 DEF FamilyInv, TypeOK, Positions, Idle, At, Rotate
      <4>2. f \in Tokens /\ HeadOf(f) = token
        BY <4>1, HeadIsActive DEF FamilyInv
      <4>3. /\ state'[new] = "active" /\ family' = [family EXCEPT ![new] = f]
            /\ \A j \in Tokens \ {new} :
                 IF family[j] = f /\ state[j] = "active"
                 THEN state'[j] = "rotated"
                 ELSE state'[j] = state[j]
        BY <3>1, <3>3, <4>1 DEF Rotate, FamilyInv, OneActivePerFamily, TypeOK
      <4>4. /\ Tokens \ Unused' = (Tokens \ Unused) \cup {new}
            /\ [g \in Tokens |-> HeadOf(g)]'
               = [[g \in Tokens |-> HeadOf(g)] EXCEPT ![f] = new]
        BY <4>2, <4>3, NewTokenIsHead
      <4>5. Lines!Continue(f, new)
        BY <3>1, <4>1, <4>2, <4>4, ConstantsOK DEF Lines!Continue, Unused
      <4> QED BY <3>1, <4>2, <4>5 DEF Lines!Next
    <3> QED BY <3>2, <3>3
  <2>4. CASE LogoutAsync
    BY <2>4, RevokeEnds DEF LogoutAsync, FamilyInv, TypeOK
  <2> QED BY <2>1, <2>2, <2>3, <2>4
          DEF Next, LogIn, RefreshAsync, SaveSession, Fail, storeVars, vars
<1> QED BY <1>1, <1>2, FamilyInvariant, PTL DEF Spec, LoginsAreLines, Lines!Spec

=============================================================================
