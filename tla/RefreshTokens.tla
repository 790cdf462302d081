---------------------------- MODULE RefreshTokens ---------------------------
(***************************************************************************)
(* The life of refresh tokens in DefaultAuthOrchestrator: issued with a    *)
(* session, exchanged by RefreshAsync, revoked by LogoutAsync or when one  *)
(* is used again.  The stores belong to the host application and every     *)
(* call to one is awaited, so operations interleave between any two calls  *)
(* and any call can throw, which ends the operation with what it has done. *)
(*                                                                         *)
(* Claims, tenants and access tokens are computed from the user and change *)
(* nothing; they are part of the step that follows them.                   *)
(***************************************************************************)
EXTENDS OrchestratorConstants, Naturals, FiniteSets

VARIABLES
  state,       \* token -> its row in the refresh token store
  owner,       \* token -> UserId
  parent,      \* token -> the token it replaced
  family,      \* token -> the token of the login it descends from
  delivered,   \* tokens a client has received
  reused,      \* tokens refused by RefreshAsync because they were revoked
  saved,       \* user -> the token of the session in IAuthSessionStore
  op           \* operation -> where it stands

storeVars == <<state, owner, parent, family>>
vars == <<storeVars, delivered, reused, saved, op>>

States == {"unused", "active", "rotated", "revoked"}

\* Where an operation stands: `user` is the session's user, `token` the one
\* presented, `new` the one issued.
At(step, user, token, new) ==
  [step |-> step, user |-> user, token |-> token, new |-> new]

Idle == At("idle", Null, Null, Null)

\* "exchange": a token has been found valid, or a login has been let through;
\* "reuse": a revoked one has been found; "save": the new token exists.
Positions ==
  LET User == Users \cup {Null}
  IN {Idle}
     \cup [step: {"exchange"}, user: User, token: Tokens \cup {Null}, new: {Null}]
     \cup [step: {"reuse"}, user: User, token: Tokens, new: {Null}]
     \cup [step: {"save"}, user: User, token: Tokens \cup {Null}, new: Tokens]

TypeOK ==
  /\ state \in [Tokens -> States]
  /\ owner \in [Tokens -> Users \cup {Null}]
  /\ parent \in [Tokens -> Tokens \cup {Null}]
  /\ family \in [Tokens -> Tokens \cup {Null}]
  /\ delivered \subseteq Tokens
  /\ reused \subseteq Tokens
  /\ saved \in [Users -> Tokens \cup {Null}]
  /\ op \in [Operations -> Positions]

Unused == {k \in Tokens : state[k] = "unused"}

Init ==
  /\ state = [k \in Tokens |-> "unused"]
  /\ owner = [k \in Tokens |-> Null]
  /\ parent = [k \in Tokens |-> Null]
  /\ family = [k \in Tokens |-> Null]
  /\ delivered = {}
  /\ reused = {}
  /\ saved = [u \in Users |-> Null]
  /\ op = [p \in Operations |-> Idle]

-----------------------------------------------------------------------------
(***************************************************************************)
(* The stores.                                                             *)
(***************************************************************************)

\* IRefreshTokenStore.IssueAsync: the first token of a new family.
Issue(new, u) ==
  /\ state' = [state EXCEPT ![new] = "active"]
  /\ owner' = [owner EXCEPT ![new] = u]
  /\ family' = [family EXCEPT ![new] = new]
  /\ UNCHANGED parent

\* Variant: the host's store replaces a token that is not active any more.
Rotate_Unconditional(token, new, u) ==
  /\ state' = [state EXCEPT ![token] = "rotated", ![new] = "active"]
  /\ owner' = [owner EXCEPT ![new] = u]
  /\ parent' = [parent EXCEPT ![new] = token]
  /\ family' = [family EXCEPT ![new] = family[token]]

\* IRefreshTokenStore.RotateAsync: "Replaces an existing refresh token with a
\* newly issued token".
Rotate(token, new, u) ==
  /\ ConditionalRotate => state[token] = "active"
  /\ state' = [state EXCEPT ![token] = "rotated", ![new] = "active"]
  /\ owner' = [owner EXCEPT ![new] = u]
  /\ parent' = [parent EXCEPT ![new] = token]
  /\ family' = [family EXCEPT ![new] = family[token]]

\* IRefreshTokenStore.RevokeAsync: "Revokes a refresh token"; a token the store
\* does not know, or that is revoked already, stays as it is.
Revoke(token) ==
  state' = [state EXCEPT ![token] = IF @ = "active" THEN "revoked" ELSE @]

IsRevoked(token) == state[token] \in {"rotated", "revoked"}

-----------------------------------------------------------------------------
(***************************************************************************)
(* Operations.                                                             *)
(***************************************************************************)

\* A login, signup, IssueSessionAsync or SwitchTenantAsync whose checks passed
\* (121-300): CreateAuthResponseAsync is called without a current token.
LogIn(p) ==
  /\ op[p].step = "idle"
  /\ \E u \in Users : op' = [op EXCEPT ![p] = At("exchange", u, Null, Null)]
  /\ UNCHANGED <<storeVars, delivered, reused, saved>>

\* RefreshAsync up to RequireUserAsync (305-325), on what FindAsync returned.  A
\* client presents a token it has been given, at any time and any number of times.
RefreshAsync(p) ==
  /\ op[p].step = "idle"
  /\ \E k \in delivered :
       op' = [op EXCEPT ![p] =
                At(IF IsRevoked(k) THEN "reuse" ELSE "exchange", owner[k], k, Null)]
  /\ UNCHANGED <<storeVars, delivered, reused, saved>>

\* A revoked token was presented (310-318).
RefuseRevoked(p) ==
  /\ op[p].step = "reuse"
  /\ IF RevokeOnUseOfRevokedAncestor
     THEN Revoke(op[p].token)
     ELSE UNCHANGED state
  /\ reused' = reused \cup {op[p].token}
  /\ op' = [op EXCEPT ![p] = Idle]
  /\ UNCHANGED <<owner, parent, family, delivered, saved>>

\* Variant: the answer goes out before the session is saved.
IssueOrRotate_EarlyAnswer(p) ==
  /\ op[p].step = "exchange"
  /\ \E new \in Unused :
       /\ IF op[p].token = Null \/ ~RotateOnRefresh
          THEN Issue(new, op[p].user)
          ELSE Rotate(op[p].token, new, op[p].user)
       /\ op' = [op EXCEPT ![p] = At("save", op[p].user, op[p].token, new)]
       /\ delivered' = delivered \cup {new}
  /\ UNCHANGED <<reused, saved>>

\* Variant: the token that the store returns is not kept.
IssueOrRotate_Unrecorded(p) ==
  /\ op[p].step = "exchange"
  /\ \E new \in Unused :
       IF op[p].token = Null \/ ~RotateOnRefresh
       THEN Issue(new, op[p].user)
       ELSE Rotate(op[p].token, new, op[p].user)
  /\ op' = [op EXCEPT ![p] = At("save", op[p].user, op[p].token, Null)]
  /\ UNCHANGED <<delivered, reused, saved>>

\* CreateAuthResponseAsync up to the token (693-709).
IssueOrRotate(p) ==
  /\ op[p].step = "exchange"
  /\ \E new \in Unused :
       /\ IF op[p].token = Null \/ ~RotateOnRefresh
          THEN Issue(new, op[p].user)
          ELSE Rotate(op[p].token, new, op[p].user)
       /\ op' = [op EXCEPT ![p] = At("save", op[p].user, op[p].token, new)]
  /\ UNCHANGED <<delivered, reused, saved>>

\* Onboarding is evaluated, the session is saved, and the response goes out (711-746);
\* it may get lost on the way.
SaveSession(p) ==
  /\ op[p].step = "save"
  /\ saved' = [saved EXCEPT ![op[p].user] = op[p].new]
  /\ delivered' \in {delivered, delivered \cup {op[p].new}}
  /\ op' = [op EXCEPT ![p] = Idle]
  /\ UNCHANGED <<storeVars, reused>>

\* A call of the operation throws, or RotateAsync refuses.
Fail(p) ==
  /\ op[p].step # "idle"
  /\ op' = [op EXCEPT ![p] = Idle]
  /\ UNCHANGED <<storeVars, delivered, reused, saved>>

\* LogoutAsync (332-333): one call, with the token the client sends.
LogoutAsync ==
  /\ \E k \in delivered : Revoke(k)
  /\ UNCHANGED <<owner, parent, family, delivered, reused, saved, op>>

Next ==
  \/ \E p \in Operations :
       \/ LogIn(p) \/ RefreshAsync(p) \/ RefuseRevoked(p)
       \/ IssueOrRotate(p) \/ SaveSession(p) \/ Fail(p)
  \/ LogoutAsync

Spec == Init /\ [][Next]_vars

-----------------------------------------------------------------------------
(***************************************************************************)
(* Properties.                                                             *)
(***************************************************************************)

\* However refreshes, replays, failures and logouts interleave, a login has at
\* most one active refresh token at a time: rotation never forks a family.  The
\* check of IsRevoked (310) is made on a row read before other awaits, so this
\* rests on the host's RotateAsync being conditional.
OneActivePerFamily ==
  \A j, k \in Tokens :
    state[j] = "active" /\ state[k] = "active" /\ family[j] = family[k] => j = k

\* The tokens of a login form a line with one head, which ends for good: the
\* operations implement LoginLines.  A family is named by its first token.
ActiveIn(f) == {k \in Tokens : state[k] = "active" /\ family[k] = f}

HeadOf(f) ==
  IF ActiveIn(f) = {} THEN Null ELSE CHOOSE k \in ActiveIn(f) : TRUE

Lines == INSTANCE LoginLines WITH
  head <- [f \in Tokens |-> HeadOf(f)],
  issued <- Tokens \ Unused,
  NoHead <- Null

LoginsAreLines == Lines!Spec

\* The session that GetCurrentSessionAsync returns is never older than the one the
\* client holds: once a client has the replacement of a token, the session store
\* does not show the replaced token, although SaveAsync calls of concurrent
\* operations arrive in any order.
SessionStoreNotBehindClient ==
  \A u \in Users, k \in delivered : parent[k] # Null => saved[u] # parent[k]

\* Options/RefreshTokenOptions.cs:17: "reuse of a revoked token ancestor should
\* revoke the active token family".
ReuseRevokesFamily ==
  RevokeOnUseOfRevokedAncestor =>
    \A k \in reused, j \in Tokens :
      family[j] = family[k] => state[j] # "active"

=============================================================================
