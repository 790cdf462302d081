----------------------------- MODULE LoginLines -----------------------------
(***************************************************************************)
(* What rotating refresh tokens promise, whatever the stores and calls     *)
(* behind them: a login is a line of tokens of which only the head can be  *)
(* used.  A refresh puts a fresh token at the head; a logout or the reuse  *)
(* of an old token leaves the line without one, for good.                  *)
(***************************************************************************)
CONSTANTS
  Tokens,
  NoHead

VARIABLES
  head,     \* line, named by its first token -> the token that can be used
  issued    \* tokens that have been issued

vars == <<head, issued>>

TypeOK ==
  /\ head \in [Tokens -> Tokens \cup {NoHead}]
  /\ issued \subseteq Tokens

Init ==
  /\ head = [f \in Tokens |-> NoHead]
  /\ issued = {}

Begin(k) ==
  /\ k \notin issued
  /\ head' = [head EXCEPT ![k] = k]
  /\ issued' = issued \cup {k}

Continue(f, k) ==
  /\ head[f] # NoHead
  /\ k \notin issued
  /\ head' = [head EXCEPT ![f] = k]
  /\ issued' = issued \cup {k}

End(f) ==
  /\ head[f] # NoHead
  /\ head' = [head EXCEPT ![f] = NoHead]
  /\ UNCHANGED issued

Next ==
  \E f \in Tokens :
    \/ Begin(f)
    \/ \E k \in Tokens : Continue(f, k)
    \/ End(f)

Spec == Init /\ [][Next]_vars

=============================================================================
