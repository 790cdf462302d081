--------------------------- MODULE MCAuthProvider ---------------------------
(***************************************************************************)
(* Model-checking instances of AuthProvider.  Tabs and sessions are        *)
(* interchangeable, so the runs that check safety use symmetry.            *)
(***************************************************************************)
EXTENDS AuthProvider, TLC

Symmetry == Permutations(Tabs) \cup Permutations(Sessions)

=============================================================================
