------------------------- MODULE MCRefreshSchedule --------------------------
(***************************************************************************)
(* Model-checking instances of RefreshSchedule, with a tick of 5 to 10 s:  *)
(* three retries, requests that outlast the shorter delays, and access     *)
(* tokens that live longer than one setTimeout.                            *)
(***************************************************************************)
EXTENDS RefreshSchedule

Retries == <<1, 2, 4>>

=============================================================================
