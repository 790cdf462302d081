---------------------------- MODULE Orchestrator ----------------------------
(***************************************************************************)
(* The parts of DefaultAuthOrchestrator together, with the age gate that   *)
(* it shares with the signup panel.  They share neither state nor calls:   *)
(* a step is one of one part and leaves the variables of the others alone. *)
(***************************************************************************)
EXTENDS RefreshTokens, ExternalLogins, PasswordLogin, Mfa, AgeGate

allVars == <<vars, loginVars, passwordVars, mfaVars, ageVars>>

AllInit == Init /\ LoginsInit /\ PasswordInit /\ MfaInit /\ GateInit

TokensStep == Next /\ UNCHANGED <<loginVars, passwordVars, mfaVars, ageVars>>
LoginsStep == LoginsNext /\ UNCHANGED <<vars, passwordVars, mfaVars, ageVars>>
PasswordStep == PasswordNext /\ UNCHANGED <<vars, loginVars, mfaVars, ageVars>>
MfaStep == MfaNext /\ UNCHANGED <<vars, loginVars, passwordVars, ageVars>>
GateStep == GateNext /\ UNCHANGED <<vars, loginVars, passwordVars, mfaVars>>

AllNext == TokensStep \/ LoginsStep \/ PasswordStep \/ MfaStep \/ GateStep

AllSpec == AllInit /\ [][AllNext]_allVars

-----------------------------------------------------------------------------
\* The type invariants of the parts.
TypesOK == TypeOK /\ LoginsTypeOK /\ PasswordTypeOK /\ MfaTypeOK /\ GateTypeOK

=============================================================================
