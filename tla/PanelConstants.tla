-------------------------- MODULE PanelConstants ---------------------------
(***************************************************************************)
(* What the panels of the React package exchange with users and hosts.     *)
(***************************************************************************)
EXTENDS Naturals, FiniteSets

CONSTANTS
  Emails,       \* addresses a user may type, a provider or an invitation may bring
  Challenges,   \* challenges the host may begin for a signup
  Linkable,     \* providers that can be linked to an account
  Keys,         \* invitations
  InvitedAs,    \* key -> the address an invitation was sent to
  Restricted,   \* invitations whose canChangeEmailAddress is false
  Handlers,     \* bound: asynchronous handlers that run at the same time
  MaxChanges,   \* bound: changes of one account
  Null          \* no address, no challenge, nothing loaded

ASSUME ConstantsOK ==
  /\ Null \notin Emails \cup Challenges \cup Linkable \cup Keys
  /\ InvitedAs \in [Keys -> Emails] /\ Restricted \subseteq Keys
  /\ MaxChanges \in Nat
  /\ IsFiniteSet(Linkable)

=============================================================================
