------------------------------- MODULE Panels -------------------------------
(***************************************************************************)
(* The panels of the React package together.  They share nothing but what  *)
(* a host makes of their requests: a step is one of one panel and leaves   *)
(* the variables of the others alone.                                      *)
(***************************************************************************)
EXTENDS SignupPanel

CONSTANTS
  AccountEmails,  \* Emails of AccountLoginMethods
  MaxPage, MaxSent

VARIABLES
  details, accountChallenge, setup, accountBusyAction, accountBusyProvider, accountEmail,
  editing, accountVerifying, accountOwn, accountTask, account, accountProved,
  key, user, embedded, asked, loading, loads, invitationDetails, invitationView,
  invitationEmail, existing, invitationIsSubmitting, invitationTask,
  mode, page, rows, listLoading, acting, importing, expanded, info, listTask, version,
  inline, stable, due, sent, loginShowEmail, showCode, loginChallenge, loginIsSubmitting,
  passwordlessBusy, loginBusyProvider, script, loginTask

accountVars ==
  <<details, accountChallenge, setup, accountBusyAction, accountBusyProvider, accountEmail,
    editing, accountVerifying, accountOwn, accountTask, account, accountProved>>
invitationVars ==
  <<key, user, embedded, asked, loading, loads, invitationDetails, invitationView,
    invitationEmail, existing, invitationIsSubmitting, invitationTask>>
invitationsVars ==
  <<mode, page, rows, listLoading, acting, importing, expanded, info, listTask, version>>
loginVars ==
  <<inline, stable, due, sent, loginShowEmail, showCode, loginChallenge, loginIsSubmitting,
    passwordlessBusy, loginBusyProvider, script, loginTask>>
allVars == <<vars, accountVars, invitationVars, invitationsVars, loginVars>>

Accounts == INSTANCE AccountLoginMethods WITH
  Emails <- AccountEmails, Keys <- {}, InvitedAs <- << >>, Restricted <- {},
  challenge <- accountChallenge, busyAction <- accountBusyAction,
  busyProvider <- accountBusyProvider, email <- accountEmail,
  verifying <- accountVerifying, own <- accountOwn, task <- accountTask,
  proved <- accountProved
Invitation == INSTANCE InvitationAcceptance WITH
  details <- invitationDetails, view <- invitationView, email <- invitationEmail,
  isSubmitting <- invitationIsSubmitting, task <- invitationTask
Invitations == INSTANCE InvitationManagement WITH
  loading <- listLoading, task <- listTask
Login == INSTANCE LoginPanel WITH
  showEmail <- loginShowEmail, challenge <- loginChallenge,
  isSubmitting <- loginIsSubmitting, busyProvider <- loginBusyProvider, task <- loginTask

ASSUME PanelBoundsOK ==
  /\ MaxPage \in Nat \ {0} /\ MaxSent \in Nat
  /\ AccountEmails \subseteq Emails
  /\ Null \notin Login!Providers /\ Keys \cap {"list", "invite", "import"} = {}

AllInit == Init /\ Accounts!Init /\ Invitation!Init /\ Invitations!Init /\ Login!Init

SignupStep ==
  Next /\ UNCHANGED <<accountVars, invitationVars, invitationsVars, loginVars>>
AccountStep ==
  Accounts!Next /\ UNCHANGED <<vars, invitationVars, invitationsVars, loginVars>>
InvitationStep ==
  Invitation!Next /\ UNCHANGED <<vars, accountVars, invitationsVars, loginVars>>
InvitationsStep ==
  Invitations!Next /\ UNCHANGED <<vars, accountVars, invitationVars, loginVars>>
LoginStep ==
  Login!Next /\ UNCHANGED <<vars, accountVars, invitationVars, invitationsVars>>

AllNext == SignupStep \/ AccountStep \/ InvitationStep \/ InvitationsStep \/ LoginStep

AllSpec == AllInit /\ [][AllNext]_allVars

-----------------------------------------------------------------------------
\* The type invariants of the five panels.
TypesOK ==
  /\ TypeOK /\ Accounts!TypeOK /\ Invitation!TypeOK /\ Invitations!TypeOK /\ Login!TypeOK

\* Operations that share a busy flag run one at a time, in the login panel, over an
\* invitation and in the list of invitations, although views and props change under them.
OneAtATime ==
  Login!LoginsAlone /\ Invitation!OperationsAlone /\ Invitations!ActionsAlone

\* When a change of an account is reported as done, what is shown has it, and when an
\* operation on the list of invitations ends, its rows do, whichever loads overlap.
SuccessIsShown == [][Accounts!ShowsSuccess /\ Invitations!ShowsSuccess]_allVars

\* The request that sets a password up carries an address the user proved.
SetupIsVerified == Accounts!SetupIsVerified

\* What is shown of an invitation, from the effect of its key on, or of the list, is what the
\* key or the page names.
ShownAsAsked == Invitation!DetailsOfTheKey /\ Invitations!RowsOfThePage

\* An invitation that is bound to an address is accepted, or signed in for by its own form,
\* with that one, unless the request comes before the effect of its key.
RestrictedAddressKept == Invitation!RestrictedAddressKept

\* A sign-in whose script failed ends with an error, the second one too.
FailedScriptIsReported == Login!FailedScriptIsReported

=============================================================================
