--------------------------- MODULE ExternalLogins ---------------------------
(***************************************************************************)
(* Accounts and the external identities linked to them, as                 *)
(* DefaultAuthOrchestrator creates, links and unlinks them.  Each          *)
(* operation looks first and acts later, through stores that belong to the *)
(* host application; every call to one is awaited and can throw.           *)
(*                                                                         *)
(* The host's EnabledProviders of a user are the ways the user can sign    *)
(* in: the providers of its linked identities, and OwnMethod, which stands *)
(* for the password and the other methods that need no link.  A login with *)
(* a linked identity changes nothing here; it is LogIn of RefreshTokens.   *)
(***************************************************************************)
EXTENDS OrchestratorConstants

VARIABLES
  accounts,   \* users that exist
  links,      \* rows <<user, identity>> of IExternalLoginStore
  ownMethod,  \* users that can sign in without an external identity
  abandoned,  \* users whose creation failed after CreateExternalUserAsync
  loginOp          \* operation -> where it stands

loginStores == <<accounts, links, ownMethod>>
loginVars == <<loginStores, abandoned, loginOp>>

Methods == {Provider[i] : i \in Identities} \cup {OwnMethod}

\* Where an operation stands: the user and the identity it works on, and the login
\* methods it has read.
LoginAt(step, user, identity, methods) ==
  [step |-> step, user |-> user, identity |-> identity, methods |-> methods]

LoginIdle == LoginAt("idle", Null, Null, {})

LoginPositions ==
  {LoginIdle}
  \cup [step: {"create"}, user: {Null}, identity: Identities, methods: {{}}]
  \cup [step: {"link"}, user: Users, identity: Identities, methods: {{}}]
  \cup [step: {"read", "unlink"}, user: Users, identity: Identities,
        methods: SUBSET Methods]

LoginsTypeOK ==
  /\ accounts \subseteq Users
  /\ links \subseteq accounts \X Identities
  /\ ownMethod \subseteq accounts
  /\ abandoned \subseteq accounts
  /\ loginOp \in [Operations -> LoginPositions]

Owners(i) == {u \in Users : <<u, i>> \in links}

LinkedProviders(u) == {Provider[i] : i \in {j \in Identities : <<u, j>> \in links}}

\* AuthUser.EnabledProviders.
EnabledProviders(u) ==
  LinkedProviders(u) \cup (IF u \in ownMethod THEN {OwnMethod} ELSE {})

LoginsInit ==
  /\ accounts = {}
  /\ links = {}
  /\ ownMethod = {}
  /\ abandoned = {}
  /\ loginOp = [p \in Operations |-> LoginIdle]

Starts(p, position) ==
  /\ loginOp[p].step = "idle"
  /\ loginOp' = [loginOp EXCEPT ![p] = position]
  /\ UNCHANGED <<loginStores, abandoned>>

Ends(p) == loginOp' = [loginOp EXCEPT ![p] = LoginIdle]

\* Nobody is about to link the identity; no login of the user is being removed.
IdentityIsFree(i) ==
  \A q \in Operations : loginOp[q].step \in {"create", "link"} => loginOp[q].identity # i

RemovalIsFree(u) ==
  \A q \in Operations : loginOp[q].step \in {"read", "unlink"} => loginOp[q].user # u

-----------------------------------------------------------------------------
(***************************************************************************)
(* Signing up and linking.                                                 *)
(***************************************************************************)

\* LoginWithExternalProviderAsync and SignupWithExternalProviderAsync, up to the
\* policies that let an account be created (158-200, 215-244).
FindNobody(p) ==
  \E i \in Identities :
    /\ SerialIdentities => IdentityIsFree(i)
    /\ Owners(i) = {}
    /\ Starts(p, LoginAt("create", Null, i, {}))

\* Variant: the account is built but not stored.
CreateUser_Unsaved(p) ==
  /\ loginOp[p].step = "create"
  /\ \E u \in Users \ accounts :
       loginOp' = [loginOp EXCEPT ![p] = LoginAt("link", u, loginOp[p].identity, {})]
  /\ UNCHANGED <<loginStores, abandoned>>

\* Variant: the identity is left to be linked by a later login.
CreateUser_Unlinked(p) ==
  /\ loginOp[p].step = "create"
  /\ \E u \in Users \ accounts : accounts' = accounts \cup {u}
  /\ Ends(p)
  /\ UNCHANGED <<links, ownMethod, abandoned>>

\* CreateExternalUserAsync (202, 246).
CreateUser(p) ==
  /\ loginOp[p].step = "create"
  /\ \E u \in Users \ accounts :
       /\ accounts' = accounts \cup {u}
       /\ loginOp' = [loginOp EXCEPT ![p] = LoginAt("link", u, loginOp[p].identity, {})]
  /\ UNCHANGED <<links, ownMethod, abandoned>>

\* Variant: any account will do, not only the user's own.
FindOwnOrNobody_Unchecked(p) ==
  \E u \in accounts, i \in Identities :
    /\ SerialIdentities => IdentityIsFree(i)
    /\ Starts(p, LoginAt("link", u, i, {}))

\* LinkProviderAsync up to LinkAsync (489-501).
FindOwnOrNobody(p) ==
  \E u \in accounts, i \in Identities :
    /\ SerialIdentities => IdentityIsFree(i)
    /\ Owners(i) \subseteq {u}
    /\ Starts(p, LoginAt("link", u, i, {}))

\* LinkAsync (203, 247, 503).
Link(p) ==
  /\ loginOp[p].step = "link"
  /\ UniqueLinks => Owners(loginOp[p].identity) \subseteq {loginOp[p].user}
  /\ links' = links \cup {<<loginOp[p].user, loginOp[p].identity>>}
  /\ Ends(p)
  /\ UNCHANGED <<accounts, ownMethod, abandoned>>

\* A call throws, as LinkAsync does when the store is unique and somebody else was
\* first: the operation ends with what it has done.
LoginThrows(p) ==
  /\ loginOp[p].step # "idle"
  /\ abandoned' = IF loginOp[p].step = "link" /\ EnabledProviders(loginOp[p].user) = {}
                  THEN abandoned \cup {loginOp[p].user}
                  ELSE abandoned
  /\ Ends(p)
  /\ UNCHANGED loginStores

-----------------------------------------------------------------------------
(***************************************************************************)
(* Removing login methods.                                                 *)
(***************************************************************************)

\* UnlinkProviderAsync reads the user (512).
ReadUser(p) ==
  \E u \in accounts, i \in Identities :
    /\ SerialRemovals => RemovalIsFree(u)
    /\ Starts(p, LoginAt("read", u, i, EnabledProviders(u)))

\* Variant: the policy counts the login that is to be removed.
PreventLastLogin_CountsItself(provider, enabled, linked) ==
  enabled \cup linked

\* PreventLastLoginProviderUnlinkPolicy: the methods that are left.
PreventLastLogin(provider, enabled, linked) == (enabled \cup linked) \ {provider}

\* It reads the links and asks the policy (513-525).
ReadLinks(p) ==
  /\ loginOp[p].step = "read"
  /\ LET left == PreventLastLogin(Provider[loginOp[p].identity], loginOp[p].methods,
                                  LinkedProviders(loginOp[p].user))
     IN loginOp' = [loginOp EXCEPT ![p] =
                 IF left # {} THEN LoginAt("unlink", loginOp[p].user, loginOp[p].identity, left)
                              ELSE LoginIdle]
  /\ UNCHANGED <<loginStores, abandoned>>

\* UnlinkAsync (527).
Unlink(p) ==
  /\ loginOp[p].step = "unlink"
  /\ links' = links \ {<<loginOp[p].user, loginOp[p].identity>>}
  /\ Ends(p)
  /\ UNCHANGED <<accounts, ownMethod, abandoned>>

\* The host's IAccountLoginMethodWorkflowService sets a password, or removes one, in
\* a transaction that no unlink overlaps, from a user who has another login method.
GainOwnMethod ==
  /\ \E u \in accounts : ownMethod' = ownMethod \cup {u}
  /\ UNCHANGED <<accounts, links, abandoned, loginOp>>

LoseOwnMethod ==
  /\ \E u \in ownMethod :
       /\ RemovalIsFree(u)
       /\ LinkedProviders(u) # {}
       /\ ownMethod' = ownMethod \ {u}
  /\ UNCHANGED <<accounts, links, abandoned, loginOp>>

LoginsNext ==
  \/ \E p \in Operations :
       \/ FindNobody(p) \/ CreateUser(p) \/ FindOwnOrNobody(p) \/ Link(p)
       \/ LoginThrows(p)
       \/ ReadUser(p) \/ ReadLinks(p) \/ Unlink(p)
  \/ GainOwnMethod
  \/ LoseOwnMethod

LoginsSpec == LoginsInit /\ [][LoginsNext]_loginVars

-----------------------------------------------------------------------------
(***************************************************************************)
(* Properties.                                                             *)
(***************************************************************************)

\* An external identity signs in to one account only.  FindByExternalLoginAsync is
\* asked long before LinkAsync (164-203, 223-247, 495-503), so this needs a store that
\* refuses the second link, or operations on one identity that do not overlap.
OneOwner ==
  \A i \in Identities, u, v \in accounts :
    <<u, i>> \in links /\ <<v, i>> \in links => u = v

\* Defaults/PreventLastLoginProviderUnlinkPolicy.cs:7: "Prevents users from removing
\* their final available login method."  Whoever can sign in still can after any step.
LastMethodKept ==
  [][\A u \in accounts : EnabledProviders(u) # {} => EnabledProviders(u)' # {}]_loginVars

\* An account that nobody can sign in to is still being created, or its creation
\* failed between CreateExternalUserAsync and LinkAsync: no sequence of signups, links
\* and unlinks, however they overlap, leaves one behind in another way.
NoAccountLeftBehind ==
  \A u \in accounts :
    \/ EnabledProviders(u) # {}
    \/ u \in abandoned
    \/ \E p \in Operations : loginOp[p].step = "link" /\ loginOp[p].user = u

=============================================================================
