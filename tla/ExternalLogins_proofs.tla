----------------------- MODULE ExternalLogins_proofs ------------------------
(***************************************************************************)
(* Theorems about ExternalLogins, for any number of operations, accounts   *)
(* and identities.                                                         *)
(***************************************************************************)
EXTENDS ExternalLogins, TLAPS

\* The ways of signing in are among Methods.
LEMMA MethodsTyped == \A u : EnabledProviders(u) \subseteq Methods
BY DEF EnabledProviders, LinkedProviders, Methods

\* A step keeps the types: an identity is linked to an account that exists, because
\* an operation that links works for an account that it found or created.
LinkersExist ==
  \A p \in Operations : loginOp[p].step = "link" => loginOp[p].user \in accounts

TypeInv == LoginsTypeOK /\ LinkersExist

\* What an operation's position says of its fields.
LEMMA LoginsPositionFields ==
  ASSUME LoginsTypeOK, NEW p \in Operations
  PROVE  /\ loginOp[p].step # "idle" => loginOp[p].identity \in Identities
         /\ loginOp[p].step \in {"link", "read", "unlink"} => loginOp[p].user \in Users
         /\ loginOp[p].step \in {"read", "unlink"} => loginOp[p].methods \subseteq Methods
BY DEF LoginsTypeOK, LoginPositions, LoginIdle, LoginAt

LEMMA LoginsTypeStep == TypeInv /\ [LoginsNext]_loginVars => TypeInv'
<1> SUFFICES ASSUME TypeInv, [LoginsNext]_loginVars PROVE TypeInv'
  OBVIOUS
<1> USE DEF TypeInv, LinkersExist
<1>1. ASSUME NEW p \in Operations, NEW position \in LoginPositions, Starts(p, position),
             position.step = "link" => position.user \in accounts
      PROVE  TypeInv'
  BY <1>1 DEF Starts, LoginsTypeOK, loginStores
<1>2. ASSUME NEW p \in Operations, Ends(p), accounts \subseteq accounts',
             accounts' \subseteq Users, links' \subseteq accounts' \X Identities,
             ownMethod' \subseteq accounts', abandoned' \subseteq accounts'
      PROVE  TypeInv'
  BY <1>2 DEF Ends, LoginsTypeOK, LoginIdle, LoginAt, LoginPositions
<1>3. ASSUME NEW p \in Operations, FindNobody(p) PROVE TypeInv'
  <2> PICK i \in Identities : Starts(p, LoginAt("create", Null, i, {}))
    BY <1>3 DEF FindNobody
  <2>1. LoginAt("create", Null, i, {}) \in LoginPositions
    BY DEF LoginAt, LoginPositions
  <2> QED BY <1>1, <2>1 DEF LoginAt
<1>4. ASSUME NEW p \in Operations, CreateUser(p) PROVE TypeInv'
  <2> PICK u \in Users \ accounts :
        /\ accounts' = accounts \cup {u}
        /\ loginOp' = [loginOp EXCEPT ![p] = LoginAt("link", u, loginOp[p].identity, {})]
    BY <1>4 DEF CreateUser
  <2>1. LoginAt("link", u, loginOp[p].identity, {}) \in LoginPositions
    BY <1>4, LoginsPositionFields DEF CreateUser, LoginAt, LoginPositions
  <2> QED BY <1>4, <2>1 DEF CreateUser, LoginsTypeOK, LoginAt
<1>5. ASSUME NEW p \in Operations, FindOwnOrNobody(p) PROVE TypeInv'
  <2> PICK u \in accounts, i \in Identities : Starts(p, LoginAt("link", u, i, {}))
    BY <1>5 DEF FindOwnOrNobody
  <2>1. LoginAt("link", u, i, {}) \in LoginPositions
    BY DEF LoginAt, LoginPositions, LoginsTypeOK
  <2> QED BY <1>1, <2>1 DEF LoginAt
<1>6. ASSUME NEW p \in Operations, Link(p) PROVE TypeInv'
  <2>1. <<loginOp[p].user, loginOp[p].identity>> \in accounts \X Identities
    BY <1>6, LoginsPositionFields DEF Link
  <2> QED BY <1>2, <1>6, <2>1 DEF Link, LoginsTypeOK
<1>7. ASSUME NEW p \in Operations, LoginThrows(p) PROVE TypeInv'
  BY <1>2, <1>7 DEF LoginThrows, LoginsTypeOK, loginStores
<1>8. ASSUME NEW p \in Operations, ReadUser(p) PROVE TypeInv'
  <2> PICK u \in accounts, i \in Identities :
        Starts(p, LoginAt("read", u, i, EnabledProviders(u)))
    BY <1>8 DEF ReadUser
  <2>1. LoginAt("read", u, i, EnabledProviders(u)) \in LoginPositions
    BY MethodsTyped DEF LoginAt, LoginPositions, LoginsTypeOK
  <2> QED BY <1>1, <2>1 DEF LoginAt
<1>9. ASSUME NEW p \in Operations, ReadLinks(p) PROVE TypeInv'
  <2> PICK left :
        /\ left = PreventLastLogin(Provider[loginOp[p].identity], loginOp[p].methods,
                                   LinkedProviders(loginOp[p].user))
        /\ loginOp' = [loginOp EXCEPT ![p] =
                    IF left # {} THEN LoginAt("unlink", loginOp[p].user, loginOp[p].identity, left)
                                 ELSE LoginIdle]
    BY <1>9 DEF ReadLinks
  <2>1. left \subseteq Methods
    BY <1>9, LoginsPositionFields, MethodsTyped
    DEF ReadLinks, PreventLastLogin, EnabledProviders
  <2>2. LoginAt("unlink", loginOp[p].user, loginOp[p].identity, left) \in LoginPositions
    BY <1>9, <2>1, LoginsPositionFields DEF ReadLinks, LoginAt, LoginPositions
  <2> QED BY <1>9, <2>2 DEF ReadLinks, LoginsTypeOK, LoginAt, LoginPositions, LoginIdle, loginStores
<1>10. ASSUME NEW p \in Operations, Unlink(p) PROVE TypeInv'
  BY <1>2, <1>10 DEF Unlink, LoginsTypeOK
<1>11. CASE GainOwnMethod
  BY <1>11 DEF GainOwnMethod, LoginsTypeOK
<1>12. CASE LoseOwnMethod
  BY <1>12 DEF LoseOwnMethod, LoginsTypeOK
<1>13. CASE UNCHANGED loginVars
  BY <1>13 DEF loginVars, loginStores, LoginsTypeOK
<1> QED BY <1>3, <1>4, <1>5, <1>6, <1>7, <1>8, <1>9, <1>10, <1>11, <1>12, <1>13
        DEF LoginsNext

LEMMA TypeInit == LoginsInit => TypeInv
BY DEF LoginsInit, TypeInv, LoginsTypeOK, LinkersExist, LoginPositions, LoginIdle, LoginAt

\* Every variable keeps its type; in particular only accounts that exist are linked.
THEOREM LoginsTypeCorrect == LoginsSpec => []LoginsTypeOK
<1>1. TypeInv => LoginsTypeOK
  BY DEF TypeInv
<1> QED BY <1>1, TypeInit, LoginsTypeStep, PTL DEF LoginsSpec

-----------------------------------------------------------------------------
(***************************************************************************)
(* One owner.                                                              *)
(***************************************************************************)

Linking(p) == loginOp[p].step \in {"create", "link"}

\* While the host keeps operations on an identity apart, what the operation found is
\* still so when it links: the identity is nobody's, or its own user's.
FindingsHold ==
  SerialIdentities =>
    /\ \A p, q \in Operations :
         Linking(p) /\ Linking(q) /\ loginOp[p].identity = loginOp[q].identity => p = q
    /\ \A p \in Operations :
         /\ loginOp[p].step = "create" => Owners(loginOp[p].identity) = {}
         /\ loginOp[p].step = "link" => Owners(loginOp[p].identity) \subseteq {loginOp[p].user}

OwnerInv == TypeInv /\ OneOwner /\ FindingsHold

\* A step that adds no link and lets no operation begin keeps the findings.
LEMMA FindingsKept ==
  ASSUME OwnerInv, TypeInv', links' \subseteq links,
         \A p \in Operations :
           Linking(p)' => loginOp'[p] = loginOp[p]
  PROVE  OwnerInv'
<1>1. \A i : Owners(i)' \subseteq Owners(i)
  BY DEF Owners
<1>2. OneOwner'
  BY DEF OwnerInv, OneOwner, TypeInv, LoginsTypeOK
<1>3. FindingsHold'
  BY <1>1 DEF OwnerInv, FindingsHold, Linking
<1> QED BY <1>2, <1>3 DEF OwnerInv

\* A store that refuses a second owner, or a host that keeps the operations on one
\* identity apart: either is enough for every identity to have one owner, whatever
\* else interleaves or throws.
THEOREM IdentitiesHaveOneOwner ==
  ASSUME UniqueLinks \/ SerialIdentities
  PROVE  LoginsSpec => []OneOwner
<1>1. LoginsInit => OwnerInv
  BY TypeInit DEF LoginsInit, OwnerInv, OneOwner, FindingsHold, Linking, LoginIdle, LoginAt
<1>2. OwnerInv /\ [LoginsNext]_loginVars => OwnerInv'
  <2> SUFFICES ASSUME OwnerInv, [LoginsNext]_loginVars PROVE OwnerInv'
    OBVIOUS
  <2>0. TypeInv'
    BY LoginsTypeStep DEF OwnerInv
  <2>1. ASSUME NEW p \in Operations, FindNobody(p) PROVE OwnerInv'
    <3> PICK i \in Identities :
          /\ SerialIdentities => IdentityIsFree(i)
          /\ Owners(i) = {}
          /\ Starts(p, LoginAt("create", Null, i, {}))
      BY <2>1 DEF FindNobody
    <3>1. /\ loginOp'[p] = LoginAt("create", Null, i, {})
          /\ \A q \in Operations \ {p} : loginOp'[q] = loginOp[q]
          /\ UNCHANGED <<links, accounts>>
      BY DEF Starts, OwnerInv, TypeInv, LoginsTypeOK, loginStores
    <3>2. FindingsHold'
      BY <3>1 DEF OwnerInv, FindingsHold, Linking, IdentityIsFree, Owners, LoginAt
    <3> QED BY <2>0, <3>1, <3>2 DEF OwnerInv, OneOwner
  <2>2. ASSUME NEW p \in Operations, CreateUser(p) PROVE OwnerInv'
    <3> PICK u \in Users \ accounts :
          /\ accounts' = accounts \cup {u}
          /\ loginOp' = [loginOp EXCEPT ![p] = LoginAt("link", u, loginOp[p].identity, {})]
      BY <2>2 DEF CreateUser
    <3>1. /\ loginOp[p].step = "create" /\ loginOp'[p] = LoginAt("link", u, loginOp[p].identity, {})
          /\ \A q \in Operations \ {p} : loginOp'[q] = loginOp[q]
          /\ UNCHANGED links
      BY <2>2 DEF CreateUser, OwnerInv, TypeInv, LoginsTypeOK
    <3>2. FindingsHold'
      BY <3>1 DEF OwnerInv, FindingsHold, Linking, Owners, LoginAt
    <3>3. OneOwner'
      BY <3>1 DEF OwnerInv, OneOwner, TypeInv, LoginsTypeOK
    <3> QED BY <2>0, <3>2, <3>3 DEF OwnerInv
  <2>3. ASSUME NEW p \in Operations, FindOwnOrNobody(p) PROVE OwnerInv'
    <3> PICK u \in accounts, i \in Identities :
          /\ SerialIdentities => IdentityIsFree(i)
          /\ Owners(i) \subseteq {u}
          /\ Starts(p, LoginAt("link", u, i, {}))
      BY <2>3 DEF FindOwnOrNobody
    <3>1. /\ loginOp'[p] = LoginAt("link", u, i, {})
          /\ \A q \in Operations \ {p} : loginOp'[q] = loginOp[q]
          /\ UNCHANGED <<links, accounts>>
      BY DEF Starts, OwnerInv, TypeInv, LoginsTypeOK, loginStores
    <3>2. FindingsHold'
      BY <3>1 DEF OwnerInv, FindingsHold, Linking, IdentityIsFree, Owners, LoginAt
    <3> QED BY <2>0, <3>1, <3>2 DEF OwnerInv, OneOwner
  <2>4. ASSUME NEW p \in Operations, Link(p) PROVE OwnerInv'
    <3> PICK i, u : i = loginOp[p].identity /\ u = loginOp[p].user
      OBVIOUS
    <3>1. /\ loginOp[p].step = "link" /\ u \in Users /\ i \in Identities
          /\ loginOp'[p] = LoginIdle
          /\ \A q \in Operations \ {p} : loginOp'[q] = loginOp[q]
          /\ links' = links \cup {<<u, i>>} /\ UNCHANGED accounts
      BY <2>4, LoginsPositionFields DEF Link, Ends, OwnerInv, TypeInv, LoginsTypeOK
    <3>2. Owners(i) \subseteq {u}
      BY <2>4, <3>1 DEF Link, OwnerInv, FindingsHold
    <3>3. /\ Owners(i)' \subseteq {u}
          /\ \A j : j # i => Owners(j)' = Owners(j)
      BY <3>1, <3>2 DEF Owners
    <3>4. OneOwner'
      <4> SUFFICES ASSUME NEW j \in Identities, NEW v \in accounts, NEW w \in accounts,
                          <<v, j>> \in links', <<w, j>> \in links'
                   PROVE  v = w
        BY <3>1 DEF OneOwner
      <4>1. v \in Owners(j)' /\ w \in Owners(j)' /\ v \in Users /\ w \in Users
        BY DEF Owners, OwnerInv, TypeInv, LoginsTypeOK
      <4>2. CASE j = i
        BY <3>3, <4>1, <4>2
      <4>3. CASE j # i
        BY <3>3, <4>1, <4>3 DEF Owners, OwnerInv, OneOwner
      <4> QED BY <4>2, <4>3
    <3>5. FindingsHold'
      <4> SUFFICES ASSUME SerialIdentities PROVE FindingsHold'
        BY DEF FindingsHold
      <4>1. \A q \in Operations : Linking(q)' => q # p /\ Linking(q) /\ loginOp'[q] = loginOp[q]
        BY <3>1 DEF Linking, LoginIdle, LoginAt
      <4>2. \A q \in Operations : Linking(q)' => loginOp[q].identity # i
        BY <3>1, <4>1 DEF OwnerInv, FindingsHold, Linking
      <4> QED BY <3>3, <4>1, <4>2 DEF OwnerInv, FindingsHold, Linking
    <3> QED BY <2>0, <3>4, <3>5 DEF OwnerInv
  <2>5. ASSUME NEW p \in Operations, LoginThrows(p) \/ Unlink(p) PROVE OwnerInv'
    <3>1. links' \subseteq links /\ loginOp' = [loginOp EXCEPT ![p] = LoginIdle]
      BY <2>5 DEF LoginThrows, Unlink, Ends, loginStores
    <3>2. \A q \in Operations : Linking(q)' => loginOp'[q] = loginOp[q]
      BY <3>1 DEF OwnerInv, TypeInv, LoginsTypeOK, Linking, LoginIdle, LoginAt
    <3> QED BY <2>0, <3>1, <3>2, FindingsKept
  <2>6. ASSUME NEW p \in Operations, ReadUser(p) \/ ReadLinks(p) PROVE OwnerInv'
    <3>1. links' \subseteq links
          /\ \A q \in Operations : Linking(q)' => loginOp'[q] = loginOp[q]
      BY <2>6 DEF ReadUser, ReadLinks, Starts, OwnerInv, TypeInv, LoginsTypeOK, Linking,
         LoginIdle, LoginAt, loginStores
    <3> QED BY <2>0, <3>1, FindingsKept
  <2>7. CASE GainOwnMethod \/ LoseOwnMethod \/ UNCHANGED loginVars
    BY <2>0, <2>7, FindingsKept DEF GainOwnMethod, LoseOwnMethod, loginVars, loginStores
  <2> QED BY <2>1, <2>2, <2>3, <2>4, <2>5, <2>6, <2>7 DEF LoginsNext
<1>3. OwnerInv => OneOwner
  BY DEF OwnerInv
<1> QED BY <1>1, <1>2, <1>3, PTL DEF LoginsSpec

-----------------------------------------------------------------------------
(***************************************************************************)
(* The last login method.                                                  *)
(***************************************************************************)

Removing(p) == loginOp[p].step \in {"read", "unlink"}

\* While the host handles one unlink per user at a time, what the operation has read
\* of its user's login methods is still there, and it goes on only if one is left
\* that is not of the provider it removes.
ReadingsHold ==
  /\ \A p, q \in Operations :
       Removing(p) /\ Removing(q) /\ loginOp[p].user = loginOp[q].user => p = q
  /\ \A p \in Operations :
       /\ Removing(p) => loginOp[p].methods \subseteq EnabledProviders(loginOp[p].user)
       /\ loginOp[p].step = "unlink" =>
            loginOp[p].methods # {} /\ Provider[loginOp[p].identity] \notin loginOp[p].methods

RemovalInv == TypeInv /\ ReadingsHold

\* A step after which every user has the login methods it had, and which lets no
\* unlink begin, keeps the readings.
LEMMA ReadingsKept ==
  ASSUME RemovalInv, TypeInv',
         \A u : EnabledProviders(u) \subseteq EnabledProviders(u)',
         \A p \in Operations : Removing(p)' => loginOp'[p] = loginOp[p]
  PROVE  RemovalInv'
BY DEF RemovalInv, ReadingsHold, Removing

\* A step that removes no link and no password takes no login method away.
LEMMA MethodsGrow ==
  ASSUME links \subseteq links', ownMethod \subseteq ownMethod'
  PROVE  \A u : EnabledProviders(u) \subseteq EnabledProviders(u)'
BY DEF EnabledProviders, LinkedProviders

\* Unlinking takes away at most its provider, and from its user only.
LEMMA UnlinkTakes ==
  ASSUME NEW p \in Operations, Unlink(p), NEW u
  PROVE  /\ u # loginOp[p].user => EnabledProviders(u)' = EnabledProviders(u)
         /\ EnabledProviders(u) \ {Provider[loginOp[p].identity]} \subseteq EnabledProviders(u)'
<1> PICK i, v : i = loginOp[p].identity /\ v = loginOp[p].user
  OBVIOUS
<1>1. links' = links \ {<<v, i>>} /\ ownMethod' = ownMethod
  BY DEF Unlink
<1>2. u # v => LinkedProviders(u)' = LinkedProviders(u)
  BY <1>1 DEF LinkedProviders
<1>3. LinkedProviders(u) \ {Provider[i]} \subseteq LinkedProviders(u)'
  BY <1>1 DEF LinkedProviders
<1> QED BY <1>1, <1>2, <1>3 DEF EnabledProviders

LEMMA RemovalInvariant ==
  ASSUME SerialRemovals
  PROVE  LoginsSpec => []RemovalInv
<1>1. LoginsInit => RemovalInv
  BY TypeInit DEF LoginsInit, RemovalInv, ReadingsHold, Removing, LoginIdle, LoginAt
<1>2. RemovalInv /\ [LoginsNext]_loginVars => RemovalInv'
  <2> SUFFICES ASSUME RemovalInv, [LoginsNext]_loginVars PROVE RemovalInv'
    OBVIOUS
  <2>0. TypeInv'
    BY LoginsTypeStep DEF RemovalInv
  <2>1. ASSUME NEW p \in Operations,
               FindNobody(p) \/ CreateUser(p) \/ FindOwnOrNobody(p) \/ Link(p) \/ LoginThrows(p)
        PROVE  RemovalInv'
    <3>1. links \subseteq links' /\ ownMethod \subseteq ownMethod'
      BY <2>1 DEF FindNobody, CreateUser, FindOwnOrNobody, Link, LoginThrows, Starts, loginStores
    <3>2. \A q \in Operations : Removing(q)' => loginOp'[q] = loginOp[q]
      BY <2>1 DEF FindNobody, CreateUser, FindOwnOrNobody, Link, LoginThrows, Starts, Ends,
         RemovalInv, TypeInv, LoginsTypeOK, Removing, LoginIdle, LoginAt
    <3> QED BY <2>0, <3>1, <3>2, MethodsGrow, ReadingsKept
  <2>2. ASSUME NEW p \in Operations, ReadUser(p) PROVE RemovalInv'
    <3> PICK u \in accounts, i \in Identities :
          RemovalIsFree(u) /\ Starts(p, LoginAt("read", u, i, EnabledProviders(u)))
      BY <2>2 DEF ReadUser
    <3>1. /\ loginOp'[p] = LoginAt("read", u, i, EnabledProviders(u))
          /\ \A q \in Operations \ {p} : loginOp'[q] = loginOp[q]
          /\ links' = links /\ ownMethod' = ownMethod
      BY DEF Starts, RemovalInv, TypeInv, LoginsTypeOK, loginStores
    <3>2. \A v : EnabledProviders(v)' = EnabledProviders(v)
      BY <3>1 DEF EnabledProviders, LinkedProviders
    <3>3. ReadingsHold'
      BY <3>1, <3>2 DEF RemovalInv, ReadingsHold, Removing, RemovalIsFree, LoginAt
    <3> QED BY <2>0, <3>3 DEF RemovalInv
  <2>3. ASSUME NEW p \in Operations, ReadLinks(p) PROVE RemovalInv'
    <3> PICK left :
          /\ left = PreventLastLogin(Provider[loginOp[p].identity], loginOp[p].methods,
                                     LinkedProviders(loginOp[p].user))
          /\ loginOp' = [loginOp EXCEPT ![p] =
                      IF left # {} THEN LoginAt("unlink", loginOp[p].user, loginOp[p].identity, left)
                                   ELSE LoginIdle]
      BY <2>3 DEF ReadLinks
    <3>1. /\ left \subseteq EnabledProviders(loginOp[p].user)
          /\ Provider[loginOp[p].identity] \notin left
          /\ links' = links /\ ownMethod' = ownMethod
      BY <2>3 DEF ReadLinks, PreventLastLogin, RemovalInv, ReadingsHold, Removing,
         EnabledProviders, loginStores
    <3>2. /\ \/ left # {} /\ loginOp'[p] = LoginAt("unlink", loginOp[p].user, loginOp[p].identity, left)
             \/ loginOp'[p] = LoginIdle
          /\ \A q \in Operations \ {p} : loginOp'[q] = loginOp[q]
          /\ Removing(p)
      BY <2>3 DEF ReadLinks, RemovalInv, TypeInv, LoginsTypeOK, Removing
    <3>3. \A v : EnabledProviders(v)' = EnabledProviders(v)
      BY <3>1 DEF EnabledProviders, LinkedProviders
    <3>4. ReadingsHold'
      BY <3>1, <3>2, <3>3 DEF RemovalInv, ReadingsHold, Removing, LoginIdle, LoginAt
    <3> QED BY <2>0, <3>4 DEF RemovalInv
  <2>4. ASSUME NEW p \in Operations, Unlink(p) PROVE RemovalInv'
    <3>1. /\ loginOp'[p] = LoginIdle
          /\ \A q \in Operations \ {p} : loginOp'[q] = loginOp[q]
          /\ Removing(p)
      BY <2>4 DEF Unlink, Ends, RemovalInv, TypeInv, LoginsTypeOK, Removing
    <3>2. \A q \in Operations : Removing(q)' =>
            /\ q # p /\ Removing(q) /\ loginOp'[q] = loginOp[q]
            /\ loginOp[q].user # loginOp[p].user
      BY <3>1 DEF RemovalInv, ReadingsHold, Removing, LoginIdle, LoginAt
    <3>3. \A u : u # loginOp[p].user => EnabledProviders(u)' = EnabledProviders(u)
      BY <2>4, UnlinkTakes
    <3>4. ReadingsHold'
      BY <3>2, <3>3 DEF RemovalInv, ReadingsHold, Removing
    <3> QED BY <2>0, <3>4 DEF RemovalInv
  <2>5. CASE LoseOwnMethod
    <3> PICK u \in ownMethod : RemovalIsFree(u) /\ ownMethod' = ownMethod \ {u}
      BY <2>5 DEF LoseOwnMethod
    <3>1. loginOp' = loginOp /\ links' = links
      BY <2>5 DEF LoseOwnMethod
    <3>2. \A v : v # u => EnabledProviders(v)' = EnabledProviders(v)
      BY <3>1 DEF EnabledProviders, LinkedProviders
    <3>3. \A q \in Operations : Removing(q) => loginOp[q].user # u
      BY DEF RemovalIsFree, Removing
    <3>4. ReadingsHold'
      BY <3>1, <3>2, <3>3 DEF RemovalInv, ReadingsHold, Removing
    <3> QED BY <2>0, <3>4 DEF RemovalInv
  <2>6. CASE GainOwnMethod \/ UNCHANGED loginVars
    BY <2>0, <2>6, MethodsGrow, ReadingsKept DEF GainOwnMethod, loginVars, loginStores
  <2> QED BY <2>1, <2>2, <2>3, <2>4, <2>5, <2>6 DEF LoginsNext
<1> QED BY <1>1, <1>2, PTL DEF LoginsSpec

\* A user who can sign in still can after any step: an unlink leaves the method that
\* it has counted on.
LEMMA MethodsStay ==
  ASSUME RemovalInv, LoginsNext, NEW u \in accounts, EnabledProviders(u) # {}
  PROVE  EnabledProviders(u)' # {}
<1>1. CASE links \subseteq links' /\ ownMethod \subseteq ownMethod'
  BY <1>1, MethodsGrow
<1>2. ASSUME NEW p \in Operations, Unlink(p) PROVE EnabledProviders(u)' # {}
  <2>1. CASE u # loginOp[p].user
    BY <1>2, <2>1, UnlinkTakes
  <2>2. CASE u = loginOp[p].user
    <3>1. loginOp[p].methods # {} /\ Provider[loginOp[p].identity] \notin loginOp[p].methods
          /\ loginOp[p].methods \subseteq EnabledProviders(u)
      BY <1>2, <2>2 DEF Unlink, RemovalInv, ReadingsHold, Removing
    <3> QED BY <1>2, <2>2, <3>1, UnlinkTakes
  <2> QED BY <2>1, <2>2
<1>3. CASE LoseOwnMethod
  <2> PICK v \in ownMethod : LinkedProviders(v) # {} /\ ownMethod' = ownMethod \ {v}
    BY <1>3 DEF LoseOwnMethod
  <2>1. links' = links
    BY <1>3 DEF LoseOwnMethod
  <2>2. CASE u = v
    BY <2>1, <2>2 DEF EnabledProviders, LinkedProviders
  <2>3. CASE u # v
    BY <2>1, <2>3 DEF EnabledProviders, LinkedProviders
  <2> QED BY <2>2, <2>3
<1> QED BY <1>1, <1>2, <1>3
        DEF LoginsNext, FindNobody, CreateUser, FindOwnOrNobody, Link, LoginThrows, ReadUser,
            ReadLinks, GainOwnMethod, Starts, loginStores

\* No step takes the last login method away from a user, as long as the host handles
\* one unlink per user at a time: links, signups, logins and password changes may
\* come between the reads of an unlink and its end.
THEOREM LastLoginMethodStays ==
  ASSUME SerialRemovals
  PROVE  LoginsSpec => LastMethodKept
<1> DEFINE Kept ==
      \A u \in accounts : EnabledProviders(u) # {} => EnabledProviders(u)' # {}
<1>1. RemovalInv /\ [LoginsNext]_loginVars => [Kept]_loginVars
  BY MethodsStay
<1> QED BY <1>1, RemovalInvariant, PTL DEF LoginsSpec, LastMethodKept

\* With the same assumption, an account that nobody can sign in to is one whose
\* creation is under way or has failed half-way.
THEOREM AccountsAreReachable ==
  ASSUME SerialRemovals
  PROVE  LoginsSpec => []NoAccountLeftBehind
<1>1. LoginsInit => NoAccountLeftBehind
  BY DEF LoginsInit, NoAccountLeftBehind
<1>2. RemovalInv /\ NoAccountLeftBehind /\ [LoginsNext]_loginVars => NoAccountLeftBehind'
  <2> SUFFICES ASSUME RemovalInv, NoAccountLeftBehind, [LoginsNext]_loginVars,
                      NEW u \in accounts', EnabledProviders(u)' = {}
               PROVE  NoAccountLeftBehind!(u)'
    BY DEF NoAccountLeftBehind
  <2>1. CASE UNCHANGED loginVars
    BY <2>1 DEF loginVars, loginStores, NoAccountLeftBehind, EnabledProviders, LinkedProviders
  <2>2. CASE LoginsNext /\ u \in accounts
    <3>1. EnabledProviders(u) = {}
      BY <2>2, MethodsStay
    <3>2. CASE u \in abandoned
      <4>1. abandoned \subseteq abandoned'
        BY <2>2 DEF LoginsNext, FindNobody, CreateUser, FindOwnOrNobody, Link, LoginThrows, ReadUser,
           ReadLinks, Unlink, GainOwnMethod, LoseOwnMethod, Starts
      <4> QED BY <3>2, <4>1
    <3>3. CASE u \notin abandoned
      <4> PICK p \in Operations : loginOp[p].step = "link" /\ loginOp[p].user = u
        BY <2>2, <3>1, <3>3 DEF NoAccountLeftBehind
      <4>1. CASE loginOp'[p] = loginOp[p]
        BY <4>1
      <4>2. CASE LoginThrows(p)
        BY <3>1, <4>2 DEF LoginThrows
      <4>3. ~Link(p)
        <5> SUFFICES ASSUME Link(p) PROVE FALSE
          OBVIOUS
        <5>1. loginOp[p].identity \in Identities
          BY LoginsPositionFields DEF RemovalInv, TypeInv
        <5>2. Provider[loginOp[p].identity] \in LinkedProviders(u)'
          BY <5>1 DEF Link, LinkedProviders
        <5> QED BY <5>2 DEF EnabledProviders
      <4>4. loginOp'[p] = loginOp[p] \/ LoginThrows(p) \/ Link(p)
        BY <2>2 DEF LoginsNext, FindNobody, CreateUser, FindOwnOrNobody, Link, LoginThrows, ReadUser,
           ReadLinks, Unlink, GainOwnMethod, LoseOwnMethod, Starts, Ends,
           RemovalInv, TypeInv, LoginsTypeOK
      <4> QED BY <4>1, <4>2, <4>3, <4>4
    <3> QED BY <3>2, <3>3
  <2>3. CASE LoginsNext /\ u \notin accounts
    <3>1. PICK p \in Operations : CreateUser(p)
      BY <2>3 DEF LoginsNext, FindNobody, FindOwnOrNobody, Link, LoginThrows, ReadUser,
         ReadLinks, Unlink, GainOwnMethod, LoseOwnMethod, Starts, loginStores
    <3> QED BY <2>3, <3>1 DEF CreateUser, RemovalInv, TypeInv, LoginsTypeOK, LoginAt
  <2> QED BY <2>1, <2>2, <2>3
<1> QED BY <1>1, <1>2, RemovalInvariant, PTL DEF LoginsSpec

=============================================================================
