-------------------------- MODULE AuthHooks_proofs --------------------------
(***************************************************************************)
(* Theorems about AuthHooks, for any tabs, sessions and hooks: the hooks   *)
(* keep what the provider promises about the agreement of tabs, because    *)
(* all they do to it is to call setSession.                                *)
(***************************************************************************)
EXTENDS AuthHooks, AuthProvider_proofs

\* A hook's answer is a session or none.
LEMMA HookSetsKnown ==
  ASSUME HookTypeOK, NEW t \in Tabs,
         HookRefreshEnds(t) \/ HookLoginEnds(t) \/ HookLogoutEnds(t)
  PROVE  \E next \in Session : HookSets(t, next)
<1>1. Null \in Session /\ pending[t].served \in Session /\ Unused \subseteq Session
  BY DEF HookTypeOK, Requests, Session, Unused
<1> QED BY <1>1 DEF HookRefreshEnds, HookLoginEnds, HookLogoutEnds

\* fate keeps its type when a hook's request is served or ends.
LEMMA HookFates ==
  ASSUME TypeOK, NEW t \in Tabs,
         HookRefreshEnds(t) \/ HookLoginEnds(t) \/ HookLogoutEnds(t) \/ HookRefreshServed(t)
  PROVE  fate' \in [Sessions -> Fates]
<1>1. CASE HookRefreshEnds(t) \/ HookLogoutEnds(t)
  BY <1>1 DEF HookRefreshEnds, HookLogoutEnds, TypeOK
<1>2. CASE HookLoginEnds(t)
  BY <1>2 DEF HookLoginEnds, TypeOK, Fates, Unused
<1>3. CASE HookRefreshServed(t)
  BY <1>3 DEF HookRefreshServed, TypeOK, Fates, Unused
<1> QED BY <1>1, <1>2, <1>3

LEMMA HookTypeStep == HookTypeOK /\ [HookNext]_hookVars => HookTypeOK'
<1> SUFFICES ASSUME HookTypeOK, [HookNext]_hookVars PROVE HookTypeOK'
  OBVIOUS
<1>0. TypeOK /\ pending \in [Tabs -> Requests]
  BY DEF HookTypeOK
<1>1. NoRequest \in Requests
  BY DEF NoRequest, Requests, Session
<1>2. CASE ProviderStep
  <2>1. TypeOK'
    BY <1>0, <1>2, TypeStep DEF ProviderStep
  <2> QED BY <1>0, <1>1, <1>2, <2>1 DEF ProviderStep, HookTypeOK
<1>3. ASSUME NEW t \in Tabs, HookStarts(t) PROVE HookTypeOK'
  <2>1. TypeOK'
    BY <1>0, <1>3 DEF HookStarts, vars, tabVars, reactVars, callVars, TypeOK
  <2>2. session[t] \in Session
    BY <1>0 DEF TypeOK
  <2>3. pending' \in [Tabs -> Requests]
    BY <1>0, <1>3, <2>2 DEF HookStarts, Requests
  <2> QED BY <2>1, <2>3 DEF HookTypeOK
<1>4. ASSUME NEW t \in Tabs, HookRefreshServed(t) PROVE HookTypeOK'
  <2>1. fate' \in [Sessions -> Fates]
    BY <1>0, <1>4, HookFates
  <2>2. TypeOK'
    BY <1>0, <1>4, <2>1 DEF HookRefreshServed, TypeOK, tabVars, reactVars, callVars
  <2>3. pending' \in [Tabs -> Requests]
    BY <1>0, <1>4 DEF HookRefreshServed, Requests, Unused, Session
  <2> QED BY <2>2, <2>3 DEF HookTypeOK
<1>5. ASSUME NEW t \in Tabs, HookRefreshEnds(t) \/ HookLoginEnds(t) \/ HookLogoutEnds(t)
      PROVE  HookTypeOK'
  <2>1. PICK next \in Session : HookSets(t, next)
    BY <1>5, HookSetsKnown
  <2>2. fate' \in [Sessions -> Fates]
    BY <1>0, <1>5, HookFates
  <2>3. TypeOK'
    BY <1>0, <2>1, <2>2, SetSessionTypes DEF HookSets, TypeOK
  <2> QED BY <1>0, <1>1, <2>1, <2>3 DEF HookSets, HookTypeOK
<1>6. CASE UNCHANGED hookVars
  BY <1>0, <1>6 DEF hookVars, vars, tabVars, reactVars, callVars, TypeOK, HookTypeOK
<1> QED BY <1>2, <1>3, <1>4, <1>5, <1>6 DEF HookNext

LEMMA HookBegins == HookInit => HookTypeOK /\ AgreeInv
<1> SUFFICES ASSUME HookInit PROVE HookTypeOK /\ AgreeInv
  OBVIOUS
<1>1. AgreeInv
  BY AgreeInit DEF HookInit
<1>2. pending \in [Tabs -> Requests]
  BY DEF HookInit, NoRequest, Requests, Session
<1> QED BY <1>1, <1>2 DEF HookTypeOK, AgreeInv

\* Every variable keeps its type, with hooks in any tabs.
THEOREM HooksTypeCorrect == HookSpec => []HookTypeOK
BY HookBegins, HookTypeStep, PTL DEF HookSpec

\* The provider's invariant survives the hooks.
LEMMA HookAgreeStep ==
  HookTypeOK /\ AgreeInv /\ [HookNext]_hookVars => AgreeInv'
<1> SUFFICES ASSUME HookTypeOK, AgreeInv, [HookNext]_hookVars PROVE AgreeInv'
  OBVIOUS
<1>0. TypeOK'
  BY HookTypeStep DEF HookTypeOK
<1>1. CASE ProviderStep
  BY <1>1, AgreeStep DEF ProviderStep
<1>2. ASSUME UNCHANGED <<storage, event, tabVars, reactVars, ref>> PROVE AgreeInv'
  BY <1>0, <1>2 DEF AgreeInv, ReactOK, HeardOK, tabVars, reactVars
<1>3. ASSUME NEW t \in Tabs, HookStarts(t) \/ HookRefreshServed(t) PROVE AgreeInv'
  BY <1>2, <1>3 DEF HookStarts, HookRefreshServed, vars
<1>4. ASSUME NEW t \in Tabs, HookRefreshEnds(t) \/ HookLoginEnds(t) \/ HookLogoutEnds(t)
      PROVE  AgreeInv'
  <2>1. PICK next \in Session : HookSets(t, next)
    BY <1>4, HookSetsKnown
  <2> QED BY <1>0, <2>1, SetSessionAgrees DEF HookSets
<1>5. CASE UNCHANGED hookVars
  BY <1>2, <1>5 DEF hookVars, vars
<1> QED BY <1>1, <1>3, <1>4, <1>5 DEF HookNext

\* A host that uses the hooks in any tabs, at any moment, does not part a tab from
\* storage: the hooks restore sessions they should not, but every tab gets to know.
THEOREM TabsAgreeWithHooks == HookSpec => []TabsAgree
<1>1. HookTypeOK /\ AgreeInv /\ [HookNext]_hookVars => HookTypeOK' /\ AgreeInv'
  BY HookTypeStep, HookAgreeStep
<1> QED BY <1>1, HookBegins, AgreeEnough, PTL DEF HookSpec

=============================================================================
