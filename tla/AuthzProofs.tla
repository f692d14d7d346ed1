---------------------------- MODULE AuthzProofs ----------------------------
(***************************************************************************)
(* Proofs about the access-policy evaluator, for all lists of policies and *)
(* bindings, of any length and order, all roles, permissions and           *)
(* applications.                                                           *)
(***************************************************************************)
EXTENDS AccessPolicy, TLAPS

-----------------------------------------------------------------------------
(* The evaluator                                                           *)

\* "@home" covers the home application alone.
LEMMA HomeOnly ==
  ASSUME NEW s, s.apps = {appHome}, NEW target, NEW home, coversApp(s, target, home)
  PROVE  target = home /\ home # NoApp
  BY DEF coversApp, matchApp, appHome, appWildcard

\* Whoever holds nothing on an application is granted nothing there, and the
\* verdict is that of the patterns held on it.
LEMMA VerdictOfPatterns ==
  ASSUME NEW pr, NEW app, NEW perm, perm # NoPerm
  PROVE  granted(pr, perm, app) <=> \E a \in patternsOn(pr, app) : matchAction(a, perm)
  BY DEF granted, patternsOn

-----------------------------------------------------------------------------
(* The index                                                               *)

\* The last of the entries that pass a test, when exactly one does.
LEMMA LastOfOne ==
  ASSUME NEW I, NEW i \in I, i \in Int, \A j \in I : j = i
  PROVE  Max(I) = i
  <1>1. i >= i
    OBVIOUS
  <1>2. \E x \in I : \A y \in I : x >= y
    BY <1>1
  <1>3. Max(I) \in I
    BY <1>2 DEF Max
  <1> QED BY <1>3

\* A policy that is defined once is indexed with its statements.
LEMMA PolicyIndexed ==
  ASSUME NEW ps \in Seq(Policies), NEW bs \in Seq(Bindings), NEW i \in 1..Len(ps),
         \A j, k \in 1..Len(ps) : ps[j].name = ps[k].name => j = k
  PROVE  /\ ps[i].name \in DOMAIN newPolicyIndex(ps, bs).policies
         /\ newPolicyIndex(ps, bs).policies[ps[i].name] = ps[i].statements
  <1> DEFINE I == {j \in 1..Len(ps) : ps[j].name = ps[i].name}
  <1>1. i \in I /\ i \in Int /\ \A j \in I : j = i
    OBVIOUS
  <1>2. Max(I) = i /\ I # {}
    BY <1>1, LastOfOne
  <1>3. SelectLastInSeq(ps, LAMBDA p : p.name = ps[i].name) = i
    BY <1>2 DEF SelectLastInSeq
  <1>4. ps[i].name \in {p.name : p \in ToSet(ps)}
    BY DEF ToSet
  <1> QED BY <1>3, <1>4 DEF newPolicyIndex

\* A role that is bound once, to a policy the snapshot carries, has it.
LEMMA RoleIndexed ==
  ASSUME NEW ps \in Seq(Policies), NEW bs \in Seq(Bindings), NEW i \in 1..Len(bs),
         bs[i].policy \in {p.name : p \in ToSet(ps)},
         \A j, k \in 1..Len(bs) : bs[j].role = bs[k].role => j = k
  PROVE  /\ bs[i].role \in DOMAIN newPolicyIndex(ps, bs).rolePolicy
         /\ newPolicyIndex(ps, bs).rolePolicy[bs[i].role] = bs[i].policy
  <1> DEFINE names == {p.name : p \in ToSet(ps)}
             I == {j \in 1..Len(bs) : bs[j].role = bs[i].role /\ bs[j].policy \in names}
  <1>1. i \in I /\ i \in Int /\ \A j \in I : j = i
    OBVIOUS
  <1>2. Max(I) = i /\ I # {}
    BY <1>1, LastOfOne
  <1>3. SelectLastInSeq(bs, LAMBDA b : b.role = bs[i].role /\ b.policy \in names) = i
    BY <1>2 DEF SelectLastInSeq
  <1>4. bs[i].role \in {b.role : b \in {c \in ToSet(bs) : c.policy \in names}}
    BY DEF ToSet
  <1> QED BY <1>3, <1>4 DEF newPolicyIndex

\* And only roles and policies of the lists are indexed.
LEMMA IndexDomains ==
  ASSUME NEW ps \in Seq(Policies), NEW bs \in Seq(Bindings)
  PROVE  /\ DOMAIN newPolicyIndex(ps, bs).policies = {p.name : p \in ToSet(ps)}
         /\ DOMAIN newPolicyIndex(ps, bs).rolePolicy =
              {b.role : b \in {c \in ToSet(bs) : c.policy \in {p.name : p \in ToSet(ps)}}}
  BY DEF newPolicyIndex

-----------------------------------------------------------------------------
(* The properties                                                          *)

LEMMA ListTypes == Spec => [](policies \in Seq(Policies) /\ bindings \in Seq(Bindings))
  <1> DEFINE T == policies \in Seq(Policies) /\ bindings \in Seq(Bindings)
  <1>1. Init => T
    BY DEF Init
  <1>2. ASSUME T, [Next]_vars PROVE T'
    <2>1. CASE AddPolicy
      BY <1>2, <2>1 DEF AddPolicy
    <2>2. CASE AddBinding
      BY <1>2, <2>2 DEF AddBinding
    <2>3. CASE UNCHANGED vars
      BY <1>2, <2>3 DEF vars
    <2> QED BY <1>2, <2>1, <2>2, <2>3 DEF Next
  <1> QED BY <1>1, <1>2, PTL DEF Spec

\* A principal that calls is resolved from some roles and a home, if any.
LEMMA Resolved ==
  ASSUME NEW pr \in Principals
  PROVE  \E roles \in SUBSET Roles, home \in AppsOrNone :
           pr = resolveStatements(roles, home, newPolicyIndex(policies, bindings))
  BY DEF Principals

\* The documented rule holds, for lists of any length, as long as policies are
\* defined and roles are bound once (newPolicyIndex and resolveStatements).
THEOREM UnionHeld == Spec => []UnionWhenBoundOnce
  <1>1. ASSUME policies \in Seq(Policies), bindings \in Seq(Bindings),
               OncePer(bindings, LAMBDA b : b.role), OncePer(policies, LAMBDA p : p.name),
               NEW pr \in Principals
        PROVE  pr.statements = UnionOf(pr.roles)
    <2> DEFINE idx == newPolicyIndex(policies, bindings)
               names == {p.name : p \in ToSet(policies)}
    <2>1. /\ \A j, k \in 1..Len(policies) : policies[j].name = policies[k].name => j = k
          /\ \A j, k \in 1..Len(bindings) : bindings[j].role = bindings[k].role => j = k
      BY <1>1 DEF OncePer
    <2>2. ASSUME NEW p \in ToSet(policies)
          PROVE  p.name \in DOMAIN idx.policies /\ idx.policies[p.name] = p.statements
      <3>1. PICK i \in 1..Len(policies) : p = policies[i]
        BY <1>1 DEF ToSet
      <3> QED BY <1>1, <2>1, <3>1, PolicyIndexed
    <2>3. ASSUME NEW b \in ToSet(bindings), b.policy \in names
          PROVE  b.role \in DOMAIN idx.rolePolicy /\ idx.rolePolicy[b.role] = b.policy
      <3>1. PICK i \in 1..Len(bindings) : b = bindings[i]
        BY <1>1 DEF ToSet
      <3> QED BY <1>1, <2>1, <2>3, <3>1, RoleIndexed
    <2>4. DOMAIN idx.rolePolicy = {b.role : b \in {c \in ToSet(bindings) : c.policy \in names}}
      BY <1>1, IndexDomains
    <2>5. PICK roles \in SUBSET Roles : \E home \in AppsOrNone : pr = resolveStatements(roles, home, idx)
      BY Resolved
    <2> HIDE DEF idx
    <2>6. /\ pr.roles = roles
          /\ pr.statements = UNION {idx.policies[n] : n \in {idx.rolePolicy[r] : r \in roles \cap DOMAIN idx.rolePolicy}}
      BY <2>5 DEF resolveStatements
    <2>7. ASSUME NEW s
          PROVE  s \in pr.statements <=>
                   \E b \in ToSet(bindings) : \E p \in ToSet(policies) :
                     b.role \in roles /\ b.policy = p.name /\ s \in p.statements
      <3>1. ASSUME NEW r \in roles \cap DOMAIN idx.rolePolicy, s \in idx.policies[idx.rolePolicy[r]]
            PROVE  \E b \in ToSet(bindings) : \E p \in ToSet(policies) :
                     b.role \in roles /\ b.policy = p.name /\ s \in p.statements
        <4>1. PICK b \in ToSet(bindings) : b.policy \in names /\ b.role = r
          BY <2>4
        <4>2. PICK p \in ToSet(policies) : p.name = b.policy
          BY <4>1
        <4> QED BY <3>1, <4>1, <4>2, <2>2, <2>3
      <3>2. ASSUME NEW b \in ToSet(bindings), NEW p \in ToSet(policies),
                   b.role \in roles, b.policy = p.name, s \in p.statements
            PROVE  \E r \in roles \cap DOMAIN idx.rolePolicy : s \in idx.policies[idx.rolePolicy[r]]
        BY <3>2, <2>2, <2>3
      <3>3. s \in pr.statements <=> \E r \in roles \cap DOMAIN idx.rolePolicy : s \in idx.policies[idx.rolePolicy[r]]
        BY <2>6
      <3> QED BY <3>1, <3>2, <3>3
    <2>8. ASSUME NEW s
          PROVE  s \in UnionOf(pr.roles) <=>
                   \E b \in ToSet(bindings) : \E p \in ToSet(policies) :
                     b.role \in roles /\ b.policy = p.name /\ s \in p.statements
      BY <2>6 DEF UnionOf
    <2> QED BY <2>7, <2>8
  <1>2. policies \in Seq(Policies) /\ bindings \in Seq(Bindings) => UnionWhenBoundOnce
    BY <1>1 DEF UnionWhenBoundOnce, UnionOfBoundPolicies
  <1> QED BY <1>2, ListTypes, PTL

\* "@home" opens no application but the home, to any permission, and none at all
\* to a principal without a home (matchApp).
THEOREM HomeHeld == Spec => []HomeConfined
  <1>1. ASSUME NEW pr \in Principals, NEW app \in (AppsOrNone \ {pr.home}) \cup {NoApp},
               \A s \in pr.statements : s.apps = {appHome}
        PROVE  (\A perm \in Perms : ~granted(pr, perm, app)) /\ ~isWildcard(pr, app)
    <2>1. \A s \in pr.statements : ~coversApp(s, app, pr.home)
      BY <1>1, HomeOnly
    <2> QED BY <2>1, PermsAssumption DEF granted, isWildcard
  <1>2. HomeConfined
    BY <1>1 DEF HomeConfined
  <1> QED BY <1>2, PTL

\* What /api/_iam/me lists decides as the gateway does (permissionsByApp).
THEOREM IntrospectionHeld == Spec => []IntrospectionAgrees
  <1>1. ASSUME NEW pr \in Principals, NEW app \in Apps, NEW perm \in Perms
        PROVE  granted(pr, perm, app) <=>
                 /\ app \in DOMAIN permissionsByApp(pr, Apps)
                 /\ \E a \in permissionsByApp(pr, Apps)[app] : matchAction(a, perm)
    <2>1. granted(pr, perm, app) <=> \E a \in patternsOn(pr, app) : matchAction(a, perm)
      BY PermsAssumption, VerdictOfPatterns
    <2>2. app \in DOMAIN permissionsByApp(pr, Apps) <=> patternsOn(pr, app) # {}
      BY DEF permissionsByApp
    <2>3. app \in DOMAIN permissionsByApp(pr, Apps) => permissionsByApp(pr, Apps)[app] = patternsOn(pr, app)
      BY DEF permissionsByApp
    <2> QED BY <2>1, <2>2, <2>3
  <1>2. IntrospectionAgrees
    BY <1>1 DEF IntrospectionAgrees
  <1> QED BY <1>2, PTL
=============================================================================
