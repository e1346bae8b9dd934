--------------------------- MODULE ManifestsProofs ---------------------------
(***************************************************************************)
(* Theorems about the manifests of every resource.                         *)
(***************************************************************************)
EXTENDS Manifests, TLAPS, WellFoundedInduction, SequenceTheorems, FiniteSetTheorems

\* What the first map has, and mergo does not take for empty, stays.
LEMMA FillKeeps ==
    ASSUME NEW dst, NEW src, NEW f \in DOMAIN dst, dst[f] \notin Empty
    PROVE  f \in DOMAIN Fill(dst, src) /\ Fill(dst, src)[f] = dst[f]
  BY DEF Fill

\* What the first settings say in a file stays, whatever the second say.
LEMMA MergeSettingsKeeps ==
    ASSUME NEW m1, NEW m2, m1 # None,
           NEW file \in DOMAIN m1,
           NEW path \in DOMAIN m1[file], m1[file][path] \notin Empty,
           MergeSettings(m1, m2) # Malformed
    PROVE  /\ path \in DOMAIN MergeSettings(m1, m2)[file]
           /\ MergeSettings(m1, m2)[file][path] = m1[file][path]
  <1>1. CASE m2 = None
    BY <1>1 DEF MergeSettings
  <1>2. CASE m2 # None
    <2> DEFINE both == DOMAIN m1 \intersect DOMAIN m2
               merged == [g \in DOMAIN m1 \union DOMAIN m2 |->
                             IF g \in both THEN Fill(m1[g], m2[g])
                             ELSE IF g \in DOMAIN m1 THEN m1[g] ELSE m2[g]]
    <2>1. MergeSettings(m1, m2) = merged
      BY <1>2 DEF MergeSettings
    <2>2. merged[file] = m1[file] \/ merged[file] = Fill(m1[file], m2[file])
      OBVIOUS
    <2> QED
      BY <2>1, <2>2, FillKeeps
  <1> QED
    BY <1>1, <1>2

\* A config map that can be generated has the operator's settings.
LEMMA ConfigOfKeeps ==
    ASSUME NEW r, NEW group, ConfigOf(r, group) # Malformed,
           NEW path \in DOMAIN Computed
    PROVE  ConfigOf(r, group)["opensearch.yml"][path] = Computed[path]
  <1> DEFINE user == IF r.global.config = None THEN group.config
                     ELSE MergeSettings(group.config, r.global.config)
  <1>1. ConfigOf(r, group) = MergeSettings(Injected, user)
    BY DEF ConfigOf
  <1>2. /\ "opensearch.yml" \in DOMAIN Injected
        /\ Injected["opensearch.yml"] = Computed
    BY DEF Injected
  <1> HIDE DEF user
  <1> QED
    BY <1>1, <1>2, MergeSettingsKeeps, ComputedAssumption

\* The certificates' paths and the other settings the operator computes are
\* in every config map GenerateConfigMaps returns, for every resource: user
\* settings under the same paths, of a node group or of all, never win.
THEOREM ComputedSettingsAlwaysWin == Spec => []ComputedSettingsWin
  <1> DEFINE Inv == DOMAIN made = Kinds /\ ComputedSettingsWin
  <1>1. Init => Inv
    BY DEF Init, Kinds, ComputedSettingsWin, Done
  <1>2. Inv /\ [Next]_vars => Inv'
    <2> SUFFICES ASSUME Inv, [Next]_vars PROVE Inv'
      OBVIOUS
    <2>1. CASE UNCHANGED vars
      BY <2>1 DEF vars, ComputedSettingsWin, Done
    <2>2. CASE GenerateConfigMaps
      <3>1. DOMAIN made' = Kinds /\ made'["configMaps"] = ConfigMaps(h)
        BY <2>2 DEF GenerateConfigMaps, Make, Kinds
      <3>2. SUFFICES ASSUME Done("configMaps")', NEW i \in DOMAIN ConfigMaps(h),
                            NEW path \in DOMAIN Computed
                     PROVE  ConfigMaps(h)[i].data["opensearch.yml"][path] = Computed[path]
        BY <3>1 DEF ComputedSettingsWin
      <3>3. ConfigMaps(h) # Malformed
        BY <3>1, <3>2 DEF Done
      <3>4. /\ \A g \in GroupsOf(h) : ConfigOf(h, g) # Malformed
            /\ DOMAIN ConfigMaps(h) = DOMAIN h.groups
            /\ ConfigMaps(h)[i].data = ConfigOf(h, h.groups[i])
        BY <3>2, <3>3 DEF ConfigMaps
      <3>5. h.groups[i] \in GroupsOf(h)
        BY <3>2, <3>4 DEF GroupsOf, ToSet
      <3> QED
        BY <3>4, <3>5, ConfigOfKeeps
    <2>3. CASE \/ GenerateServices \/ GenerateStatefullsets \/ GenerateIngress
               \/ GenerateLoadbalancer \/ GeneratePodDisruptionBudget \/ Fetch
      <3>1. /\ DOMAIN made' = Kinds
            /\ made'["configMaps"] = made["configMaps"]
        BY <2>3 DEF GenerateServices, GenerateStatefullsets, GenerateIngress,
                    GenerateLoadbalancer, GeneratePodDisruptionBudget, Fetch, Make, Kinds
      <3> QED
        BY <3>1 DEF ComputedSettingsWin, Done
    <2> QED
      BY <2>1, <2>2, <2>3 DEF Next
  <1> QED
    BY <1>1, <1>2, PTL DEF Spec

-----------------------------------------------------------------------------
(* The resource after its budgets are generated.                           *)

\* Induction over the natural numbers, by a least counterexample.
LEMMA LeastElement ==
    ASSUME NEW S \in SUBSET Nat, S # {}
    PROVE  \E m \in S : \A k \in S : m <= k
  <1> DEFINE R == OpToRel(<, Nat)
  <1>1. IsWellFoundedOn(R, Nat)
    BY NatLessThanWellFounded
  <1>2. ASSUME NEW x \in Nat, NEW y \in Nat, <<x, y>> \notin R
        PROVE  y <= x
    BY <1>2 DEF OpToRel
  <1> HIDE DEF R
  <1>3. PICK m \in S : \A k \in S : ~(<<k, m>> \in R)
    BY <1>1, WFMin
  <1>4. \A k \in S : m <= k
    BY <1>2, <1>3
  <1> QED
    BY <1>4

\* The resources that the node groups' edits lead through, one by one.
LEMMA EditedStep ==
    ASSUME NEW r, Len(r.groups) \in Nat
    PROVE  /\ Edited(r)[0] = r
           /\ \A n \in 1..Len(r.groups) :
                Edited(r)[n] = MergeBudget(Edited(r)[n - 1], n).resource
  <1> DEFINE Is(e, n) == e = [k \in 0..n |-> IF k = 0 THEN r
                                            ELSE MergeBudget(e[k - 1], k).resource]
             None_(n) == \A e : ~Is(e, n)
             S == {n \in Nat : None_(n)}
  <1>1. S = {}
    <2> SUFFICES ASSUME S # {} PROVE FALSE
      OBVIOUS
    <2>1. PICK m \in S : \A k \in S : m <= k
      BY LeastElement
    <2>2. CASE m = 0
      <3> DEFINE e == [k \in 0..0 |-> r]
      <3>1. Is(e, 0)
        OBVIOUS
      <3> QED BY <2>1, <2>2, <3>1
    <2>3. CASE m # 0
      <3>1. m - 1 \in Nat /\ m - 1 \notin S
        <4>1. m \in Nat
          OBVIOUS
        <4> HIDE DEF S
        <4> QED BY <2>1, <2>3, <4>1
      <3>2. PICK e : Is(e, m - 1)
        BY <3>1
      <3> DEFINE f == [k \in 0..m |-> IF k = m THEN MergeBudget(e[m - 1], m).resource
                                     ELSE e[k]]
      <3>3. ASSUME NEW k \in 0..m
            PROVE  f[k] = IF k = 0 THEN r ELSE MergeBudget(f[k - 1], k).resource
        <4>1. CASE k = m
          BY <2>3, <4>1
        <4>2. CASE k # m
          <5>1. k \in 0..(m - 1) /\ f[k] = e[k] /\ (k # 0 => f[k - 1] = e[k - 1])
            BY <4>2
          <5>2. e[k] = IF k = 0 THEN r ELSE MergeBudget(e[k - 1], k).resource
            BY <3>2, <5>1
          <5> QED BY <5>1, <5>2
        <4> QED BY <4>1, <4>2
      <3>4. Is(f, m)
        BY <3>3
      <3> QED BY <2>1, <3>4
    <2> QED BY <2>2, <2>3
  <1>2. \E e : Is(e, Len(r.groups))
    BY <1>1
  <1>3. Edited(r) = CHOOSE e : Is(e, Len(r.groups))
    BY DEF Edited
  <1>4. Is(Edited(r), Len(r.groups))
    BY <1>2, <1>3
  <1> QED
    BY <1>4

\* A node group that differs from another in its budget at most.
Alike(g, k) == k = [g EXCEPT !.budget = k.budget]

\* A resource that differs from another in its node groups' budgets at most.
Kin(r, q) ==
    /\ q = [r EXCEPT !.groups = q.groups]
    /\ q.groups = [i \in DOMAIN r.groups |-> q.groups[i]]
    /\ \A i \in DOMAIN r.groups : Alike(r.groups[i], q.groups[i])

\* What node group i and the global settings of r make together.
Merged(r, i) == MergePointers(BudgetOf(r.groups[i].budget), BudgetOf(r.global.budget))

\* What is left in node group i after they are merged.
Absorbed(r, i) == [f \in DOMAIN r.groups[i].budget |-> Merged(r, i)[f]]

\* What the edits of its budgets may make of a resource.
Reached(r, q) ==
    /\ Kin(r, q)
    /\ \A i \in DOMAIN r.groups :
         \/ q.groups[i].budget = r.groups[i].budget
         \/ r.groups[i].budget # None /\ q.groups[i].budget = Absorbed(r, i)

GroupFields ==
    {"name", "replicas", "roles", "persistence", "config", "budget", "securityRef",
     "antiAffinity", "labels", "env", "jvm"}

\* The shape of a resource.
LEMMA Shape ==
    ASSUME NEW r, OpensearchSpec(r)
    PROVE  /\ Struct(r, {"name", "labels", "global", "groups", "ingress", "loadBalancer"})
           /\ Len(r.groups) \in Nat /\ DOMAIN r.groups = 1..Len(r.groups)
           /\ r.groups = [i \in DOMAIN r.groups |-> r.groups[i]]
           /\ \A i \in DOMAIN r.groups :
                /\ Struct(r.groups[i], GroupFields)
                /\ r.groups[i].name \in Name
                /\ r.groups[i].budget = None \/ PodDisruptionBudgetSpec(r.groups[i].budget)
           /\ r.global.budget = None \/ PodDisruptionBudgetSpec(r.global.budget)
           /\ r.name \in Name
  <1>1. r.groups \in Seq(ToSet(r.groups))
    BY DEF OpensearchSpec
  <1>2. /\ Len(r.groups) \in Nat /\ DOMAIN r.groups = 1..Len(r.groups)
        /\ r.groups \in [1..Len(r.groups) -> ToSet(r.groups)]
    BY <1>1, LenProperties
  <1>3. \A i \in DOMAIN r.groups :
          /\ Struct(r.groups[i], GroupFields)
          /\ r.groups[i].name \in Name
          /\ r.groups[i].budget = None \/ PodDisruptionBudgetSpec(r.groups[i].budget)
    BY DEF OpensearchSpec, NodeGroupSpec, GroupFields
  <1>4. r.global.budget = None \/ PodDisruptionBudgetSpec(r.global.budget)
    BY DEF OpensearchSpec, GlobalNodeGroupSpec
  <1> QED
    BY <1>2, <1>3, <1>4 DEF OpensearchSpec

\* Merging the same values into a value once more changes nothing.
LEMMA FillAgain ==
    ASSUME NEW d, NEW s
    PROVE  Fill(Fill(d, s), s) = Fill(d, s)
  BY DEF Fill

\* A budget may be filled from another one.
LEMMA FillType ==
    ASSUME NEW d \in IntOrString, NEW s \in IntOrString
    PROVE  Fill(d, s) \in IntOrString
  <1> DEFINE e == Fill(d, s)
  <1>1. DOMAIN d = {"type", "int", "str"} /\ DOMAIN s = {"type", "int", "str"}
    BY DEF IntOrString
  <1>2. e = [f \in {"type", "int", "str"} |-> IF d[f] \notin Empty THEN d[f] ELSE s[f]]
    BY <1>1 DEF Fill
  <1>3. \A f \in {"type", "int", "str"} : e[f] \in {d[f], s[f]}
    BY <1>2
  <1>4. e.type \in {"Int", "String"} /\ e.int \in STRING /\ e.str \in STRING
    BY <1>3 DEF IntOrString
  <1>5. e = [type |-> e.type, int |-> e.int, str |-> e.str]
    <2>1. e = [f \in {"type", "int", "str"} |-> e[f]]
      BY <1>2
    <2> HIDE DEF e
    <2> QED BY <2>1
  <1> HIDE DEF e
  <1> QED
    BY <1>4, <1>5 DEF IntOrString, e

\* What is left in a node group after a merge is a budget.
LEMMA AbsorbedType ==
    ASSUME NEW r, OpensearchSpec(r), NEW i \in DOMAIN r.groups,
           r.groups[i].budget # None
    PROVE  PodDisruptionBudgetSpec(Absorbed(r, i))
  <1> DEFINE own == r.groups[i].budget
             all == BudgetOf(r.global.budget)
  <1>1. PICK fields \in SUBSET {"min", "max"} : own \in [fields -> IntOrString]
    BY Shape DEF PodDisruptionBudgetSpec
  <1>2. PICK others \in SUBSET {"min", "max"} : all \in [others -> IntOrString]
    <2>1. CASE r.global.budget = None
      BY <2>1 DEF BudgetOf, Unset
    <2>2. CASE r.global.budget # None
      BY <2>2, Shape DEF BudgetOf, PodDisruptionBudgetSpec
    <2> QED BY <2>1, <2>2
  <1>3. Merged(r, i) = MergePointers(own, all)
    BY DEF Merged, BudgetOf
  <1> HIDE DEF own, all
  <1>4. \A f \in fields : MergePointers(own, all)[f] \in IntOrString
    BY <1>1, <1>2, FillType DEF MergePointers
  <1>5. Absorbed(r, i) \in [fields -> IntOrString]
    BY <1>1, <1>3, <1>4 DEF Absorbed, own
  <1> QED
    BY <1>5 DEF PodDisruptionBudgetSpec

\* What a node group has absorbed makes the same with the global settings.
LEMMA MergedAgain ==
    ASSUME NEW r, OpensearchSpec(r), NEW i \in DOMAIN r.groups,
           r.groups[i].budget # None
    PROVE  /\ Absorbed(r, i) # None /\ DOMAIN Absorbed(r, i) = DOMAIN r.groups[i].budget
           /\ MergePointers(Absorbed(r, i), BudgetOf(r.global.budget)) = Merged(r, i)
  <1> DEFINE own == r.groups[i].budget
             all == BudgetOf(r.global.budget)
             left == Absorbed(r, i)
  <1>1. left # None /\ DOMAIN left = DOMAIN own
    BY AbsorbedType, NoneAssumption DEF Absorbed
  <1>2. Merged(r, i) = MergePointers(own, all)
    BY DEF Merged, BudgetOf
  <1>3. \A f \in DOMAIN own : left[f] = MergePointers(own, all)[f]
    BY <1>2 DEF Absorbed
  <1> HIDE DEF left, own, all
  <1>4. ASSUME NEW f \in DOMAIN own \union DOMAIN all
        PROVE  MergePointers(left, all)[f] = MergePointers(own, all)[f]
    <2>1. CASE f \notin DOMAIN own \/ f \notin DOMAIN all
      BY <1>1, <1>3, <2>1 DEF MergePointers
    <2>2. CASE f \in DOMAIN own /\ f \in DOMAIN all
      <3>1. left[f] = Fill(own[f], all[f])
        BY <1>3, <2>2 DEF MergePointers
      <3>2. MergePointers(left, all)[f] = Fill(left[f], all[f])
        BY <1>1, <2>2 DEF MergePointers
      <3> QED
        BY <2>2, <3>1, <3>2, FillAgain DEF MergePointers
    <2> QED
      BY <2>1, <2>2
  <1>5. MergePointers(left, all) = MergePointers(own, all)
    BY <1>1, <1>4 DEF MergePointers
  <1> QED
    BY <1>1, <1>2, <1>5 DEF left, own, all

\* What an edited resource and its node groups have in common with what they
\* were made from.
SameGroup(g, k) ==
    /\ k.name = g.name /\ k.replicas = g.replicas /\ k.roles = g.roles
    /\ k.persistence = g.persistence /\ k.config = g.config
    /\ k.securityRef = g.securityRef /\ k.antiAffinity = g.antiAffinity
    /\ k.labels = g.labels /\ k.env = g.env /\ k.jvm = g.jvm

LEMMA KinFields ==
    ASSUME NEW r, OpensearchSpec(r), NEW q, Kin(r, q)
    PROVE  /\ q.name = r.name /\ q.labels = r.labels /\ q.global = r.global
           /\ q.ingress = r.ingress /\ q.loadBalancer = r.loadBalancer
           /\ DOMAIN q.groups = DOMAIN r.groups /\ Len(q.groups) = Len(r.groups)
           /\ \A i \in DOMAIN r.groups : SameGroup(r.groups[i], q.groups[i])
  <1>1. /\ q.name = r.name /\ q.labels = r.labels /\ q.global = r.global
        /\ q.ingress = r.ingress /\ q.loadBalancer = r.loadBalancer
    BY DEF OpensearchSpec, Struct, Kin
  <1>2. DOMAIN q.groups = DOMAIN r.groups
    BY DEF Kin
  <1>3. Len(q.groups) = Len(r.groups)
    <2> DEFINE n == Len(r.groups)
               S == {q.groups[i] : i \in 1..n}
    <2>1. n \in Nat /\ DOMAIN q.groups = 1..n /\ q.groups = [i \in 1..n |-> q.groups[i]]
      BY <1>2, Shape DEF Kin
    <2>2. q.groups \in [1..n -> S]
      BY <2>1
    <2> HIDE DEF S, n
    <2>3. q.groups \in Seq(S)
      BY <2>1, <2>2
    <2>4. Len(q.groups) \in Nat /\ 1..Len(q.groups) = 1..n
      BY <2>1, <2>3, LenProperties
    <2> QED
      BY <2>1, <2>4 DEF n
  <1>4. ASSUME NEW i \in DOMAIN r.groups
        PROVE  SameGroup(r.groups[i], q.groups[i])
    <2>1. Struct(r.groups[i], GroupFields) /\ Alike(r.groups[i], q.groups[i])
      BY Shape DEF Kin
    <2> QED
      BY <2>1 DEF Struct, GroupFields, Alike, SameGroup
  <1> QED
    BY <1>1, <1>2, <1>3, <1>4

LEMMA ReachedItself ==
    ASSUME NEW r, OpensearchSpec(r)
    PROVE  Reached(r, r)
  <1>1. r = [r EXCEPT !.groups = r.groups]
    BY Shape DEF Struct
  <1>2. ASSUME NEW i \in DOMAIN r.groups
        PROVE  Alike(r.groups[i], r.groups[i])
    <2>1. Struct(r.groups[i], GroupFields)
      BY Shape
    <2> QED
      BY <2>1 DEF Struct, Alike
  <1>3. r.groups = [i \in DOMAIN r.groups |-> r.groups[i]]
    BY Shape
  <1> QED
    BY <1>1, <1>2, <1>3 DEF Reached, Kin

\* One merge on a resource that was reached: the budget is the one of the
\* resource the user wrote, and so is what the edit leaves reached.
LEMMA MergeBudgetReached ==
    ASSUME NEW r, OpensearchSpec(r), NEW q, Reached(r, q), NEW i \in DOMAIN r.groups
    PROVE  /\ MergeBudget(q, i).budget = Merged(r, i)
           /\ Reached(r, MergeBudget(q, i).resource)
  <1> DEFINE merged == MergePointers(BudgetOf(q.groups[i].budget), BudgetOf(q.global.budget))
             own == q.groups[i].budget
             left == [f \in DOMAIN own |-> merged[f]]
             edited == [q EXCEPT !.groups[i].budget = left]
  <1>1. q.global = r.global
    BY KinFields DEF Reached
  <1>2. /\ own = None <=> r.groups[i].budget = None
        /\ own # None => DOMAIN own = DOMAIN r.groups[i].budget
        /\ merged = Merged(r, i)
    <2>1. CASE own = r.groups[i].budget
      BY <1>1, <2>1 DEF Merged
    <2>2. CASE r.groups[i].budget # None /\ own = Absorbed(r, i)
      BY <1>1, <2>2, MergedAgain DEF BudgetOf
    <2> QED
      BY <2>1, <2>2 DEF Reached
  <1>3. /\ MergeBudget(q, i).budget = merged
        /\ MergeBudget(q, i).resource = IF own = None THEN q ELSE edited
    BY DEF MergeBudget
  <1>4. ASSUME own # None PROVE Reached(r, edited)
    <2> DEFINE g == [q.groups[i] EXCEPT !.budget = left]
               groups == [q.groups EXCEPT ![i] = g]
    <2>1. left = Absorbed(r, i) /\ r.groups[i].budget # None
      BY <1>2, <1>4 DEF Absorbed
    <2>2. edited = [q EXCEPT !.groups = groups]
      OBVIOUS
    <2> HIDE DEF left, merged
    <2>3. Alike(r.groups[i], g) /\ g.budget = left
      <3>1. Struct(r.groups[i], GroupFields)
        BY Shape
      <3>2. Alike(r.groups[i], q.groups[i])
        BY DEF Reached, Kin
      <3> QED
        BY <3>1, <3>2 DEF Alike, Struct, GroupFields
    <2> HIDE DEF g
    <2>4. /\ DOMAIN groups = DOMAIN r.groups /\ groups[i] = g
          /\ \A j \in DOMAIN r.groups \ {i} : groups[j] = q.groups[j]
          /\ groups = [j \in DOMAIN r.groups |-> groups[j]]
      BY DEF Reached, Kin
    <2> HIDE DEF groups
    <2>5. edited.groups = groups /\ edited = [r EXCEPT !.groups = groups]
      BY <2>2, Shape DEF Reached, Kin, Struct
    <2> HIDE DEF edited
    <2>6. Kin(r, edited)
      BY <2>3, <2>4, <2>5 DEF Reached, Kin
    <2> QED
      BY <2>1, <2>3, <2>4, <2>5, <2>6 DEF Reached
  <1> HIDE DEF edited, merged, left, own
  <1> QED
    BY <1>2, <1>3, <1>4

\* The budgets of a resource that was reached are those of the resource the
\* user wrote, each made of its own node group and the global settings.
BudgetsOf(r) ==
    [i \in DOMAIN r.groups |->
        [name |-> GetNodeGroupPDBName(r, r.groups[i].name), spec |-> Decided(Merged(r, i))]]

LEMMA BudgetsReached ==
    ASSUME NEW r, OpensearchSpec(r), NEW q, Reached(r, q)
    PROVE  Reached(r, Budgets(q).resource) /\ Budgets(q).budgets = BudgetsOf(r)
  <1> DEFINE n == Len(r.groups)
             S == {k \in 0..n : ~Reached(r, Edited(q)[k])}
  <1>1. /\ n \in Nat /\ DOMAIN r.groups = 1..n
        /\ Len(q.groups) = n /\ DOMAIN q.groups = 1..n /\ q.name = r.name
        /\ \A i \in 1..n : q.groups[i].name = r.groups[i].name
    BY Shape, KinFields DEF Reached, SameGroup
  <1> HIDE DEF n
  <1>2. /\ Edited(q)[0] = q
        /\ \A k \in 1..n : Edited(q)[k] = MergeBudget(Edited(q)[k - 1], k).resource
    BY <1>1, EditedStep
  <1>3. S = {}
    <2> SUFFICES ASSUME S # {} PROVE FALSE
      OBVIOUS
    <2>1. S \subseteq Nat
      BY <1>1
    <2>2. PICK m \in S : \A k \in S : m <= k
      BY <2>1, LeastElement
    <2>3. m \in 0..n /\ ~Reached(r, Edited(q)[m])
      OBVIOUS
    <2>4. m # 0
      BY <1>2, <2>3
    <2>5. m - 1 \in 0..n /\ m - 1 \notin S
      <3> HIDE DEF S
      <3> QED BY <1>1, <2>2, <2>3, <2>4
    <2>6. Reached(r, Edited(q)[m - 1])
      BY <2>5
    <2>7. m \in 1..n /\ m \in DOMAIN r.groups
      BY <1>1, <2>3, <2>4
    <2> QED
      BY <1>2, <2>3, <2>6, <2>7, MergeBudgetReached
  <1>4. \A k \in 0..n : Reached(r, Edited(q)[k])
    BY <1>3
  <1>5. Reached(r, Budgets(q).resource)
    BY <1>1, <1>4 DEF Budgets
  <1>6. \A i \in 1..n : MergeBudget(Edited(q)[i - 1], i).budget = Merged(r, i)
    BY <1>1, <1>4, MergeBudgetReached
  <1>7. \A i \in 1..n : GetNodeGroupPDBName(q, q.groups[i].name)
                          = GetNodeGroupPDBName(r, r.groups[i].name)
    BY <1>1 DEF GetNodeGroupPDBName, GetNodeGroupName
  <1>8. Budgets(q).budgets = BudgetsOf(r)
    BY <1>1, <1>6, <1>7 DEF Budgets, BudgetsOf
  <1> QED
    BY <1>5, <1>8

-----------------------------------------------------------------------------
(* The other functions do not look at the budgets.                         *)

\* Each node group has its like in the other resource.
LEMMA GroupsMatch ==
    ASSUME NEW r, OpensearchSpec(r), NEW q, Kin(r, q)
    PROVE  /\ \A g \in GroupsOf(r) : \E k \in GroupsOf(q) : SameGroup(g, k)
           /\ \A k \in GroupsOf(q) : \E g \in GroupsOf(r) : SameGroup(g, k)
  BY KinFields DEF GroupsOf, ToSet

LEMMA SameNames ==
    ASSUME NEW r, OpensearchSpec(r), NEW q, Kin(r, q)
    PROVE  /\ GetGlobalServiceName(q) = GetGlobalServiceName(r)
           /\ GetSecretNameForTlsTransport(q) = GetSecretNameForTlsTransport(r)
           /\ GetSecretNameForTlsApi(q) = GetSecretNameForTlsApi(r)
           /\ \A g : /\ GetNodeGroupName(q, g) = GetNodeGroupName(r, g)
                    /\ GetNodeGroupServiceName(q, g) = GetNodeGroupServiceName(r, g)
                    /\ GetNodeGroupServiceNameHeadless(q, g)
                         = GetNodeGroupServiceNameHeadless(r, g)
                    /\ GetNodeGroupConfigMapName(q, g) = GetNodeGroupConfigMapName(r, g)
                    /\ Selector(q, g) = Selector(r, g)
  BY KinFields DEF GetGlobalServiceName, GetSecretNameForTlsTransport,
                   GetSecretNameForTlsApi, GetNodeGroupName, GetNodeGroupServiceName,
                   GetNodeGroupServiceNameHeadless, GetNodeGroupConfigMapName, Selector

LEMMA SameConfigMaps ==
    ASSUME NEW r, OpensearchSpec(r), NEW q, Kin(r, q)
    PROVE  ConfigMaps(q) = ConfigMaps(r)
  <1>1. \A g, k : SameGroup(g, k) => ConfigOf(q, k) = ConfigOf(r, g)
    BY KinFields DEF SameGroup, ConfigOf
  <1>2. (\E k \in GroupsOf(q) : ConfigOf(q, k) = Malformed)
          <=> \E g \in GroupsOf(r) : ConfigOf(r, g) = Malformed
    BY <1>1, GroupsMatch
  <1>3. \A i \in DOMAIN r.groups : ConfigOf(q, q.groups[i]) = ConfigOf(r, r.groups[i])
    BY <1>1, KinFields
  <1>4. \A i \in DOMAIN r.groups : q.groups[i].name = r.groups[i].name
    BY KinFields DEF SameGroup
  <1>5. DOMAIN q.groups = DOMAIN r.groups
    BY KinFields
  <1> QED
    BY <1>2, <1>3, <1>4, <1>5, SameNames DEF ConfigMaps

LEMMA SameServices ==
    ASSUME NEW r, OpensearchSpec(r), NEW q, Kin(r, q)
    PROVE  Services(q) = Services(r)
  <1> DEFINE One(p, g) == [name |-> GetNodeGroupServiceName(p, g), headless |-> FALSE,
                           selector |-> Selector(p, g)]
             Two(p, g) == [name |-> GetNodeGroupServiceNameHeadless(p, g),
                           headless |-> TRUE, selector |-> Selector(p, g)]
             All(p) == {[name |-> GetGlobalServiceName(p), headless |-> FALSE,
                         selector |-> Selector(p, None)]}
  <1>1. \A g : One(q, g) = One(r, g) /\ Two(q, g) = Two(r, g)
    BY SameNames
  <1>2. All(q) = All(r)
    BY SameNames
  <1>3. \A p : Services(p) = All(p) \union {One(p, g.name) : g \in GroupsOf(p)}
                                     \union {Two(p, g.name) : g \in GroupsOf(p)}
    BY DEF Services
  <1> HIDE DEF One, Two, All
  <1>4. {One(q, g.name) : g \in GroupsOf(q)} = {One(r, g.name) : g \in GroupsOf(r)}
    BY <1>1, GroupsMatch DEF SameGroup
  <1>5. {Two(q, g.name) : g \in GroupsOf(q)} = {Two(r, g.name) : g \in GroupsOf(r)}
    BY <1>1, GroupsMatch DEF SameGroup
  <1> QED
    BY <1>2, <1>3, <1>4, <1>5

LEMMA SameEndpoints ==
    ASSUME NEW r, OpensearchSpec(r), NEW q, Kin(r, q)
    PROVE  Ingress(q) = Ingress(r) /\ LoadBalancer(q) = LoadBalancer(r)
  <1>1. \A target : Targets(q, target) <=> Targets(r, target)
    BY GroupsMatch DEF Targets, SameGroup
  <1>2. q.ingress = r.ingress /\ q.loadBalancer = r.loadBalancer
    BY KinFields
  <1>3. Ingress(q) = Ingress(r)
    BY <1>1, <1>2, SameNames DEF Ingress
  <1>4. LoadBalancer(q) = LoadBalancer(r)
    BY <1>1, <1>2, SameNames DEF LoadBalancer
  <1> QED
    BY <1>3, <1>4

\* Nodes find each other alike.
LEMMA SameDiscovery ==
    ASSUME NEW r, OpensearchSpec(r), NEW q, Kin(r, q)
    PROVE  /\ \A g, k : SameGroup(g, k) =>
                GetNodeGroupNodeNames(q, k) = GetNodeGroupNodeNames(r, g)
           /\ GetNodeNames(q) = GetNodeNames(r)
           /\ computeInitialMasterNodes(q) = computeInitialMasterNodes(r)
           /\ computeDiscoverySeedHosts(q) = computeDiscoverySeedHosts(r)
  <1>1. \A g, k : SameGroup(g, k) =>
          GetNodeGroupNodeNames(q, k) = GetNodeGroupNodeNames(r, g)
    BY SameNames DEF SameGroup, GetNodeGroupNodeNames
  <1>2. \A g, k : SameGroup(g, k) =>
          GetNodeGroupServiceNameHeadless(q, k.name)
            = GetNodeGroupServiceNameHeadless(r, g.name)
    BY SameNames DEF SameGroup
  <1>3. /\ \A g \in MasterGroups(r) : \E k \in MasterGroups(q) : SameGroup(g, k)
        /\ \A k \in MasterGroups(q) : \E g \in MasterGroups(r) : SameGroup(g, k)
    <2>1. \A g, k : SameGroup(g, k) => (IsMasterRole(k) <=> IsMasterRole(g))
      BY DEF SameGroup, IsMasterRole
    <2> QED
      BY <2>1, GroupsMatch DEF MasterGroups
  <1>4. {GetNodeGroupNodeNames(q, k) : k \in GroupsOf(q)}
          = {GetNodeGroupNodeNames(r, g) : g \in GroupsOf(r)}
    BY <1>1, GroupsMatch
  <1>5. {GetNodeGroupNodeNames(q, k) : k \in MasterGroups(q)}
          = {GetNodeGroupNodeNames(r, g) : g \in MasterGroups(r)}
    BY <1>1, <1>3
  <1>6. computeDiscoverySeedHosts(q) = computeDiscoverySeedHosts(r)
    BY <1>2, <1>3 DEF computeDiscoverySeedHosts
  <1>7. GetNodeNames(q) = GetNodeNames(r)
    BY <1>4 DEF GetNodeNames
  <1>8. computeInitialMasterNodes(q) = computeInitialMasterNodes(r)
    BY <1>5 DEF computeInitialMasterNodes
  <1> QED
    BY <1>1, <1>6, <1>7, <1>8

LEMMA SameStatefulSet ==
    ASSUME NEW r, OpensearchSpec(r), NEW q, Kin(r, q),
           NEW g, NEW k, SameGroup(g, k), NEW configMaps
    PROVE  StatefulSet(q, k, configMaps) = StatefulSet(r, g, configMaps)
  <1>1. PodLabels(q, k) = PodLabels(r, g)
    BY KinFields, SameNames DEF SameGroup, PodLabels
  <1>2. Env(q, k) = Env(r, g)
    <2>1. computeJavaOpts(q, k) = computeJavaOpts(r, g)
      BY KinFields DEF SameGroup, computeJavaOpts
    <2>2. (Len(q.groups) = 1 /\ q.groups[1].replicas = 1)
            <=> (Len(r.groups) = 1 /\ r.groups[1].replicas = 1)
      BY KinFields, Shape DEF SameGroup
    <2> QED
      BY <2>1, <2>2, KinFields, SameDiscovery DEF SameGroup, Env
  <1>3. computeAntiAffinity(q, k) = computeAntiAffinity(r, g)
    <2>1. <<k.antiAffinity, q.global.antiAffinity>> = <<g.antiAffinity, r.global.antiAffinity>>
      BY KinFields DEF SameGroup
    <2> QED
      BY <2>1, Zenon DEF computeAntiAffinity
  <1>4. HasClaim(k) = HasClaim(g) /\ HasVolume(k) = HasVolume(g)
    BY DEF SameGroup, HasClaim, HasVolume
  <1>5. Mounts(q, k, configMaps) = Mounts(r, g, configMaps)
    BY <1>4, KinFields, SameNames DEF SameGroup, Mounts
  <1>6. Volumes(q, k) = Volumes(r, g)
    <2>1. GetSecretNameForSecurityConfig(q, k) = GetSecretNameForSecurityConfig(r, g)
      BY KinFields DEF SameGroup, GetSecretNameForSecurityConfig
    <2>2. /\ GetNodeGroupConfigMapName(q, k.name) = GetNodeGroupConfigMapName(r, g.name)
          /\ GetSecretNameForTlsTransport(q) = GetSecretNameForTlsTransport(r)
          /\ GetSecretNameForTlsApi(q) = GetSecretNameForTlsApi(r)
      BY SameNames DEF SameGroup
    <2>3. DataVolume(k) = DataVolume(g)
      BY <1>4 DEF DataVolume
    <2>4. q.global.volumes = r.global.volumes
      BY KinFields
    <2> QED
      BY <2>1, <2>2, <2>3, <2>4, Zenon DEF Volumes
  <1> QED
    BY <1>1, <1>2, <1>3, <1>4, <1>5, <1>6, SameNames DEF SameGroup, StatefulSet

LEMMA SameStatefulSets ==
    ASSUME NEW r, OpensearchSpec(r), NEW q, Kin(r, q)
    PROVE  StatefulSets(q) = StatefulSets(r)
  <1>1. \A i \in DOMAIN r.groups :
          StatefulSet(q, q.groups[i], ConfigMaps(r)) = StatefulSet(r, r.groups[i], ConfigMaps(r))
    BY KinFields, SameStatefulSet
  <1>2. DOMAIN q.groups = DOMAIN r.groups
    BY KinFields
  <1> QED
    BY <1>1, <1>2, SameConfigMaps DEF StatefulSets

-----------------------------------------------------------------------------
(* The invariant: nothing but the budgets' settings is ever edited, in the *)
(* copy alone, and so whatever was generated, whenever and after whatever, *)
(* is what the resource as the user wrote it makes.                        *)

MInv ==
    /\ given \in Resources /\ Reached(given, h)
    /\ DOMAIN made = Kinds
    /\ made["configMaps"] \in {None, ConfigMaps(given)}
    /\ made["services"] \in {None, Services(given)}
    /\ made["statefulSets"] \in {None, StatefulSets(given)}
    /\ made["budgets"] \in {None, BudgetsOf(given)}
    /\ made["ingress"] \in {None, Ingress(given)}
    /\ made["loadBalancer"] \in {None, LoadBalancer(given)}

LEMMA MInvInit == Init => MInv
  <1> SUFFICES ASSUME Init PROVE MInv
    OBVIOUS
  <1>1. given \in Resources /\ OpensearchSpec(given)
    BY ResourcesAssumption DEF Init
  <1>2. Reached(given, given)
    BY <1>1, ReachedItself
  <1>3. DOMAIN made = Kinds /\ \A k \in Kinds : made[k] = None
    BY DEF Init
  <1> QED
    BY <1>1, <1>2, <1>3 DEF MInv, Kinds, Init

\* What the user wrote stays as it is.
LEMMA GivenKept == [Next]_vars => given' = given
  BY DEF Next, vars, Unedited, GenerateConfigMaps, GenerateServices, GenerateStatefullsets,
         GenerateIngress, GenerateLoadbalancer, GeneratePodDisruptionBudget, Fetch

\* What is generated of the copy is generated of what the user wrote.
LEMMA MadeOfGiven ==
    ASSUME MInv
    PROVE  /\ OpensearchSpec(given) /\ Kin(given, h)
           /\ ConfigMaps(h) = ConfigMaps(given) /\ Services(h) = Services(given)
           /\ StatefulSets(h) = StatefulSets(given)
           /\ Ingress(h) = Ingress(given) /\ LoadBalancer(h) = LoadBalancer(given)
           /\ Budgets(h).budgets = BudgetsOf(given)
           /\ Reached(given, Budgets(h).resource)
  <1>1. OpensearchSpec(given) /\ Reached(given, h) /\ Kin(given, h)
    BY ResourcesAssumption DEF MInv, Reached
  <1> QED
    BY <1>1, SameConfigMaps, SameServices, SameStatefulSets, SameEndpoints, BudgetsReached

LEMMA MInvStep == MInv /\ [Next]_vars => MInv'
  <1> SUFFICES ASSUME MInv, [Next]_vars PROVE MInv'
    OBVIOUS
  <1>1. given' = given
    BY GivenKept
  <1>2. CASE UNCHANGED vars
    BY <1>2 DEF vars, MInv
  <1>3. ASSUME NEW kind \in Kinds, NEW objects, Make(kind, objects)
        PROVE  /\ DOMAIN made' = Kinds /\ made'[kind] = objects
               /\ \A other \in Kinds \ {kind} : made'[other] = made[other]
    BY <1>3 DEF Make, MInv
  <1>4. CASE GenerateConfigMaps
    BY <1>1, <1>3, <1>4, MadeOfGiven DEF GenerateConfigMaps, Unedited, MInv, Kinds
  <1>5. CASE GenerateServices
    BY <1>1, <1>3, <1>5, MadeOfGiven DEF GenerateServices, Unedited, MInv, Kinds
  <1>6. CASE GenerateStatefullsets
    BY <1>1, <1>3, <1>6, MadeOfGiven DEF GenerateStatefullsets, Unedited, MInv, Kinds
  <1>7. CASE GenerateIngress
    BY <1>1, <1>3, <1>7, MadeOfGiven DEF GenerateIngress, Unedited, MInv, Kinds
  <1>8. CASE GenerateLoadbalancer
    BY <1>1, <1>3, <1>8, MadeOfGiven DEF GenerateLoadbalancer, Unedited, MInv, Kinds
  <1>9. CASE GeneratePodDisruptionBudget
    BY <1>1, <1>3, <1>9, MadeOfGiven DEF GeneratePodDisruptionBudget, MInv, Kinds
  <1>10. CASE Fetch
    <2>1. Reached(given, given)
      BY MadeOfGiven, ReachedItself
    <2> QED
      BY <1>1, <1>10, <2>1 DEF Fetch, MInv
  <1> QED
    BY <1>2, <1>4, <1>5, <1>6, <1>7, <1>8, <1>9, <1>10 DEF Next

\* Whatever was generated, in whatever order and however often, is what the
\* resource as the user wrote it makes.
THEOREM MadeAsWritten == Spec => []MInv
  BY MInvInit, MInvStep, PTL DEF Spec

\* The stateful sets fail with the config maps, since both are made of what
\* the user wrote, in whatever order: budgets that were generated in between
\* have edited nothing that either reads.
THEOREM FilesComeFirst == Spec => []FilesFirst
  <1>1. MInv => FilesFirst
    <2> SUFFICES ASSUME MInv, made["configMaps"] = Malformed, Done("statefulSets")
                 PROVE  FALSE
      BY DEF FilesFirst
    <2>1. made["statefulSets"] = StatefulSets(given)
      BY DEF MInv, Done
    <2>2. ConfigMaps(given) # Malformed
      BY <2>1 DEF Done, StatefulSets
    <2> QED
      BY <2>2, NoneAssumption DEF MInv
  <1> QED
    BY <1>1, MadeAsWritten, PTL DEF Spec

\* A stateful set that was generated.
LEMMA StatefulSetsMade ==
    ASSUME MInv, Done("statefulSets")
    PROVE  /\ OpensearchSpec(given)
           /\ DOMAIN made["statefulSets"] = DOMAIN given.groups
           /\ \A i \in DOMAIN given.groups :
                made["statefulSets"][i]
                  = StatefulSet(given, given.groups[i], ConfigMaps(given))
           /\ ConfigMaps(given) # Malformed
  <1>1. made["statefulSets"] = StatefulSets(given) /\ OpensearchSpec(given)
    BY ResourcesAssumption DEF MInv, Done
  <1>2. StatefulSets(given) # Malformed
    BY <1>1 DEF Done
  <1> QED
    BY <1>1, <1>2 DEF StatefulSets

-----------------------------------------------------------------------------
(* Disruption budgets.                                                     *)

\* Of a node group on its own the same budget is made.
LEMMA BudgetAlone ==
    ASSUME NEW r, OpensearchSpec(r), NEW i \in DOMAIN r.groups
    PROVE  Budgets(Alone(r, i)).budgets[1] = BudgetsOf(r)[i]
  <1> DEFINE g == r.groups[i]
             q == Alone(r, i)
  <1>1. /\ q.name = r.name /\ q.labels = r.labels /\ q.global = r.global
        /\ q.ingress = r.ingress /\ q.loadBalancer = r.loadBalancer /\ q.groups = <<g>>
        /\ Struct(q, {"name", "labels", "global", "groups", "ingress", "loadBalancer"})
    BY DEF OpensearchSpec, Struct, Alone
  <1>2. NodeGroupSpec(g)
    BY DEF OpensearchSpec
  <1> HIDE DEF q, g
  <1>3. /\ q.groups \in Seq(ToSet(q.groups))
        /\ DOMAIN q.groups = {1} /\ q.groups[1] = g
    BY <1>1 DEF ToSet
  <1>4. OpensearchSpec(q)
    BY <1>1, <1>2, <1>3 DEF OpensearchSpec
  <1>5. Budgets(q).budgets = BudgetsOf(q)
    BY <1>4, ReachedItself, BudgetsReached
  <1>6. Merged(q, 1) = Merged(r, i)
    BY <1>1, <1>3 DEF Merged, g
  <1>7. GetNodeGroupPDBName(q, g.name) = GetNodeGroupPDBName(r, g.name)
    BY <1>1 DEF GetNodeGroupPDBName, GetNodeGroupName
  <1>8. BudgetsOf(q)[1] = BudgetsOf(r)[i]
    BY <1>3, <1>6, <1>7 DEF BudgetsOf, g
  <1> QED
    BY <1>5, <1>8 DEF q

\* The budget of a node group is of its own settings and the global ones as
\* the user wrote them, although each run of GeneratePodDisruptionBudget
\* edits the resource that the next one, or the next node group, starts from.
THEOREM BudgetsStayApart == Spec => []BudgetsApart
  <1>1. MInv => BudgetsApart
    <2> SUFFICES ASSUME MInv, Done("budgets"), NEW i \in DOMAIN made["budgets"]
                 PROVE  made["budgets"][i] = Budgets(Alone(given, i)).budgets[1]
      BY DEF BudgetsApart
    <2>1. made["budgets"] = BudgetsOf(given) /\ OpensearchSpec(given)
      BY ResourcesAssumption DEF MInv, Done
    <2>2. i \in DOMAIN given.groups
      BY <2>1 DEF BudgetsOf
    <2> QED
      BY <2>1, <2>2, BudgetAlone
  <1> QED
    BY <1>1, MadeAsWritten, PTL

\* Exactly one of the two fields is in every budget of a node group, as long
\* as the user does not set the one for it and the other for all.
THEOREM BudgetsAreDecided == Spec => []BudgetDecided
  <1>1. MInv => BudgetDecided
    <2> SUFFICES ASSUME MInv, Done("budgets"), NEW i \in DOMAIN made["budgets"],
                        DOMAIN BudgetOf(given.groups[i].budget)
                          \union DOMAIN BudgetOf(given.global.budget) # {"min", "max"}
                 PROVE  Cardinality(DOMAIN made["budgets"][i].spec) = 1
      BY DEF BudgetDecided
    <2> DEFINE own == BudgetOf(given.groups[i].budget)
               all == BudgetOf(given.global.budget)
               merged == MergePointers(own, all)
    <2>1. made["budgets"] = BudgetsOf(given) /\ OpensearchSpec(given)
      BY ResourcesAssumption DEF MInv, Done
    <2>2. i \in DOMAIN given.groups
      BY <2>1 DEF BudgetsOf
    <2>3. made["budgets"][i].spec = Decided(merged)
      BY <2>1, <2>2 DEF BudgetsOf, Merged
    <2>4. DOMAIN own \subseteq {"min", "max"} /\ DOMAIN all \subseteq {"min", "max"}
      <3>1. \A b : b = None \/ PodDisruptionBudgetSpec(b)
                     => DOMAIN BudgetOf(b) \subseteq {"min", "max"}
        BY DEF BudgetOf, Unset, PodDisruptionBudgetSpec
      <3> QED
        BY <2>1, <2>2, <3>1, Shape
    <2>5. /\ DOMAIN merged = DOMAIN own \union DOMAIN all
          /\ merged = [f \in DOMAIN merged |-> merged[f]]
      BY DEF MergePointers
    <2> HIDE DEF merged, own, all
    <2>6. CASE DOMAIN merged = {}
      <3>1. merged = Unset
        BY <2>5, <2>6 DEF Unset
      <3>2. DOMAIN Decided(merged) = {"max"}
        BY <3>1 DEF Decided
      <3> QED
        BY <2>3, <3>2, FS_Singleton
    <2>7. CASE DOMAIN merged # {}
      <3>1. DOMAIN merged = {"min"} \/ DOMAIN merged = {"max"}
        BY <2>4, <2>5, <2>7 DEF own, all
      <3>2. merged # Unset
        BY <2>7 DEF Unset
      <3> QED
        BY <2>3, <3>1, <3>2, FS_Singleton DEF Decided
    <2> QED
      BY <2>6, <2>7
  <1> QED
    BY <1>1, MadeAsWritten, PTL

-----------------------------------------------------------------------------
(* Anti-affinity.                                                          *)

\* Merge of two sources, the first of them there.
LEMMA MergeTwo ==
    ASSUME NEW dst, NEW a, NEW b, a # None
    PROVE  Merge(dst, <<a, b>>) = IF b = None THEN Fill(dst, a) ELSE Fill(Fill(dst, a), b)
  <1> DEFINE srcs == <<a, b>>
             Is(e) == e = [n \in 0..Len(srcs) |->
                             CASE n = 0 -> dst
                               [] n > 0 /\ srcs[n] = None -> e[n - 1]
                               [] OTHER -> Fill(e[n - 1], srcs[n])]
             two == IF b = None THEN Fill(dst, a) ELSE Fill(Fill(dst, a), b)
             w == [n \in 0..2 |-> IF n = 0 THEN dst ELSE IF n = 1 THEN Fill(dst, a) ELSE two]
  <1>1. Len(srcs) = 2 /\ srcs[1] = a /\ srcs[2] = b /\ 0..2 = {0, 1, 2}
    OBVIOUS
  <1> HIDE DEF srcs
  <1>2. w[0] = dst /\ w[1] = Fill(dst, a) /\ w[2] = two
    OBVIOUS
  <1>3. \A n \in 0..2 : w[n] = CASE n = 0 -> dst
                                 [] n > 0 /\ srcs[n] = None -> w[n - 1]
                                 [] OTHER -> Fill(w[n - 1], srcs[n])
    BY <1>1, <1>2
  <1>4. Is(w)
    BY <1>1, <1>3
  <1>5. Merge(dst, srcs) = (CHOOSE e : Is(e))[2]
    BY <1>1 DEF Merge
  <1>6. ASSUME NEW e, Is(e) PROVE e[2] = two
    <2>1. e[0] = dst
      BY <1>1, <1>6
    <2>2. e[1] = Fill(dst, a)
      BY <1>1, <1>6, <2>1
    <2>3. e[2] = IF b = None THEN e[1] ELSE Fill(e[1], b)
      BY <1>1, <1>6
    <2> QED
      BY <2>2, <2>3
  <1> QED
    BY <1>4, <1>5, <1>6 DEF srcs

\* What a node group says of its anti-affinity is what is computed.
LEMMA AffinityOwn ==
    ASSUME NEW r, NEW group,
           group.antiAffinity \in AntiAffinitySpec, group.antiAffinity # None
    PROVE  LET own == group.antiAffinity
               got == computeAntiAffinity(r, group)
           IN  /\ own.type # "" => got.hard = (own.type = "hard")
               /\ own.topologyKey # "" => got.topologyKey = own.topologyKey
  <1> DEFINE own == group.antiAffinity
             all == r.global.antiAffinity
             zero == [type |-> "", topologyKey |-> ""]
             merged == Merge(zero, <<own, all>>)
             got == computeAntiAffinity(r, group)
             hard == merged.type = "hard"
             key == IF merged.topologyKey = "" THEN "hostname" ELSE merged.topologyKey
  <1>1. got = [hard |-> hard, topologyKey |-> key]
    BY DEF computeAntiAffinity
  <1>2. own # None
    OBVIOUS
  <1>3. own \in AntiAffinitySpec
    OBVIOUS
  <1> HIDE DEF own, all, got
  <1>4. /\ own.type # "" => own.type \notin Empty
        /\ own.topologyKey # "" => own.topologyKey \notin Empty
    BY <1>3 DEF AntiAffinitySpec, Text
  <1>5. /\ DOMAIN Fill(zero, own) = {"type", "topologyKey"}
        /\ Fill(zero, own).type = own.type
        /\ Fill(zero, own).topologyKey = own.topologyKey
    BY <1>3, EmptyAssumption DEF AntiAffinitySpec, Fill
  <1> HIDE DEF zero
  <1>6. merged = Fill(zero, own) \/ merged = Fill(Fill(zero, own), all)
    BY <1>2, MergeTwo
  <1> HIDE DEF merged
  <1>7. /\ own.type # "" => merged.type = own.type
        /\ own.topologyKey # "" => merged.topologyKey = own.topologyKey
    <2> DEFINE first == Fill(zero, own)
    <2>1. \A f \in DOMAIN first : first[f] \notin Empty => merged[f] = first[f]
      <3> HIDE DEF first
      <3> QED
        BY <1>6, FillKeeps DEF first
    <2>2. DOMAIN first = {"type", "topologyKey"}
      BY <1>5
    <2>3. first["type"] = own["type"] /\ first["topologyKey"] = own["topologyKey"]
      BY <1>5
    <2> HIDE DEF first
    <2> QED
      BY <1>4, <2>1, <2>2, <2>3
  <1>8. own.topologyKey # "" => key = own.topologyKey
    BY <1>7
  <1>9. own.type # "" => hard = (own.type = "hard")
    BY <1>7
  <1> HIDE DEF hard, key
  <1>10. got.hard = hard /\ got.topologyKey = key
    BY <1>1, Zenon
  <1> QED
    BY <1>8, <1>9, <1>10, Zenon DEF own, got

\* Whether the pods of a node group may share a host, and over which
\* topology, is as its own anti-affinity says where it says something.
THEOREM OwnAffinityAlwaysWins == Spec => []OwnAffinityWins
  <1>1. MInv => OwnAffinityWins
    <2> SUFFICES ASSUME MInv, Done("statefulSets"), NEW i \in DOMAIN made["statefulSets"],
                        given.groups[i].antiAffinity # None
                 PROVE  LET own == given.groups[i].antiAffinity
                            got == made["statefulSets"][i].antiAffinity
                        IN  /\ own.type # "" => got.hard = (own.type = "hard")
                            /\ own.topologyKey # "" => got.topologyKey = own.topologyKey
      BY DEF OwnAffinityWins
    <2>1. /\ i \in DOMAIN given.groups
          /\ made["statefulSets"][i] = StatefulSet(given, given.groups[i], ConfigMaps(given))
      BY StatefulSetsMade
    <2>2. given.groups[i].antiAffinity \in AntiAffinitySpec
      BY <2>1, ResourcesAssumption DEF MInv, OpensearchSpec, NodeGroupSpec, Maybe
    <2>3. made["statefulSets"][i].antiAffinity = computeAntiAffinity(given, given.groups[i])
      BY <2>1 DEF StatefulSet
    <2>4. LET own == given.groups[i].antiAffinity
              got == computeAntiAffinity(given, given.groups[i])
          IN  /\ own.type # "" => got.hard = (own.type = "hard")
              /\ own.topologyKey # "" => got.topologyKey = own.topologyKey
      BY <2>2, AffinityOwn, Zenon
    <2> QED
      BY <2>3, <2>4, Zenon
  <1> QED
    BY <1>1, MadeAsWritten, PTL

-----------------------------------------------------------------------------
(* Selectors.                                                              *)

\* Of a key the last map that has it counts.
LEMMA LastWinsAt ==
    ASSUME NEW maps, NEW n \in Nat, DOMAIN maps = 1..n, NEW m \in 1..n,
           NEW k \in DOMAIN maps[m], \A i \in 1..n : k \in DOMAIN maps[i] => i <= m
    PROVE  LastWins(maps)[k] = maps[m][k]
  <1> DEFINE S == {i \in DOMAIN maps : k \in DOMAIN maps[i]}
  <1>1. m \in S /\ S \subseteq Int /\ \A i \in S : m >= i
    OBVIOUS
  <1> HIDE DEF S
  <1>2. Max(S) = m
    <2> DEFINE P(x) == x \in S /\ \A y \in S : x >= y
    <2>1. Max(S) = CHOOSE x : P(x)
      BY DEF Max
    <2>2. P(m)
      BY <1>1
    <2>3. P(CHOOSE x : P(x))
      BY <2>2, Zenon
    <2>4. \A x : P(x) => x = m
      BY <1>1
    <2> QED
      BY <2>1, <2>3, <2>4
  <1>3. k \in UNION {DOMAIN map : map \in ToSet(maps)}
    BY DEF ToSet
  <1> QED
    BY <1>2, <1>3 DEF LastWins, S

\* A selector reaches the pods of its own node group, or of all of them.
LEMMA SelectorReaches ==
    ASSUME NEW r, NEW g, NEW configMaps, NEW name
    PROVE  Reaches(Selector(r, name), StatefulSet(r, g, configMaps))
             <=> name \in {None, g.name}
  <1> DEFINE maps == <<r.labels, r.global.labels, g.labels, Selector(r, g.name)>>
  <1>1. DOMAIN maps = 1..4 /\ maps[4] = Selector(r, g.name)
    OBVIOUS
  <1>2. PodLabels(r, g) = LastWins(maps)
    BY DEF PodLabels
  <1>3. DOMAIN Selector(r, g.name) = {"cluster", "nodeGroup"}
    BY DEF Selector
  <1> HIDE DEF maps
  <1>4. \A k \in {"cluster", "nodeGroup"} : PodLabels(r, g)[k] = Selector(r, g.name)[k]
    <2>1. ASSUME NEW k \in DOMAIN maps[4]
          PROVE  LastWins(maps)[k] = maps[4][k]
      <3>1. 4 \in Nat /\ 4 \in 1..4 /\ \A i \in 1..4 : i <= 4
        OBVIOUS
      <3> QED
        BY <1>1, <2>1, <3>1, LastWinsAt
    <2> QED
      BY <1>1, <1>2, <1>3, <2>1
  <1>5. PodLabels(r, g).cluster = r.name /\ PodLabels(r, g).nodeGroup = g.name
    BY <1>4 DEF Selector
  <1>6. StatefulSet(r, g, configMaps).labels = PodLabels(r, g)
    BY DEF StatefulSet
  <1>7. Selector(r, name).cluster = r.name /\ Selector(r, name).nodeGroup = name
    BY DEF Selector
  <1> QED
    BY <1>5, <1>6, <1>7 DEF Reaches

\* A stateful set selects its own pods and no others, whatever labels the
\* user gives: buildPodTemplate puts the labels selected by over them.
THEOREM OwnPodsAlwaysSelected == Spec => []OwnPodsSelected
  <1>1. MInv => OwnPodsSelected
    <2> SUFFICES ASSUME MInv, Done("statefulSets"), DistinctGroups(h),
                        NEW i \in DOMAIN made["statefulSets"],
                        NEW j \in DOMAIN made["statefulSets"]
                 PROVE  Reaches(made["statefulSets"][i].selector, made["statefulSets"][j])
                          <=> i = j
      BY DEF OwnPodsSelected
    <2>1. /\ i \in DOMAIN given.groups /\ j \in DOMAIN given.groups
          /\ \A k \in {i, j} : made["statefulSets"][k]
               = StatefulSet(given, given.groups[k], ConfigMaps(given))
      BY StatefulSetsMade
    <2>2. made["statefulSets"][i].selector = Selector(given, given.groups[i].name)
      BY <2>1 DEF StatefulSet
    <2>3. given.groups[i].name # None
      BY <2>1, StatefulSetsMade, Shape, NoneAssumption
    <2>4. given.groups[i].name = given.groups[j].name => i = j
      <3>1. OpensearchSpec(given) /\ Kin(given, h)
        BY MadeOfGiven
      <3>2. \A k \in {i, j} : h.groups[k].name = given.groups[k].name /\ k \in DOMAIN h.groups
        BY <2>1, <3>1, KinFields DEF SameGroup
      <3> QED
        BY <3>2 DEF DistinctGroups
    <2> QED
      BY <2>1, <2>2, <2>3, <2>4, SelectorReaches
  <1> QED
    BY <1>1, MadeAsWritten, PTL

\* The ingress and the load balancer that are generated lead to pods: a
\* target that is no node group is refused.
THEOREM EndpointsAlwaysResolve == Spec => []EndpointsResolve
  <1>1. MInv => EndpointsResolve
    <2> SUFFICES ASSUME MInv, Done("statefulSets"), Done("services"), h.groups # <<>>
                 PROVE  LET sets == ToSet(made["statefulSets"])
                        IN  /\ Done("ingress") =>
                                 \E x \in made["services"] :
                                    /\ x.name = made["ingress"].backend /\ ~x.headless
                                    /\ \E s \in sets : Reaches(x.selector, s)
                            /\ Done("loadBalancer") =>
                                 \E s \in sets : Reaches(made["loadBalancer"].selector, s)
      BY DEF EndpointsResolve
    <2> DEFINE sets == ToSet(made["statefulSets"])
    <2>1. made["services"] = Services(given)
      BY DEF MInv, Done
    <2>2. \A g \in GroupsOf(given) : \E s \in sets : s = StatefulSet(given, g, ConfigMaps(given))
      BY StatefulSetsMade DEF GroupsOf, ToSet
    <2>3. PICK g1 \in GroupsOf(given) : TRUE
      <3>1. DOMAIN given.groups # {}
        <4>1. Len(h.groups) = Len(given.groups) /\ DOMAIN h.groups = DOMAIN given.groups
          BY MadeOfGiven, KinFields
        <4>2. h.groups = [i \in DOMAIN given.groups |-> h.groups[i]]
          BY MadeOfGiven DEF Kin
        <4> QED
          BY <4>1, <4>2
      <3> QED
        BY <3>1 DEF GroupsOf, ToSet
    <2>4. ASSUME NEW target, Targets(given, target)
          PROVE  \E s \in sets : Reaches(Selector(given, target), s)
      <3>1. PICK g \in GroupsOf(given) : target \in {None, g.name}
        BY <2>3, <2>4 DEF Targets
      <3> HIDE DEF sets
      <3> QED
        BY <2>2, <3>1, SelectorReaches
    <2>5. ASSUME Done("ingress")
          PROVE  \E x \in made["services"] :
                    /\ x.name = made["ingress"].backend /\ ~x.headless
                    /\ \E s \in sets : Reaches(x.selector, s)
      <3> DEFINE target == given.ingress.target
                 backend == IF target = None THEN GetGlobalServiceName(given)
                            ELSE GetNodeGroupServiceName(given, target)
                 x == [name |-> backend, headless |-> FALSE,
                       selector |-> Selector(given, target)]
      <3>1. made["ingress"] = Ingress(given) /\ Ingress(given) \notin {None, Malformed}
        BY <2>5 DEF MInv, Done
      <3>2. Targets(given, target) /\ made["ingress"].backend = backend
        BY <3>1 DEF Ingress
      <3>3. x \in Services(given)
        BY <3>2 DEF Services, Targets
      <3>4. x.name = backend /\ ~x.headless /\ x.selector = Selector(given, target)
        OBVIOUS
      <3> HIDE DEF x, sets, backend, target
      <3> QED
        BY <2>1, <2>4, <3>2, <3>3, <3>4
    <2>6. ASSUME Done("loadBalancer")
          PROVE  \E s \in sets : Reaches(made["loadBalancer"].selector, s)
      <3>1. made["loadBalancer"] = LoadBalancer(given)
            /\ LoadBalancer(given) \notin {None, Malformed}
        BY <2>6 DEF MInv, Done
      <3>2. /\ Targets(given, given.loadBalancer.target)
            /\ made["loadBalancer"].selector = Selector(given, given.loadBalancer.target)
        BY <3>1 DEF LoadBalancer
      <3> HIDE DEF sets
      <3> QED
        BY <2>4, <3>2
    <2> QED
      BY <2>5, <2>6
  <1> QED
    BY <1>1, MadeAsWritten, PTL

-----------------------------------------------------------------------------
(* Discovery.                                                              *)

\* What a node is told of its own role and of the others goes over whatever
\* variables the user gives.
LEMMA EnvTold ==
    ASSUME NEW r, NEW g
    PROVE  /\ Env(r, g)["cluster_manager"] = IsMasterRole(g)
           /\ Env(r, g)["initial"] = computeInitialMasterNodes(r)
           /\ Env(r, g)["seeds"] = computeDiscoverySeedHosts(r)
  <1> DEFINE told == [opts    |-> computeJavaOpts(r, g),
                      initial |-> computeInitialMasterNodes(r),
                      seeds   |-> computeDiscoverySeedHosts(r)]
             type == IF Len(r.groups) = 1 /\ r.groups[1].replicas = 1
                       THEN [type |-> "single-node"] ELSE [field \in {} |-> None]
             roles == computeRoles(g.roles)
             maps == <<r.global.env, g.env, roles, told, type>>
  <1>1. Env(r, g) = LastWins(maps)
    BY DEF Env
  <1>2. /\ DOMAIN told = {"opts", "initial", "seeds"}
        /\ told["initial"] = computeInitialMasterNodes(r)
        /\ told["seeds"] = computeDiscoverySeedHosts(r)
    OBVIOUS
  <1>3. DOMAIN type \subseteq {"type"}
    OBVIOUS
  <1>4. DOMAIN roles = roleList
    BY DEF computeRoles
  <1>5. roles["cluster_manager"] = IsMasterRole(g)
    BY DEF computeRoles, roleList, IsMasterRole
  <1> HIDE DEF told, type, roles
  <1>6. /\ DOMAIN maps = 1..5 /\ maps[3] = roles /\ maps[4] = told /\ maps[5] = type
        /\ 1..5 = {1, 2, 3, 4, 5}
    OBVIOUS
  <1> HIDE DEF maps
  <1>7. LastWins(maps)["cluster_manager"] = maps[3]["cluster_manager"]
    <2>1. 5 \in Nat /\ 3 \in 1..5 /\ "cluster_manager" \in DOMAIN maps[3]
      BY <1>4, <1>6 DEF roleList
    <2>2. \A i \in 1..5 : "cluster_manager" \in DOMAIN maps[i] => i <= 3
      BY <1>2, <1>3, <1>6
    <2> QED
      BY <1>6, <2>1, <2>2, LastWinsAt
  <1>8. ASSUME NEW k \in {"initial", "seeds"}
        PROVE  LastWins(maps)[k] = maps[4][k]
    <2>1. 5 \in Nat /\ 4 \in 1..5 /\ k \in DOMAIN maps[4]
      BY <1>2, <1>6
    <2>2. \A i \in 1..5 : k \in DOMAIN maps[i] => i <= 4
      BY <1>3, <1>6
    <2> QED
      BY <1>6, <2>1, <2>2, LastWinsAt
  <1>9. Env(r, g)["cluster_manager"] = IsMasterRole(g)
    BY <1>1, <1>5, <1>6, <1>7, Zenon
  <1> QED
    BY <1>1, <1>2, <1>6, <1>8, <1>9

\* The headless services, one for each node group.
LEMMA HeadlessServices ==
    ASSUME NEW r
    PROVE  {s \in Services(r) : s.headless}
             = {[name |-> GetNodeGroupServiceNameHeadless(r, g.name), headless |-> TRUE,
                 selector |-> Selector(r, g.name)] : g \in GroupsOf(r)}
  BY DEF Services

\* The pods of a stateful set are the nodes of its node group.
LEMMA PodsAreNodes ==
    ASSUME NEW r, NEW g, NEW configMaps
    PROVE  Pods(StatefulSet(r, g, configMaps)) = GetNodeGroupNodeNames(r, g)
  BY DEF Pods, StatefulSet, GetNodeGroupNodeNames

\* Certificates are issued for the names pods have, nodes wait for masters
\* that there will be, and look for others where the masters are found.
THEOREM DiscoveryAlwaysResolves == Spec => []DiscoveryResolves
  <1>1. MInv => DiscoveryResolves
    <2> SUFFICES ASSUME MInv, Done("statefulSets"), Done("services")
                 PROVE  DiscoveryResolves
      BY DEF DiscoveryResolves
    <2> DEFINE set(g) == StatefulSet(given, g, ConfigMaps(given))
               service(g) == [name |-> GetNodeGroupServiceNameHeadless(given, g.name),
                              headless |-> TRUE, selector |-> Selector(given, g.name)]
               sets == ToSet(made["statefulSets"])
               headless == {s \in made["services"] : s.headless}
               masters == {s \in sets : s.env["cluster_manager"]}
    <2>1. OpensearchSpec(given) /\ Kin(given, h) /\ made["services"] = Services(given)
      BY MadeOfGiven DEF MInv, Done
    <2>2. sets = {set(g) : g \in GroupsOf(given)}
      BY StatefulSetsMade DEF GroupsOf, ToSet
    <2>3. headless = {service(g) : g \in GroupsOf(given)}
      BY <2>1, HeadlessServices
    <2>4. masters = {set(g) : g \in MasterGroups(given)}
      <3>1. \A g : set(g).env["cluster_manager"] = IsMasterRole(g)
        BY EnvTold DEF StatefulSet
      <3> HIDE DEF set, sets
      <3> QED
        BY <2>2, <3>1, Zenon DEF MasterGroups
    <2>5. \A g : Pods(set(g)) = GetNodeGroupNodeNames(given, g)
      BY PodsAreNodes
    <2>6. \A g : set(g).serviceName = service(g).name
      BY DEF StatefulSet
    <2>7. \A g : /\ set(g).env["initial"] = computeInitialMasterNodes(given)
                 /\ set(g).env["seeds"] = computeDiscoverySeedHosts(given)
      BY EnvTold DEF StatefulSet
    <2>8. \A g, k : Reaches(service(g).selector, set(k)) <=> g.name \in {None, k.name}
      BY SelectorReaches
    <2>9. \A g \in GroupsOf(given) : g.name # None
      <3>1. \A i \in DOMAIN given.groups : given.groups[i].name \in Name
        BY <2>1, Shape
      <3>2. None \notin Name
        BY NoneAssumption
      <3> QED
        BY <3>1, <3>2 DEF GroupsOf, ToSet
    <2>10. \A g : service(g).name = GetNodeGroupServiceNameHeadless(given, g.name)
      OBVIOUS
    <2>11. MasterGroups(given) \subseteq GroupsOf(given)
      BY DEF MasterGroups
    <2> HIDE DEF set, service, sets, headless, masters
    <2>12. GetNodeNames(h) = UNION {Pods(s) : s \in sets}
      <3>1. {Pods(s) : s \in sets}
              = {GetNodeGroupNodeNames(given, g) : g \in GroupsOf(given)}
        BY <2>2, <2>5
      <3> QED
        BY <2>1, <3>1, SameDiscovery DEF GetNodeNames
    <2>13. computeInitialMasterNodes(given) = UNION {Pods(m) : m \in masters}
      <3>1. {Pods(m) : m \in masters}
              = {GetNodeGroupNodeNames(given, g) : g \in MasterGroups(given)}
        BY <2>4, <2>5
      <3> QED
        BY <3>1 DEF computeInitialMasterNodes
    <2>14. ASSUME NEW s \in sets
           PROVE  \E x \in headless : x.name = s.serviceName /\ Reaches(x.selector, s)
      BY <2>2, <2>3, <2>6, <2>8
    <2>15. computeDiscoverySeedHosts(given)
             = {x.name : x \in {y \in headless : \E m \in masters : Reaches(y.selector, m)}}
      <3> DEFINE found == {y \in headless : \E m \in masters : Reaches(y.selector, m)}
      <3>1. \A g \in MasterGroups(given) :
               service(g) \in found
               /\ service(g).name = GetNodeGroupServiceNameHeadless(given, g.name)
        BY <2>3, <2>4, <2>8, <2>10, <2>11
      <3>2. \A x \in found : \E k \in MasterGroups(given) :
               x.name = GetNodeGroupServiceNameHeadless(given, k.name)
        BY <2>3, <2>4, <2>8, <2>9, <2>10
      <3> HIDE DEF found
      <3>3. computeDiscoverySeedHosts(given) = {x.name : x \in found}
        BY <3>1, <3>2 DEF computeDiscoverySeedHosts
      <3> QED
        BY <3>3 DEF found
    <2>16. \A s \in sets : /\ s.env["initial"] = computeInitialMasterNodes(given)
                           /\ s.env["seeds"] = computeDiscoverySeedHosts(given)
      BY <2>2, <2>7
    <2> QED
      BY <2>12, <2>13, <2>14, <2>15, <2>16 DEF DiscoveryResolves, sets, headless, masters
  <1> QED
    BY <1>1, MadeAsWritten, PTL

-----------------------------------------------------------------------------
(* Names.                                                                  *)

\* The strings, with those the functions write into names: the provers do
\* not know that a literal is a string.
Word == STRING \union {"os", "headless", "config", "lb"}

LEMMA Words ==
    /\ \A n \in Name : n \in Seq(Word) /\ n # <<>>
    /\ \A w \in Word : <<w>> \in Seq(Word)
    /\ "os" \in Word /\ "headless" \in Word /\ "config" \in Word /\ "lb" \in Word
    /\ \A m, n \in Seq(Word) : m \o n \in Seq(Word)
  <1>1. ASSUME NEW n \in Name
        PROVE  n \in Seq(Word) /\ n # <<>>
    <2>1. n \in Seq(STRING) /\ STRING \subseteq Word
      BY DEF Name, Word
    <2> QED
      BY <2>1, SeqMonotonic DEF Name
  <1>2. \A w \in Word : <<w>> \in Seq(Word)
    OBVIOUS
  <1>3. \A m, n \in Seq(Word) : m \o n \in Seq(Word)
    BY ConcatProperties
  <1> QED
    BY <1>1, <1>2, <1>3 DEF Word

\* Two names are one only if what is before the last word is, and the word.
LEMMA LastWord ==
    ASSUME NEW S, NEW a \in Seq(S), NEW b \in Seq(S), NEW v \in S, NEW w \in S,
           a \o <<v>> = b \o <<w>>
    PROVE  a = b /\ v = w
  <1>1. Append(a, v) = a \o <<v>>
    BY AppendIsConcat, Zenon
  <1>2. Append(b, w) = b \o <<w>>
    BY AppendIsConcat, Zenon
  <1>3. Append(a, v) = Append(b, w)
    BY <1>1, <1>2, Zenon
  <1>4. Append(a, v) = Append(b, w) <=> a = b /\ v = w
    BY AppendInjective
  <1> QED
    BY <1>3, <1>4, Zenon

\* The names of one cluster tell its node groups apart, whatever word ends them.
LEMMA GroupNamesApart ==
    ASSUME NEW r, r.name \in Name, NEW g \in Name, NEW k \in Name
    PROVE  /\ GetNodeGroupName(r, g) \in Seq(Word)
           /\ GetNodeGroupName(r, g) = GetNodeGroupName(r, k) => g = k
           /\ \A w \in Word :
                GetNodeGroupName(r, g) \o <<w>> = GetNodeGroupName(r, k) \o <<w>> => g = k
  <1> DEFINE p == r.name
             full(x) == p \o x
  <1>1. p \in Seq(Word) /\ g \in Seq(Word) /\ k \in Seq(Word)
    BY Words
  <1>2. full(g) \in Seq(Word) /\ full(k) \in Seq(Word)
    BY <1>1, Words
  <1>3. full(g) = full(k) => g = k
    BY <1>1, ConcatSimplifications
  <1>4. \A x : GetNodeGroupName(r, x) = full(x) \o <<"os">>
    BY DEF GetNodeGroupName
  <1> HIDE DEF full
  <1>5. GetNodeGroupName(r, g) \in Seq(Word) /\ GetNodeGroupName(r, k) \in Seq(Word)
    BY <1>2, <1>4, Words
  <1>6. ASSUME GetNodeGroupName(r, g) = GetNodeGroupName(r, k)
        PROVE  full(g) = full(k)
    <2>1. full(g) \o <<"os">> = full(k) \o <<"os">>
      BY <1>4, <1>6
    <2>2. "os" \in Word
      BY Words
    <2> QED
      BY <1>2, <2>1, <2>2, LastWord
  <1>7. ASSUME NEW w \in Word,
               GetNodeGroupName(r, g) \o <<w>> = GetNodeGroupName(r, k) \o <<w>>
        PROVE  GetNodeGroupName(r, g) = GetNodeGroupName(r, k)
    BY <1>5, <1>7, LastWord
  <1> QED
    BY <1>3, <1>5, <1>6, <1>7

\* What the services of a cluster are called.
LEMMA ServiceNames ==
    ASSUME NEW r, OpensearchSpec(r)
    PROVE  /\ FullNames(r) \subseteq Seq(Word)
           /\ \A s \in Services(r) :
                \E n \in FullNames(r) : \/ s.name = n \o <<"os">>
                                        \/ s.name = (n \o <<"os">>) \o <<"headless">>
  <1>1. r.name \in Name /\ \A g \in GroupsOf(r) : g.name \in Name
    BY Shape DEF GroupsOf, ToSet
  <1>2. FullNames(r) \subseteq Seq(Word)
    <2>1. r.name \in Seq(Word) /\ \A g \in GroupsOf(r) : g.name \in Seq(Word)
      BY <1>1, Words
    <2>2. \A g \in GroupsOf(r) : r.name \o g.name \in Seq(Word)
      BY <2>1, Words
    <2> QED
      BY <2>1, <2>2 DEF FullNames
  <1>3. GetGlobalServiceName(r) = r.name \o <<"os">>
    BY DEF GetGlobalServiceName
  <1>4. \A g : /\ GetNodeGroupServiceName(r, g) = (r.name \o g) \o <<"os">>
               /\ GetNodeGroupServiceNameHeadless(r, g)
                    = ((r.name \o g) \o <<"os">>) \o <<"headless">>
    BY DEF GetNodeGroupServiceName, GetNodeGroupServiceNameHeadless, GetNodeGroupName
  <1>5. r.name \in FullNames(r) /\ \A g \in GroupsOf(r) : r.name \o g.name \in FullNames(r)
    BY DEF FullNames
  <1>6. \A s \in Services(r) :
          \/ s.name = GetGlobalServiceName(r)
          \/ \E g \in GroupsOf(r) : \/ s.name = GetNodeGroupServiceName(r, g.name)
                                    \/ s.name = GetNodeGroupServiceNameHeadless(r, g.name)
    BY DEF Services
  <1>7. ASSUME NEW s \in Services(r)
        PROVE  \E n \in FullNames(r) : \/ s.name = n \o <<"os">>
                                       \/ s.name = (n \o <<"os">>) \o <<"headless">>
    <2>1. CASE s.name = GetGlobalServiceName(r)
      BY <1>3, <1>5, <2>1
    <2>2. ASSUME NEW g \in GroupsOf(r),
                 \/ s.name = GetNodeGroupServiceName(r, g.name)
                 \/ s.name = GetNodeGroupServiceNameHeadless(r, g.name)
          PROVE  \E n \in FullNames(r) : \/ s.name = n \o <<"os">>
                                         \/ s.name = (n \o <<"os">>) \o <<"headless">>
      <3> DEFINE n == r.name \o g.name
      <3>1. n \in FullNames(r)
        BY <1>5
      <3>2. s.name = n \o <<"os">> \/ s.name = (n \o <<"os">>) \o <<"headless">>
        BY <1>4, <2>2
      <3> HIDE DEF n
      <3> QED
        BY <3>1, <3>2
    <2> QED
      BY <1>6, <2>1, <2>2
  <1> QED
    BY <1>2, <1>7

\* Endings tell services apart from each other unless what they are put
\* after is the same.
LEMMA EndingsApart ==
    ASSUME NEW n \in Seq(Word), NEW m \in Seq(Word)
    PROVE  /\ n \o <<"os">> \in Seq(Word)
           /\ n \o <<"os">> = m \o <<"os">> => n = m
           /\ (n \o <<"os">>) \o <<"headless">> = (m \o <<"os">>) \o <<"headless">> => n = m
           /\ n \o <<"os">> # (m \o <<"os">>) \o <<"headless">>
           /\ (n \o <<"os">>) \o <<"lb">> # m \o <<"os">>
           /\ (n \o <<"os">>) \o <<"lb">> # (m \o <<"os">>) \o <<"headless">>
  <1>1. n \o <<"os">> \in Seq(Word) /\ m \o <<"os">> \in Seq(Word)
    BY Words
  <1>2. n \o <<"os">> = m \o <<"os">> => n = m
    BY Words, LastWord
  <1>3. (n \o <<"os">>) \o <<"headless">> = (m \o <<"os">>) \o <<"headless">> => n = m
    BY <1>1, <1>2, Words, LastWord
  <1>4. n \o <<"os">> # (m \o <<"os">>) \o <<"headless">>
    BY <1>1, Words, LastWord
  <1>5. (n \o <<"os">>) \o <<"lb">> # m \o <<"os">>
    BY <1>1, Words, LastWord
  <1>6. (n \o <<"os">>) \o <<"lb">> # (m \o <<"os">>) \o <<"headless">>
    BY <1>1, Words, LastWord
  <1> QED
    BY <1>1, <1>2, <1>3, <1>4, <1>5, <1>6

\* What is generated in one cluster has a name of its own.
LEMMA OwnNames ==
    ASSUME NEW r, OpensearchSpec(r), DistinctGroups(r),
           NEW i \in DOMAIN r.groups, NEW j \in DOMAIN r.groups
    PROVE  /\ GetNodeGroupName(r, r.groups[i].name) = GetNodeGroupName(r, r.groups[j].name)
                => i = j
           /\ GetNodeGroupPDBName(r, r.groups[i].name)
                = GetNodeGroupPDBName(r, r.groups[j].name) => i = j
           /\ GetNodeGroupConfigMapName(r, r.groups[i].name)
                = GetNodeGroupConfigMapName(r, r.groups[j].name) => i = j
  <1> DEFINE g == r.groups[i].name
             k == r.groups[j].name
  <1>1. r.name \in Name /\ g \in Name /\ k \in Name
    BY Shape
  <1>2. g = k => i = j
    BY DEF DistinctGroups
  <1> HIDE DEF g, k
  <1>3. GetNodeGroupName(r, g) = GetNodeGroupName(r, k) => g = k
    BY <1>1, GroupNamesApart
  <1>4. "config" \in Word
    BY Words
  <1>5. GetNodeGroupName(r, g) \o <<"config">> = GetNodeGroupName(r, k) \o <<"config">>
          => g = k
    BY <1>1, <1>4, GroupNamesApart
  <1> QED
    BY <1>2, <1>3, <1>5 DEF g, k, GetNodeGroupPDBName, GetNodeGroupConfigMapName

\* The services of one cluster.
LEMMA ServicesApart ==
    ASSUME NEW r, OpensearchSpec(r), NEW s \in Services(r), NEW t \in Services(r),
           s.name = t.name
    PROVE  s = t
  <1> DEFINE all == [name |-> GetGlobalServiceName(r), headless |-> FALSE,
                     selector |-> Selector(r, None)]
             one(g) == [name |-> GetNodeGroupServiceName(r, g), headless |-> FALSE,
                        selector |-> Selector(r, g)]
             two(g) == [name |-> GetNodeGroupServiceNameHeadless(r, g), headless |-> TRUE,
                        selector |-> Selector(r, g)]
             names == {g.name : g \in GroupsOf(r)}
             full(g) == r.name \o g
  <1>1. r.name \in Name /\ names \subseteq Name
    <2>1. \A i \in DOMAIN r.groups : r.groups[i].name \in Name
      BY Shape
    <2>2. \A g \in GroupsOf(r) : g.name \in Name
      BY <2>1 DEF GroupsOf, ToSet
    <2> QED
      BY <2>2, Shape
  <1>2. \A x \in Services(r) : x = all \/ \E g \in names : x = one(g) \/ x = two(g)
    BY DEF Services
  <1>3. /\ all.name = r.name \o <<"os">>
        /\ \A g : one(g).name = full(g) \o <<"os">>
        /\ \A g : two(g).name = (full(g) \o <<"os">>) \o <<"headless">>
    BY DEF GetGlobalServiceName, GetNodeGroupServiceName,
           GetNodeGroupServiceNameHeadless, GetNodeGroupName
  <1>4. r.name \in Seq(Word) /\ \A g \in names : g \in Seq(Word) /\ full(g) \in Seq(Word)
    <2> HIDE DEF names
    <2> QED
      BY <1>1, Words
  <1>5. ASSUME NEW g \in names, NEW k \in names, full(g) = full(k)
        PROVE  g = k
    <2> HIDE DEF names
    <2> QED
      BY <1>4, <1>5, ConcatSimplifications
  <1>6. ASSUME NEW g \in names PROVE full(g) # r.name
    <2> HIDE DEF names
    <2>1. g # <<>>
      BY <1>1, Words
    <2> QED
      BY <1>4, <2>1, ConcatSimplifications
  <1> HIDE DEF all, one, two, names, full
  <1>7. ASSUME NEW g \in names
        PROVE  all.name # one(g).name /\ all.name # two(g).name
    <2>1. full(g) \in Seq(Word) /\ r.name \in Seq(Word)
      BY <1>4
    <2>2. all.name # one(g).name
      <3>1. r.name \o <<"os">> = full(g) \o <<"os">> => r.name = full(g)
        BY <2>1, EndingsApart
      <3> QED
        BY <1>3, <1>6, <3>1
    <2>3. all.name # two(g).name
      BY <1>3, <2>1, EndingsApart
    <2> QED
      BY <2>2, <2>3
  <1>8. ASSUME NEW g \in names, NEW k \in names
        PROVE  /\ one(g).name = one(k).name => g = k
               /\ two(g).name = two(k).name => g = k
               /\ one(g).name # two(k).name
    <2>1. full(g) \in Seq(Word) /\ full(k) \in Seq(Word)
      BY <1>4
    <2>2. /\ one(g).name = one(k).name => full(g) = full(k)
          /\ two(g).name = two(k).name => full(g) = full(k)
          /\ one(g).name # two(k).name
      <3>1. /\ full(g) \o <<"os">> = full(k) \o <<"os">> => full(g) = full(k)
            /\ (full(g) \o <<"os">>) \o <<"headless">>
                 = (full(k) \o <<"os">>) \o <<"headless">> => full(g) = full(k)
            /\ full(g) \o <<"os">> # (full(k) \o <<"os">>) \o <<"headless">>
        BY <2>1, EndingsApart
      <3>2. \A x : /\ one(x).name = full(x) \o <<"os">>
                   /\ two(x).name = (full(x) \o <<"os">>) \o <<"headless">>
        BY <1>3
      <3> QED
        BY <3>1, <3>2, Zenon
    <2> QED
      BY <1>5, <2>2
  <1>9. s = all \/ \E g \in names : s = one(g) \/ s = two(g)
    BY <1>2
  <1>10. t = all \/ \E g \in names : t = one(g) \/ t = two(g)
    BY <1>2
  <1> QED
    BY <1>7, <1>8, <1>9, <1>10

\* The services of two clusters whose full names do not meet.
LEMMA ClustersApart ==
    ASSUME NEW r, OpensearchSpec(r), NEW q, OpensearchSpec(q),
           FullNames(q) \intersect FullNames(r) = {},
           NEW s \in Services(q), NEW t \in Services(r)
    PROVE  s.name # t.name
  <1>1. PICK n \in FullNames(q) : \/ s.name = n \o <<"os">>
                                  \/ s.name = (n \o <<"os">>) \o <<"headless">>
    BY ServiceNames
  <1>2. PICK m \in FullNames(r) : \/ t.name = m \o <<"os">>
                                  \/ t.name = (m \o <<"os">>) \o <<"headless">>
    BY ServiceNames
  <1>3. n \in Seq(Word) /\ m \in Seq(Word) /\ n # m
    BY ServiceNames
  <1> QED
    BY <1>1, <1>2, <1>3, EndingsApart

\* No two objects of one kind meet under one name: not those of two node
\* groups, nor the load balancer and a service, nor the services of two
\* clusters of one namespace.
THEOREM NamesStayApart == Spec => []NamesApart
  <1>1. MInv => NamesApart
    <2> SUFFICES ASSUME MInv, DistinctGroups(given) PROVE NamesApart
      BY DEF NamesApart
    <2>1. OpensearchSpec(given)
      BY MadeOfGiven
    <2>2. ASSUME NEW kind \in {"configMaps", "statefulSets", "budgets"}, Done(kind),
                 NEW i \in DOMAIN made[kind], NEW j \in DOMAIN made[kind],
                 made[kind][i].name = made[kind][j].name
          PROVE  i = j
      <3>1. CASE kind = "configMaps"
        <4>1. made["configMaps"] = ConfigMaps(given) /\ ConfigMaps(given) # Malformed
          BY <2>2, <3>1 DEF MInv, Done
        <4>2. /\ DOMAIN made["configMaps"] = DOMAIN given.groups
              /\ \A k \in DOMAIN given.groups : made["configMaps"][k].name
                   = GetNodeGroupConfigMapName(given, given.groups[k].name)
          BY <4>1 DEF ConfigMaps
        <4> QED
          BY <2>1, <2>2, <3>1, <4>2, OwnNames
      <3>2. CASE kind = "statefulSets"
        <4>1. DOMAIN made["statefulSets"] = DOMAIN given.groups
          BY <2>2, <3>2, StatefulSetsMade
        <4>2. \A k \in DOMAIN given.groups : made["statefulSets"][k].name
                = GetNodeGroupName(given, given.groups[k].name)
          <5>1. \A g, c : StatefulSet(given, g, c).name = GetNodeGroupName(given, g.name)
            BY DEF StatefulSet
          <5> QED
            BY <2>2, <3>2, <5>1, StatefulSetsMade
        <4> QED
          BY <2>1, <2>2, <3>2, <4>1, <4>2, OwnNames
      <3>3. CASE kind = "budgets"
        <4>1. made["budgets"] = BudgetsOf(given)
          BY <2>2, <3>3 DEF MInv, Done
        <4>2. /\ DOMAIN made["budgets"] = DOMAIN given.groups
              /\ \A k \in DOMAIN given.groups : made["budgets"][k].name
                   = GetNodeGroupPDBName(given, given.groups[k].name)
          BY <4>1 DEF BudgetsOf
        <4> QED
          BY <2>1, <2>2, <3>3, <4>2, OwnNames
      <3> QED
        BY <2>2, <3>1, <3>2, <3>3
    <2>3. ASSUME Done("services")
          PROVE  made["services"] = Services(given)
      BY <2>3 DEF MInv, Done
    <2>4. ASSUME Done("loadBalancer")
          PROVE  made["loadBalancer"].name \notin {s.name : s \in Services(given)}
      <3>1. made["loadBalancer"].name = (given.name \o <<"os">>) \o <<"lb">>
        BY <2>4 DEF MInv, Done, LoadBalancer, GetGlobalServiceName
      <3>2. given.name \in Seq(Word)
        BY <2>1, Shape, Words
      <3>3. ASSUME NEW s \in Services(given)
            PROVE  s.name # (given.name \o <<"os">>) \o <<"lb">>
        <4>1. PICK n \in FullNames(given) : \/ s.name = n \o <<"os">>
                                            \/ s.name = (n \o <<"os">>) \o <<"headless">>
          BY <2>1, ServiceNames
        <4>2. n \in Seq(Word)
          BY <2>1, ServiceNames
        <4> QED
          BY <3>2, <4>1, <4>2, EndingsApart
      <3> QED
        BY <3>1, <3>3
    <2>5. ASSUME NEW r \in Neighbours, FullNames(r) \intersect FullNames(given) = {}
          PROVE  {s.name : s \in Services(r)} \intersect {s.name : s \in Services(given)} = {}
      <3>1. OpensearchSpec(r)
        BY ResourcesAssumption
      <3>2. \A s \in Services(r), t \in Services(given) : s.name # t.name
        BY <2>1, <2>5, <3>1, ClustersApart
      <3> QED
        BY <3>2
    <2>6. \A s, t \in Services(given) : s.name = t.name => s = t
      BY <2>1, ServicesApart
    <2> QED
      BY <2>2, <2>3, <2>4, <2>5, <2>6 DEF NamesApart
  <1> QED
    BY <1>1, MadeAsWritten, PTL

-----------------------------------------------------------------------------
(* Volumes and mounts.                                                     *)

\* The volumes of a pod, by name.
LEMMA VolumeNames ==
    ASSUME NEW r, NEW g
    PROVE  /\ {v.name : v \in Volumes(r, g)}
                = {"node-tls", "api-tls", "opensearch-config"} \union r.global.volumes
                    \union When(GetSecretNameForSecurityConfig(r, g) # None,
                                {"opensearch-security"})
                    \union When(DataVolume(g), {"opensearch-data"})
           /\ r.global.volumes \intersect OwnVolumes = {} =>
                \A v, w \in Volumes(r, g) : v.name = w.name => v = w
  <1> DEFINE secured == GetSecretNameForSecurityConfig(r, g) # None
             stored == DataVolume(g)
             node == Volume("node-tls", "secret", GetSecretNameForTlsTransport(r))
             api == Volume("api-tls", "secret", GetSecretNameForTlsApi(r))
             config == Volume("opensearch-config", "configMap",
                              GetNodeGroupConfigMapName(r, g.name))
             user(v) == Volume(v, "user", <<v>>)
             users == {user(v) : v \in r.global.volumes}
             security == Volume("opensearch-security", "secret",
                                <<GetSecretNameForSecurityConfig(r, g)>>)
             data == Volume("opensearch-data", "user", <<"opensearch-data">>)
  <1>1. Volumes(r, g) = {node, api, config} \union users
                          \union When(secured, {security}) \union When(stored, {data})
    BY DEF Volumes
  <1>2. /\ node.name = "node-tls" /\ api.name = "api-tls" /\ config.name = "opensearch-config"
        /\ security.name = "opensearch-security" /\ data.name = "opensearch-data"
        /\ \A u \in users : u.name \in r.global.volumes
        /\ \A n \in r.global.volumes : \E u \in users : u.name = n
        /\ \A u, w \in users : u.name = w.name => u = w
    <2>1. /\ node.name = "node-tls" /\ api.name = "api-tls"
          /\ config.name = "opensearch-config"
          /\ security.name = "opensearch-security" /\ data.name = "opensearch-data"
      BY DEF Volume
    <2>2. \A v : user(v).name = v
      BY DEF Volume
    <2> HIDE DEF user
    <2>3. /\ \A u \in users : u.name \in r.global.volumes
          /\ \A n \in r.global.volumes : \E u \in users : u.name = n
          /\ \A u, w \in users : u.name = w.name => u = w
      BY <2>2
    <2> QED
      BY <2>1, <2>3
  <1> HIDE DEF secured, stored, node, api, config, users, security, data
  <1>3. {v.name : v \in Volumes(r, g)}
          = {"node-tls", "api-tls", "opensearch-config"} \union r.global.volumes
              \union When(secured, {"opensearch-security"})
              \union When(stored, {"opensearch-data"})
    BY <1>1, <1>2 DEF When
  <1>4. ASSUME r.global.volumes \intersect OwnVolumes = {},
               NEW v \in Volumes(r, g), NEW w \in Volumes(r, g), v.name = w.name
        PROVE  v = w
    <2>1. \A u \in users : u.name \notin OwnVolumes
      BY <1>2, <1>4
    <2>2. {node.name, api.name, config.name, security.name, data.name} \subseteq OwnVolumes
      BY <1>2 DEF OwnVolumes
    <2>3. \A x \in Volumes(r, g) : x \in {node, api, config, security, data} \/ x \in users
      BY <1>1 DEF When
    <2>4. CASE v \in users /\ w \in users
      BY <1>2, <1>4, <2>4
    <2>5. CASE v \in {node, api, config, security, data}
               /\ w \in {node, api, config, security, data}
      BY <1>2, <1>4, <2>5
    <2>6. ~(v \in users /\ w \in {node, api, config, security, data})
      BY <1>4, <2>1, <2>2
    <2>7. ~(w \in users /\ v \in {node, api, config, security, data})
      BY <1>4, <2>1, <2>2
    <2> QED
      BY <2>3, <2>4, <2>5, <2>6, <2>7
  <1> QED
    BY <1>3, <1>4 DEF secured, stored

\* The mounts of a pod: all of one volume but for the files of the config map.
LEMMA MountNames ==
    ASSUME NEW r, NEW g, NEW configMaps
    PROVE  LET own == {"node-tls", "api-tls"} \union r.global.volumes
                        \union When(HasClaim(g) \/ HasVolume(g), {"opensearch-data"})
               files == UNION {DOMAIN c.data : c \in {x \in ToSet(configMaps) :
                                  x.name = GetNodeGroupConfigMapName(r, g.name)}}
           IN  /\ \A m \in Mounts(r, g, configMaps) :
                    \/ m.volume \in own
                    \/ m.volume = "opensearch-config" /\ m.subPath \in files
               /\ \A v \in own : \E m \in Mounts(r, g, configMaps) : m.volume = v
               /\ \A file \in files : \E m \in Mounts(r, g, configMaps) :
                    m.volume = "opensearch-config" /\ m.subPath = file
  <1> DEFINE own == {"node-tls", "api-tls"} \union r.global.volumes
                      \union When(HasClaim(g) \/ HasVolume(g), {"opensearch-data"})
             files == UNION {DOMAIN c.data : c \in {x \in ToSet(configMaps) :
                                x.name = GetNodeGroupConfigMapName(r, g.name)}}
  <1>1. Mounts(r, g, configMaps) = {Mount(v, None) : v \in own}
                                     \union {Mount("opensearch-config", file) : file \in files}
    BY DEF Mounts
  <1>2. \A v, key : Mount(v, key).volume = v /\ Mount(v, key).subPath = key
    BY DEF Mount
  <1> HIDE DEF own, files
  <1>3. /\ \A m \in Mounts(r, g, configMaps) :
             \/ m.volume \in own
             \/ m.volume = "opensearch-config" /\ m.subPath \in files
        /\ \A v \in own : \E m \in Mounts(r, g, configMaps) : m.volume = v
        /\ \A file \in files : \E m \in Mounts(r, g, configMaps) :
             m.volume = "opensearch-config" /\ m.subPath = file
    BY <1>1, <1>2
  <1> QED
    BY <1>3 DEF own, files

\* Of the files it mounts from its config map a node group gets them all and
\* no others: no other config map has the name.
LEMMA FilesOfOwn ==
    ASSUME NEW r, OpensearchSpec(r), DistinctGroups(r), ConfigMaps(r) # Malformed,
           NEW i \in DOMAIN r.groups
    PROVE  /\ UNION {DOMAIN c.data : c \in {x \in ToSet(ConfigMaps(r)) :
                        x.name = GetNodeGroupConfigMapName(r, r.groups[i].name)}}
                = DOMAIN ConfigMaps(r)[i].data
           /\ ConfigMaps(r)[i].name = GetNodeGroupConfigMapName(r, r.groups[i].name)
  <1> DEFINE name(j) == GetNodeGroupConfigMapName(r, r.groups[j].name)
             maps == ConfigMaps(r)
  <1>1. /\ DOMAIN maps = DOMAIN r.groups
        /\ \A j \in DOMAIN r.groups : maps[j].name = name(j)
    BY DEF ConfigMaps
  <1>2. \A j \in DOMAIN r.groups : name(j) = name(i) => j = i
    BY OwnNames
  <1> HIDE DEF name, maps
  <1>3. {x \in ToSet(maps) : x.name = name(i)} = {maps[i]}
    BY <1>1, <1>2 DEF ToSet
  <1>4. UNION {DOMAIN c.data : c \in {maps[i]}} = DOMAIN maps[i].data
    OBVIOUS
  <1> QED
    BY <1>1, <1>3, <1>4 DEF name, maps

\* The volumes and mounts of a node group's pods fit together.
LEMMA MountsResolve ==
    ASSUME NEW r, OpensearchSpec(r), NothingShared(r), ConfigMaps(r) # Malformed,
           NEW i \in DOMAIN r.groups,
           NEW s, s = StatefulSet(r, r.groups[i], ConfigMaps(r))
    PROVE  /\ \A m \in s.mounts :
                (\E v \in s.volumes : v.name = m.volume) <=> m.volume \notin s.claims
           /\ \A v \in s.volumes, w \in s.volumes : v.name = w.name => v = w
           /\ s.claims \subseteq {m.volume : m \in s.mounts}
           /\ \E v \in s.volumes :
                /\ v.kind = "configMap" /\ v.source = ConfigMaps(r)[i].name
                /\ {m.subPath : m \in {x \in s.mounts : x.volume = v.name}}
                     = DOMAIN ConfigMaps(r)[i].data
  <1> DEFINE g == r.groups[i]
             c == ConfigMaps(r)
             volumes == Volumes(r, g)
             mounts == Mounts(r, g, c)
             claims == When(HasClaim(g), {"opensearch-data"})
             names == {v.name : v \in volumes}
             own == {"node-tls", "api-tls"} \union r.global.volumes
                      \union When(HasClaim(g) \/ HasVolume(g), {"opensearch-data"})
             files == DOMAIN c[i].data
             config == Volume("opensearch-config", "configMap", c[i].name)
  <1>1. s.volumes = volumes /\ s.mounts = mounts /\ s.claims = claims
    BY DEF StatefulSet
  <1>2. DistinctGroups(r) /\ r.global.volumes \intersect OwnVolumes = {}
    BY DEF NothingShared
  <1>3. c[i].name = GetNodeGroupConfigMapName(r, g.name)
    BY <1>2, FilesOfOwn
  <1>4. /\ \A m \in mounts :
             m.volume \in own \/ (m.volume = "opensearch-config" /\ m.subPath \in files)
        /\ \A v \in own : \E m \in mounts : m.volume = v
        /\ \A file \in files : \E m \in mounts :
             m.volume = "opensearch-config" /\ m.subPath = file
    BY <1>2, FilesOfOwn, MountNames
  <1>5. /\ names = {"node-tls", "api-tls", "opensearch-config"} \union r.global.volumes
                     \union When(GetSecretNameForSecurityConfig(r, g) # None,
                                 {"opensearch-security"})
                     \union When(DataVolume(g), {"opensearch-data"})
        /\ \A v, w \in volumes : v.name = w.name => v = w
    BY <1>2, VolumeNames
  <1>6. config \in volumes
    BY <1>3 DEF Volumes
  <1>7. /\ config.name = "opensearch-config" /\ config.kind = "configMap"
        /\ config.source = c[i].name
    BY DEF Volume
  <1>8. DataVolume(g) <=> HasVolume(g) /\ ~HasClaim(g)
    BY DEF DataVolume
  <1>9. "opensearch-config" \notin own
    BY <1>2 DEF OwnVolumes, When
  <1>10. "opensearch-data" \in names <=> DataVolume(g)
    BY <1>2, <1>5 DEF OwnVolumes, When
  <1>11. claims \subseteq {"opensearch-data"} /\ ("opensearch-data" \in claims <=> HasClaim(g))
    BY DEF When
  <1>12. \A v \in own : \/ v = "opensearch-data" /\ (HasClaim(g) \/ HasVolume(g))
                        \/ v # "opensearch-data" /\ v \in names
    BY <1>2, <1>5 DEF OwnVolumes, When
  <1>13. "opensearch-config" \in names
    BY <1>5
  <1>14. claims \subseteq own
    BY DEF When
  <1>15. \A n : n \in names <=> \E v \in volumes : v.name = n
    OBVIOUS
  <1> HIDE DEF g, c, volumes, mounts, claims, names, own, files, config
  <1>16. ASSUME NEW m \in mounts
         PROVE  (\E v \in volumes : v.name = m.volume) <=> m.volume \notin claims
    <2>1. m.volume \in names <=> m.volume \notin claims
      BY <1>4, <1>8, <1>10, <1>11, <1>12, <1>13
    <2> QED
      BY <1>15, <2>1
  <1>17. claims \subseteq {m.volume : m \in mounts}
    BY <1>4, <1>14
  <1>18. {m.subPath : m \in {x \in mounts : x.volume = config.name}} = files
    BY <1>4, <1>7, <1>9
  <1> QED
    BY <1>1, <1>5, <1>6, <1>7, <1>16, <1>17, <1>18 DEF c, files

\* Whatever persistence a node group has and whatever configuration the user
\* gives: a pod mounts volumes that are there, once, and the files of the
\* config map of its own node group.
THEOREM VolumesAlwaysResolve == Spec => []VolumesResolve
  <1>1. MInv => VolumesResolve
    <2> SUFFICES ASSUME MInv, Done("statefulSets"), Done("configMaps"),
                        NothingShared(given)
                 PROVE  VolumesResolve
      BY DEF VolumesResolve
    <2>1. made["configMaps"] = ConfigMaps(given)
      BY DEF MInv, Done
    <2> DEFINE Resolved(s, i) ==
                 /\ \A m \in s.mounts :
                      (\E v \in s.volumes : v.name = m.volume) # (m.volume \in s.claims)
                 /\ \A v \in s.volumes, w \in s.volumes : v.name = w.name => v = w
                 /\ s.claims \subseteq {m.volume : m \in s.mounts}
                 /\ \E v \in s.volumes :
                      /\ v.kind = "configMap" /\ v.source = made["configMaps"][i].name
                      /\ {m.subPath : m \in {x \in s.mounts : x.volume = v.name}}
                           = DOMAIN made["configMaps"][i].data
    <2>2. ASSUME NEW i \in DOMAIN made["statefulSets"],
                 NEW s, s = made["statefulSets"][i]
          PROVE  Resolved(s, i)
      <3>1. /\ OpensearchSpec(given) /\ ConfigMaps(given) # Malformed
            /\ i \in DOMAIN given.groups
            /\ s = StatefulSet(given, given.groups[i], ConfigMaps(given))
        BY <2>2, StatefulSetsMade
      <3>2. \A m \in s.mounts :
               (\E v \in s.volumes : v.name = m.volume) <=> m.volume \notin s.claims
        BY <3>1, MountsResolve
      <3>3. \A m \in s.mounts :
               (\E v \in s.volumes : v.name = m.volume) # (m.volume \in s.claims)
        BY <3>2, Zenon
      <3>4. \A v \in s.volumes, w \in s.volumes : v.name = w.name => v = w
        BY <3>1, MountsResolve
      <3>5. s.claims \subseteq {m.volume : m \in s.mounts}
        BY <3>1, MountsResolve
      <3>6. \E v \in s.volumes :
              /\ v.kind = "configMap" /\ v.source = ConfigMaps(given)[i].name
              /\ {m.subPath : m \in {x \in s.mounts : x.volume = v.name}}
                   = DOMAIN ConfigMaps(given)[i].data
        BY <3>1, MountsResolve
      <3> QED
        BY <2>1, <3>3, <3>4, <3>5, <3>6
    <2> HIDE DEF Resolved
    <2>3. \A i \in DOMAIN made["statefulSets"] : Resolved(made["statefulSets"][i], i)
      BY <2>2
    <2> QED
      BY <2>3, Zenon DEF VolumesResolve, Resolved
  <1> QED
    BY <1>1, MadeAsWritten, PTL
=============================================================================
