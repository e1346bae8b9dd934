------------------------------ MODULE Manifests ------------------------------
(***************************************************************************)
(* api/v1alpha1: the Kubernetes objects computed from an Opensearch        *)
(* resource.  Each Generate function computes one kind from the resource   *)
(* in memory, on its own; what they compute must fit together, since pods  *)
(* mount the config maps, services select the pods, and nodes find each    *)
(* other by the names of services and pods.                                *)
(*                                                                         *)
(* They may be called in any order and again and again on one resource in  *)
(* memory, a deep copy of the informer's.  That matters since              *)
(* GeneratePodDisruptionBudget merges through pointers of the copy and so  *)
(* edits it.                                                               *)
(*                                                                         *)
(* A name is the sequence of the words that dashes join.                   *)
(***************************************************************************)
EXTENDS Merge, Integers, TLC

CONSTANTS
    Resources,  \* resources the user may write
    Neighbours, \* other resources of the namespace
    Computed    \* the settings file the operator injects, a function

VARIABLES
    given,  \* the resource as the user wrote it, in the informer's cache
    h,      \* the deep copy of it the functions are called on
    made    \* what was generated last, by kind

vars == <<given, h, made>>

Kinds == {"configMaps", "services", "statefulSets", "budgets", "ingress", "loadBalancer"}

-----------------------------------------------------------------------------
(* The resource: what of its types the functions combine.                  *)

Maybe(S) == S \union {None}

\* A struct of these fields and no others.
Struct(x, fields) == x = [f \in fields |-> x[f]]

\* The words of a name.
Name == Seq(STRING) \ {<<>>}

\* Settings by file; a file that is not settings is Malformed.
Config(c) ==
    /\ DOMAIN c \subseteq STRING
    /\ \A file \in DOMAIN c : c[file] = Malformed \/ DOMAIN c[file] \subseteq STRING

IntOrString == [type : {"Int", "String"}, int : STRING, str : STRING]

PodDisruptionBudgetSpec(b) ==
    \E fields \in SUBSET {"min", "max"} : b \in [fields -> IntOrString]

AntiAffinitySpec == [type : Text, topologyKey : Text]

\* Whether there is a claim and whether there is a volume.
PersistenceSpec == [claim : BOOLEAN, volume : BOOLEAN]

\* What stands for nothing is nothing that a field may hold, and no failure.
ASSUME NoneAssumption ==
    None \notin Name /\ ~PodDisruptionBudgetSpec(None) /\ None # Malformed

\* Labels and environment variables by name.
Settings(m) == DOMAIN m \subseteq STRING

GlobalNodeGroupSpec(g) ==
    /\ Struct(g, {"config", "budget", "volumes", "securityRef", "antiAffinity",
                  "labels", "env", "jvm"})
    /\ g.config = None \/ Config(g.config)
    /\ g.budget = None \/ PodDisruptionBudgetSpec(g.budget)
    /\ g.volumes \subseteq STRING
    /\ g.securityRef \in Maybe(STRING)
    /\ g.antiAffinity \in Maybe(AntiAffinitySpec)
    /\ Settings(g.labels) /\ Settings(g.env) /\ g.jvm \in STRING

NodeGroupSpec(g) ==
    /\ Struct(g, {"name", "replicas", "roles", "persistence", "config", "budget",
                  "securityRef", "antiAffinity", "labels", "env", "jvm"})
    /\ g.name \in Name /\ g.replicas \in Nat /\ g.roles \subseteq STRING
    /\ g.persistence \in Maybe(PersistenceSpec)
    /\ g.config = None \/ Config(g.config)
    /\ g.budget = None \/ PodDisruptionBudgetSpec(g.budget)
    /\ g.securityRef \in Maybe(STRING)
    /\ g.antiAffinity \in Maybe(AntiAffinitySpec)
    /\ Settings(g.labels) /\ Settings(g.env) /\ g.jvm \in STRING

IngressSpec ==
    [enabled : BOOLEAN, host : Maybe(STRING), target : Maybe(Name)]

LoadBalancerSpec ==
    [enabled : BOOLEAN, target : Maybe(Name), ref : Maybe(STRING)]

OpensearchSpec(r) ==
    /\ Struct(r, {"name", "labels", "global", "groups", "ingress", "loadBalancer"})
    /\ r.name \in Name /\ Settings(r.labels)
    /\ GlobalNodeGroupSpec(r.global)
    /\ r.groups \in Seq(ToSet(r.groups))
    /\ \A i \in DOMAIN r.groups : NodeGroupSpec(r.groups[i])
    /\ r.ingress \in Maybe(IngressSpec)
    /\ r.loadBalancer \in Maybe(LoadBalancerSpec)

ASSUME ResourcesAssumption == \A r \in Resources \union Neighbours : OpensearchSpec(r)

-----------------------------------------------------------------------------
(* Names.                                                                  *)

GetGlobalServiceName(r) == r.name \o <<"os">>

\* Fault: nothing marks the objects of the operator.
GetNodeGroupName_Unmarked(r, g) == r.name \o g

GetNodeGroupName(r, g) == r.name \o g \o <<"os">>
GetNodeGroupServiceName(r, g) == GetNodeGroupName(r, g)
GetNodeGroupPDBName(r, g) == GetNodeGroupName(r, g)
GetNodeGroupServiceNameHeadless(r, g) == GetNodeGroupName(r, g) \o <<"headless">>
GetNodeGroupConfigMapName(r, g) == GetNodeGroupName(r, g) \o <<"config">>
GetSecretNameForTlsTransport(r) == r.name \o <<"os", "tls", "transport">>

GetSecretNameForTlsApi(r) ==
    IF r.loadBalancer # None /\ r.loadBalancer.enabled /\ r.loadBalancer.ref # None
      THEN <<r.loadBalancer.ref>>
      ELSE r.name \o <<"os", "tls", "api">>

\* Of the node group, or else of all of them, or else none.
GetSecretNameForSecurityConfig(r, group) ==
    IF group.securityRef # None THEN group.securityRef ELSE r.global.securityRef

\* Fault: counted from one.
GetNodeGroupNodeNames_FromOne(r, group) ==
    {GetNodeGroupName(r, group.name) \o <<ToString(i)>> : i \in 1..group.replicas}

GetNodeGroupNodeNames(r, group) ==
    {GetNodeGroupName(r, group.name) \o <<ToString(i)>> : i \in 0..(group.replicas - 1)}

GroupsOf(r) == ToSet(r.groups)

GetNodeNames(r) == UNION {GetNodeGroupNodeNames(r, g) : g \in GroupsOf(r)}

IsMasterRole(group) == "cluster_manager" \in group.roles

MasterGroups(r) == {g \in GroupsOf(r) : IsMasterRole(g)}

computeInitialMasterNodes(r) ==
    UNION {GetNodeGroupNodeNames(r, g) : g \in MasterGroups(r)}

computeDiscoverySeedHosts(r) ==
    {GetNodeGroupServiceNameHeadless(r, g.name) : g \in MasterGroups(r)}

roleList == {"cluster_manager", "data", "ingest", "ml", "remote_cluster_client", "transform"}

computeRoles(roles) == [role \in roleList |-> role \in roles]

-----------------------------------------------------------------------------
(* Config maps.                                                            *)

Injected == [file \in {"opensearch.yml"} |-> Computed]

\* None of the literal's settings is empty to mergo.
ASSUME ComputedAssumption ==
    /\ Injected # None
    /\ \A path \in DOMAIN Computed : Computed[path] \notin Empty

\* Fault: the operator's settings are merged into those of the user.
ConfigOf_UserFirst(r, group) ==
    LET user == IF r.global.config = None THEN group.config
                ELSE MergeSettings(group.config, r.global.config)
    IN  IF user = Malformed THEN Malformed ELSE MergeSettings(user, Injected)

\* The user's settings, node group before global, go under the computed ones.
ConfigOf(r, group) ==
    LET user == IF r.global.config = None THEN group.config
                ELSE MergeSettings(group.config, r.global.config)
    IN  IF user = Malformed THEN Malformed ELSE MergeSettings(Injected, user)

\* One failure is the failure of all.
ConfigMaps(r) ==
    IF \E g \in GroupsOf(r) : ConfigOf(r, g) = Malformed THEN Malformed
    ELSE [i \in DOMAIN r.groups |->
            [name |-> GetNodeGroupConfigMapName(r, r.groups[i].name),
             data |-> ConfigOf(r, r.groups[i])]]

-----------------------------------------------------------------------------
(* Services, ingress and load balancer.                                    *)

\* A selector: the cluster, and a node group or all of them.
Selector(r, g) == [cluster |-> r.name, nodeGroup |-> g]

Services(r) ==
    {[name |-> GetGlobalServiceName(r), headless |-> FALSE, selector |-> Selector(r, None)]}
    \union
    {[name |-> GetNodeGroupServiceName(r, g.name), headless |-> FALSE,
      selector |-> Selector(r, g.name)] : g \in GroupsOf(r)}
    \union
    {[name |-> GetNodeGroupServiceNameHeadless(r, g.name), headless |-> TRUE,
      selector |-> Selector(r, g.name)] : g \in GroupsOf(r)}

\* Fault: the check of the target is dropped.
Targets_Any(r, target) == TRUE

\* A target that is named must be one of the node groups.
Targets(r, target) == target = None \/ \E g \in GroupsOf(r) : g.name = target

\* nil when disabled, an error without host or with an unknown target.
Ingress(r) ==
    CASE r.ingress = None -> None
      [] r.ingress # None /\ ~r.ingress.enabled -> None
      [] OTHER ->
           IF r.ingress.host = None \/ ~Targets(r, r.ingress.target) THEN Malformed
           ELSE [host |-> r.ingress.host,
                 backend |-> IF r.ingress.target = None THEN GetGlobalServiceName(r)
                             ELSE GetNodeGroupServiceName(r, r.ingress.target)]

LoadBalancer(r) ==
    CASE r.loadBalancer = None -> None
      [] r.loadBalancer # None /\ ~r.loadBalancer.enabled -> None
      [] OTHER ->
           IF ~Targets(r, r.loadBalancer.target) THEN Malformed
           ELSE [name |-> GetGlobalServiceName(r) \o <<"lb">>,
                 selector |-> Selector(r, r.loadBalancer.target)]

-----------------------------------------------------------------------------
(* Stateful sets.                                                          *)

When(condition, set) == IF condition THEN set ELSE {}

HasClaim(group) == group.persistence # None /\ group.persistence.claim

HasVolume(group) == group.persistence # None /\ group.persistence.volume

Mount(volume, key) == [volume |-> volume, subPath |-> key]

\* The user's volumes, the certificates, the data if it persists, and one
\* mount for each file of the config maps that have the group's name.
Mounts(r, group, configMaps) ==
    {Mount(v, None) : v \in r.global.volumes \union {"node-tls", "api-tls"}
            \union When(HasClaim(group) \/ HasVolume(group), {"opensearch-data"})}
    \union {Mount("opensearch-config", file) : file \in
                UNION {DOMAIN c.data : c \in {x \in ToSet(configMaps) :
                          x.name = GetNodeGroupConfigMapName(r, group.name)}}}

Volume(name, kind, source) == [name |-> name, kind |-> kind, source |-> source]

\* Fault: the group's volume is used although it has a claim.
DataVolume_Both(group) == HasVolume(group)

\* The data is in the volume of the group unless it has a claim.
DataVolume(group) == HasVolume(group) /\ ~HasClaim(group)

Volumes(r, group) ==
    {Volume("node-tls", "secret", GetSecretNameForTlsTransport(r)),
     Volume("api-tls", "secret", GetSecretNameForTlsApi(r)),
     Volume("opensearch-config", "configMap", GetNodeGroupConfigMapName(r, group.name))}
    \union {Volume(v, "user", <<v>>) : v \in r.global.volumes}
    \union When(GetSecretNameForSecurityConfig(r, group) # None,
                {Volume("opensearch-security", "secret",
                        <<GetSecretNameForSecurityConfig(r, group)>>)})
    \union When(DataVolume(group),
                {Volume("opensearch-data", "user", <<"opensearch-data">>)})

\* Anti-affinity: hard or soft, over hosts unless another topology is given.
computeAntiAffinity(r, group) ==
    LET merged == Merge([type |-> "", topologyKey |-> ""],
                        <<group.antiAffinity, r.global.antiAffinity>>)
    IN  [hard |-> merged.type = "hard",
         topologyKey |-> IF merged.topologyKey = "" THEN "hostname" ELSE merged.topologyKey]

\* The node group's options come after the global ones.
computeJavaOpts(r, group) ==
    SelectSeq(<<r.global.jvm, group.jvm>>, LAMBDA options : options # "")

\* What a node is told of its roles and of how to find the others goes over
\* the user's variables, and those of the node group over the global ones.
Env(r, group) ==
    LastWins(<<r.global.env, group.env, computeRoles(group.roles),
        [opts    |-> computeJavaOpts(r, group),
         initial |-> computeInitialMasterNodes(r),
         seeds   |-> computeDiscoverySeedHosts(r)],
        IF Len(r.groups) = 1 /\ r.groups[1].replicas = 1
          THEN [type |-> "single-node"] ELSE [field \in {} |-> None]>>)

\* Fault: the user's labels go over those that are selected by.
PodLabels_UserLast(r, group) ==
    LastWins(<<Selector(r, group.name), r.labels, r.global.labels, group.labels>>)

\* The labels that are selected by go over the user's.
PodLabels(r, group) ==
    LastWins(<<r.labels, r.global.labels, group.labels, Selector(r, group.name)>>)

StatefulSet(r, group, configMaps) ==
    [name        |-> GetNodeGroupName(r, group.name),
     serviceName |-> GetNodeGroupServiceNameHeadless(r, group.name),
     replicas    |-> group.replicas,
     selector    |-> Selector(r, group.name),
     labels      |-> PodLabels(r, group),
     env         |-> Env(r, group),
     antiAffinity |-> computeAntiAffinity(r, group),
     mounts      |-> Mounts(r, group, configMaps),
     volumes     |-> Volumes(r, group),
     claims      |-> When(HasClaim(group), {"opensearch-data"})]

\* Fault: without config maps, there are no files to mount.
StatefulSets_NoFiles(r) ==
    LET configMaps == IF ConfigMaps(r) = Malformed THEN <<>> ELSE ConfigMaps(r)
    IN  [i \in DOMAIN r.groups |-> StatefulSet(r, r.groups[i], configMaps)]

\* The config maps are generated anew, for their keys.
StatefulSets(r) ==
    IF ConfigMaps(r) = Malformed THEN Malformed
    ELSE [i \in DOMAIN r.groups |-> StatefulSet(r, r.groups[i], ConfigMaps(r))]

-----------------------------------------------------------------------------
(* Disruption budgets.  One of the two fields should be set: minAvailable  *)
(* (min) and maxUnavailable (max), each a pointer to an IntOrString.       *)

Number(n) == [type |-> "Int", int |-> n, str |-> ""]
Percent(p) == [type |-> "String", int |-> "0", str |-> p]

Value(v) == IF v.type = "Int" THEN v.int ELSE v.str

Unset == [field \in {} |-> Number("0")]

BudgetOf(budget) == IF budget = None THEN Unset ELSE budget

\* Fault: the global settings are merged first, so that it is them that are
\* edited.
MergeBudget_GlobalFirst(r, i) ==
    LET merged == MergePointers(BudgetOf(r.global.budget), BudgetOf(r.groups[i].budget))
    IN  [budget   |-> merged,
         resource |-> IF r.global.budget = None THEN r
                      ELSE [r EXCEPT !.global.budget =
                              [f \in DOMAIN r.global.budget |-> merged[f]]]]

\* The budget of node group i, and the resource after it: the node group's
\* pointers come first, so the global values are merged into what they
\* point to.
MergeBudget(r, i) ==
    LET merged == MergePointers(BudgetOf(r.groups[i].budget), BudgetOf(r.global.budget))
    IN  [budget   |-> merged,
         resource |-> IF r.groups[i].budget = None THEN r
                      ELSE [r EXCEPT !.groups[i].budget =
                              [f \in DOMAIN r.groups[i].budget |-> merged[f]]]]

\* Fault: the default is there if either field is missing.
Decided_Either(budget) ==
    IF {"min", "max"} \subseteq DOMAIN budget THEN budget
    ELSE ("max" :> Number("1")) @@ budget

\* One pod at a time, if neither field is set.
Decided(budget) == IF budget = Unset THEN [max |-> Number("1")] ELSE budget

\* One node group after the other, each on the resource the last one left.
Edited(r) ==
    LET edited[n \in 0..Len(r.groups)] ==
          IF n = 0 THEN r ELSE MergeBudget(edited[n - 1], n).resource
    IN  edited

Budgets(r) ==
    [resource |-> Edited(r)[Len(r.groups)],
     budgets  |-> [i \in DOMAIN r.groups |->
                     [name |-> GetNodeGroupPDBName(r, r.groups[i].name),
                      spec |-> Decided(MergeBudget(Edited(r)[i - 1], i).budget)]]]

-----------------------------------------------------------------------------
(* The functions.                                                          *)

\* A reconcile gets the resource: the client hands out a deep copy.
Fetch ==
    /\ h' = given
    /\ UNCHANGED <<given, made>>

Make(kind, objects) == made' = [made EXCEPT ![kind] = objects]

Unedited == UNCHANGED <<given, h>>

GenerateConfigMaps == Make("configMaps", ConfigMaps(h)) /\ Unedited
GenerateServices == Make("services", Services(h)) /\ Unedited
GenerateStatefullsets == Make("statefulSets", StatefulSets(h)) /\ Unedited
GenerateIngress == Make("ingress", Ingress(h)) /\ Unedited
GenerateLoadbalancer == Make("loadBalancer", LoadBalancer(h)) /\ Unedited

\* The copy is edited, through the pointers it holds.
GeneratePodDisruptionBudget ==
    /\ Make("budgets", Budgets(h).budgets)
    /\ h' = Budgets(h).resource
    /\ UNCHANGED given

Init ==
    /\ given \in Resources
    /\ h = given
    /\ made = [k \in Kinds |-> None]

Next ==
    \/ GenerateConfigMaps \/ GenerateServices \/ GenerateStatefullsets
    \/ GenerateIngress \/ GenerateLoadbalancer \/ GeneratePodDisruptionBudget
    \/ Fetch

Spec == Init /\ [][Next]_vars

-----------------------------------------------------------------------------
(* Properties.                                                             *)

Done(kind) == made[kind] \notin {None, Malformed}

DistinctGroups(r) == \A i, j \in DOMAIN r.groups :
    r.groups[i].name = r.groups[j].name => i = j

\* The certificates' paths and the other settings the operator computes are
\* in every config map as computed, whatever the user writes under the same
\* paths, for a node group or for all.
ComputedSettingsWin ==
    Done("configMaps") =>
        \A i \in DOMAIN made["configMaps"], path \in DOMAIN Computed :
            made["configMaps"][i].data["opensearch.yml"][path] = Computed[path]

\* Every volume a pod mounts is there once: as a volume of the pod or as a
\* claim; and each file it mounts from the config map is in the very config
\* map that is generated for its node group: as long as the user calls no two
\* node groups by one name and no volume by one of the operator's.
OwnVolumes ==
    {"node-tls", "api-tls", "opensearch-config", "opensearch-security", "opensearch-data"}

NothingShared(r) == DistinctGroups(r) /\ r.global.volumes \intersect OwnVolumes = {}

VolumesResolve ==
    Done("statefulSets") /\ Done("configMaps") /\ NothingShared(given) =>
        \A i \in DOMAIN made["statefulSets"] :
            LET s == made["statefulSets"][i]
            IN  /\ \A m \in s.mounts :
                     (\E v \in s.volumes : v.name = m.volume) # (m.volume \in s.claims)
                /\ \A v \in s.volumes, w \in s.volumes : v.name = w.name => v = w
                /\ s.claims \subseteq {m.volume : m \in s.mounts}
                /\ \E v \in s.volumes :
                     /\ v.kind = "configMap" /\ v.source = made["configMaps"][i].name
                     /\ {m.subPath : m \in {x \in s.mounts : x.volume = v.name}}
                          = DOMAIN made["configMaps"][i].data

\* There are no stateful sets without config maps: whichever is generated
\* first, and whatever was in between, a file of one node group that is not
\* settings is the end of both, and no pods are made that would run without
\* the files the operator computes or wait for a config map for ever.
FilesFirst == made["configMaps"] = Malformed => ~Done("statefulSets")

\* The pods Kubernetes makes of a stateful set, by name.
Pods(s) == {s.name \o <<ToString(i)>> : i \in 0..(s.replicas - 1)}

\* Whether a selector selects the pods of a stateful set.
Reaches(selector, s) ==
    /\ selector.cluster = s.labels.cluster
    /\ selector.nodeGroup \in {None, s.labels.nodeGroup}

\* The names the transport certificates are issued for, and the first
\* masters, are the names of pods; the hosts a node looks for are headless
\* services that select masters, and that of its own stateful set selects
\* it: also if the user gives labels and variables of the same names.
DiscoveryResolves ==
    Done("statefulSets") /\ Done("services") =>
        LET sets == ToSet(made["statefulSets"])
            headless == {s \in made["services"] : s.headless}
            masters == {s \in sets : s.env["cluster_manager"]}
        IN  /\ GetNodeNames(h) = UNION {Pods(s) : s \in sets}
            /\ \A s \in sets :
                 /\ s.env.initial = UNION {Pods(m) : m \in masters}
                 /\ \E x \in headless : x.name = s.serviceName /\ Reaches(x.selector, s)
                 /\ s.env.seeds = {x.name : x \in {y \in headless :
                                       \E m \in masters : Reaches(y.selector, m)}}

\* What is exposed has something behind it, if there is a node group at all:
\* the ingress leads to a service that is generated, and it and the load
\* balancer select a stateful set that is, although that may have no replicas.
EndpointsResolve ==
    Done("statefulSets") /\ Done("services") /\ h.groups # <<>> =>
        LET sets == ToSet(made["statefulSets"])
        IN  /\ Done("ingress") =>
                 \E x \in made["services"] :
                    /\ x.name = made["ingress"].backend /\ ~x.headless
                    /\ \E s \in sets : Reaches(x.selector, s)
            /\ Done("loadBalancer") =>
                 \E s \in sets : Reaches(made["loadBalancer"].selector, s)

\* A stateful set selects its own pods and those of no other node group,
\* whatever labels the user gives the resource and its node groups: one that
\* does not select its own is refused, two that share pods fight over them.
OwnPodsSelected ==
    Done("statefulSets") /\ DistinctGroups(h) =>
        \A i, j \in DOMAIN made["statefulSets"] :
            Reaches(made["statefulSets"][i].selector, made["statefulSets"][j]) <=> i = j

\* The budget of a node group depends on its own settings and the global ones
\* as the user wrote them, not on the node groups before it nor on how
\* often the budgets were generated, although generating them edits the
\* resource.
Alone(r, i) == [r EXCEPT !.groups = <<r.groups[i]>>]

BudgetsApart ==
    Done("budgets") =>
        \A i \in DOMAIN made["budgets"] :
            made["budgets"][i] = Budgets(Alone(given, i)).budgets[1]

\* A budget never limits both the pods that stay and those that go, which the
\* API server refuses, and never neither, as long as the node group and the
\* global settings set one of the two fields between them.
BudgetDecided ==
    Done("budgets") =>
        \A i \in DOMAIN made["budgets"] :
            LET set == DOMAIN BudgetOf(given.groups[i].budget)
                         \union DOMAIN BudgetOf(given.global.budget)
            IN  set # {"min", "max"} =>
                  Cardinality(DOMAIN made["budgets"][i].spec) = 1

\* Node groups with names of their own have objects of their own, and so have
\* two clusters of a namespace, as long as no cluster or node group of the
\* one has the full name of one of the other: whatever the node groups are
\* called, the endings that the names get make no two of them meet.
FullNames(r) == {r.name} \union {r.name \o g.name : g \in GroupsOf(r)}

NamesApart ==
    DistinctGroups(given) =>
        /\ \A kind \in {"configMaps", "statefulSets", "budgets"} : Done(kind) =>
             \A i, j \in DOMAIN made[kind] :
                 made[kind][i].name = made[kind][j].name => i = j
        /\ Done("services") =>
             /\ \A s, t \in made["services"] : s.name = t.name => s = t
             /\ Done("loadBalancer") =>
                  made["loadBalancer"].name \notin {s.name : s \in made["services"]}
             /\ \A r \in Neighbours :
                  FullNames(r) \intersect FullNames(given) = {} =>
                    {s.name : s \in Services(r)}
                      \intersect {s.name : s \in made["services"]} = {}

\* Where the pods of a node group are spread is as the node group says, and
\* as the global settings say only where it says nothing: the first source of
\* Merge has the priority, as its callers and their tests have it, although
\* its comment gives it to the last.
OwnAffinityWins ==
    Done("statefulSets") =>
        \A i \in DOMAIN made["statefulSets"] :
            LET own == given.groups[i].antiAffinity
                got == made["statefulSets"][i].antiAffinity
            IN  own # None =>
                  /\ own.type # "" => got.hard = (own.type = "hard")
                  /\ own.topologyKey # "" => got.topologyKey = own.topologyKey

-----------------------------------------------------------------------------
(* What the repository says of these functions and they do not do.         *)

\* MergeSettings: "m1 have the priority", which is the node group.  What it
\* sets for itself, the operator's own paths aside, is what its nodes get.
OwnSettingsWin ==
    Done("configMaps") =>
        \A i \in DOMAIN made["configMaps"] :
            LET own == given.groups[i].config
            IN  own # None =>
                  \A file \in DOMAIN own : own[file] # Malformed =>
                    \A path \in DOMAIN own[file] :
                        \/ file = "opensearch.yml" /\ path \in DOMAIN Computed
                        \/ made["configMaps"][i].data[file][path] = own[file][path]
=============================================================================
