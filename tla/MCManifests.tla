----------------------------- MODULE MCManifests -----------------------------
(***************************************************************************)
(* Small resources for Manifests: each family varies what the functions    *)
(* combine with each other and leaves the rest at its default.             *)
(***************************************************************************)
EXTENDS Manifests

\* Zeroes of the types of the values below.
MCEmpty == {"false", "0", "", "Int"}

\* Two of the computed paths stand for the nine.
MCComputed == ("ssl.http.enabled" :> "true") @@ ("ssl.keystore" :> "certs/api.pfx")

Nothing == [key \in {} |-> ""]

Group(name) ==
    [name |-> name, replicas |-> 1, roles |-> {"cluster_manager", "data"},
     persistence |-> None, config |-> None, budget |-> None,
     securityRef |-> None, antiAffinity |-> None,
     labels |-> Nothing, env |-> Nothing, jvm |-> ""]

Plain ==
    [name |-> <<"logs">>, labels |-> Nothing, groups |-> <<Group(<<"a">>), Group(<<"b">>)>>,
     global |-> [config |-> None, budget |-> None, volumes |-> {},
                 securityRef |-> None, antiAffinity |-> None,
                 labels |-> Nothing, env |-> Nothing, jvm |-> ""],
     ingress |-> None, loadBalancer |-> None]

\* The names and roles of the node groups, and how many there are.
Sized(name, n, roles) == [Group(name) EXCEPT !.replicas = n, !.roles = roles]

RoleSets == {{"cluster_manager"}, {"data"}, {"cluster_manager", "data"}}

Topologies ==
    {[Plain EXCEPT !.groups = <<>>]}
    \union
    {[Plain EXCEPT !.groups = <<Sized(<<"a">>, n, x)>>] : n \in 0..2, x \in RoleSets}
    \union
    {[Plain EXCEPT !.groups = <<Sized(<<"a">>, n, x), Sized(<<"b">>, k, y)>>] :
        n \in 1..2, k \in 0..1, x \in RoleSets, y \in RoleSets}

\* Settings of the user's for the operator's file and for another one, some
\* under computed paths, some of them empty, some not settings at all.
Documents ==
    {Malformed, "ssl.http.enabled" :> "false", "ssl.keystore" :> "mine.pfx",
     "http.cors" :> "true", "http.cors" :> "false"}

Configs ==
    {None} \union UNION {[files -> Documents] :
        files \in {{"opensearch.yml"}, {"log4j.yml"}}}

Configured ==
    {[Plain EXCEPT !.global.config = x, !.groups[1].config = y, !.groups[2].config = z] :
        x \in Configs, y \in Configs,
        z \in {None, "opensearch.yml" :> ("http.cors" :> "true")}}

\* Persistence, volumes and security settings.
Persistences == {None} \union [claim : BOOLEAN, volume : BOOLEAN]

Stores ==
    {[Plain EXCEPT !.groups[1].persistence = p, !.groups[2].persistence = q,
                   !.groups[1].securityRef = own, !.global.securityRef = all,
                   !.global.volumes = v] :
        p \in Persistences, q \in {None, [claim |-> TRUE, volume |-> FALSE]},
        own \in {None, "own"}, all \in {None, "all"}, v \in {{}, {"snapshot"}}}

\* Budgets: a number that is zero or not, or a percentage, in either field.
Amounts == {Number("0"), Number("1"), Percent("50%")}

BudgetSpecs ==
    {None} \union UNION {[fields -> Amounts] : fields \in SUBSET {"min", "max"}}

Budgeted ==
    {[Plain EXCEPT !.global.budget = x, !.groups[1].budget = y, !.groups[2].budget = z] :
        x \in BudgetSpecs, y \in BudgetSpecs,
        z \in {None, "max" :> Number("1"), "min" :> Number("0")}}

\* Endpoints, for a group that is there and one that is not.
Target == {None, <<"a">>, <<"c">>}

Exposed ==
    {[Plain EXCEPT !.ingress = x] :
        x \in [enabled : BOOLEAN, host : {None, "host"}, target : Target]}
    \union
    {[Plain EXCEPT !.loadBalancer = x] :
        x \in [enabled : BOOLEAN, target : Target, ref : {None, "mine"}]}

Affinities ==
    {None} \union [type : {"", "soft", "hard"}, topologyKey : {"", "zone"}]

Spread ==
    {[Plain EXCEPT !.global.antiAffinity = x, !.groups[1].antiAffinity = y] :
        x \in Affinities, y \in Affinities}

\* Labels and variables of the user's, some by the names of the operator's.
Labels ==
    {Nothing, "team" :> <<"search">>, "cluster" :> <<"mine">>, "nodeGroup" :> <<"b">>}

Variables ==
    {Nothing, "team" :> "search", "initial" :> {<<"mine">>}, "seeds" :> {},
     "cluster_manager" :> TRUE, "type" :> "mine"}

Labelled ==
    {[Plain EXCEPT !.labels = x, !.global.labels = y, !.groups[1].labels = z] :
        x \in Labels, y \in Labels, z \in Labels}
    \union
    {[Plain EXCEPT !.groups[1].roles = {"data"}, !.global.env = x, !.groups[1].env = y,
                   !.global.jvm = all, !.groups[1].jvm = own] :
        x \in Variables, y \in Variables, all \in {"", "-Xms1g"}, own \in {"", "-Xms2g"}}

\* Clusters and node groups whose names begin alike or look like endings.
GroupNames ==
    {<<"a">>, <<"a", "b">>, <<"os">>, <<"a", "headless">>, <<"os", "headless">>}

Clusters == {<<"logs">>, <<"logs", "a">>, <<"logs", "os">>}

Balanced == [enabled |-> TRUE, target |-> None, ref |-> None]

Named ==
    {[Plain EXCEPT !.name = n, !.loadBalancer = Balanced,
                   !.groups = <<Group(x), Group(y)>>] :
        n \in Clusters, x \in GroupNames, y \in GroupNames}

MCNeighbours == Named

MCResources ==
    Named \union Topologies \union Configured \union Stores \union Budgeted
        \union Exposed \union Spread \union Labelled
=============================================================================
