# Verification of opensearch-operator

TLA+ models of the OpenSearch Kubernetes operator (`controllers/`, `pkg/`,
`api/`), the TLC runs that check them on small instances, and the theorems
TLAPS proves about them for every instance.

Contents: 1 the system; 2 the modules; 3 how the models correspond to the
code; 4 the runs; 5 bounds and fairness; 6 what is proved; 7 what the code does
not keep of what it says; 8 what is not modelled; 9 the plan.

## 1. The system

The operator turns one custom resource, `Opensearch`, into the Kubernetes
objects of an OpenSearch cluster.  The repository is young: the manager
registers an empty scaffold (`OpensearchReconciler`), and the parts with logic
of their own are the two TLS reconcilers, the PKI helpers, and the functions
that compute the manifests.

| part | code | state it keeps | operations |
| --- | --- | --- | --- |
| transport TLS reconciler | `controllers/opensearch_controller_transport_tls.go` | secret `<cluster>-os-tls-transport`: CA, admin certificate and bundle, per node `.crt .key .csr .pfx`; condition `TransportTlsReady` | Configure, Read, Diff, Create, Update, Delete, OnSuccess, OnError, generateSecret, renewSecret |
| API TLS reconciler | `controllers/opensearch_controller_api_tls.go` | secret `<cluster>-os-tls-api`: CA, certificate, bundle; condition `ApiTlsReady`; or only a look at a secret of the user's | the same, without renewSecret |
| PKI helpers | `pkg/pki` | none | new CA, issue node, admin or API certificate, load a CA, NeedRenewCertificate |
| names and manifests | `api/v1alpha1/opensearch_func.go`, `opensearch_internal.go` | none | node, secret and service names; services, config maps, stateful sets, ingress, load balancer, disruption budgets |
| merges | `pkg/helper` | none | MergeSettings, Merge, Diff |
| manager process | `main.go`, `controllers/controllers.go`, `opensearch_controller.go` | the gauge `resource_total`, the counter of errors | start; leader election only with `--leader-elect` (the flag is off by default, the shipped manifests set it) |
| outside | operator-sdk-extra v0.0.17, controller-runtime v0.13.1, the API server | work queue, informer caches, `resourceVersion`s, finalizers | the order in which the handlers above are called, optimistic locking, watches |

**How they interact.**  The two reconcilers share nothing but the process and
the `Opensearch` resource.  Each reads its spec, holds it back with a finalizer
and has a condition in its status; but the loop saves the status as a whole, the
other's condition included, and each save makes the other's copy an old one.
They read secrets through the informer cache, which lags behind the
API server, and write them with `Update`, which the API server accepts only if
the `resourceVersion` sent is the stored one, or none is sent.  A panic
anywhere ends the process, and with it every reconcile in it (this version of
controller-runtime recovers none).

**What is hard.**

- *Interleaving*: two managers, without leader election or while it changes
  hands, edit copies of one secret for different node lists.
- *Stale reads*: `Diff` works on a cached copy that may be older than the
  manager's own last write; the resource was read before the secret.
- *Partial edits*: `Diff` of the transport reconciler edits the object it read
  key by key, in the order of a Go map, and may still throw it away.
- *Failure*: an update applied whose answer is lost; a process that ends
  between any two steps.
- *Time*: every check reads the clock anew; certificates become due in the
  middle of a reconcile.
- *Deletion*: the resource and its secret may go while a write is under way;
  `Read` comes before `Delete`, and its errors keep the finalizer.
- *A shared status*: two controllers in each of two managers save all of it.
- *Pointers*: one of the functions that compute manifests edits the resource it
  is called on, which the next ones then start from.

**What makes each part correct.**

- transport TLS: what is stored is one PKI; certificates handed out are never
  changed while their CA lives; a reported success is not undone; deleted is
  deleted; nodes get their certificates; what is due is renewed, or the condition
  says that it cannot be.
- API TLS: the same of its single certificate; the user's secret is never
  written, and accepted when it has what is asked for.
- PKI: a certificate names the CA that signed it; a bundle has both.
- both together: no save takes the other's conclusion back, the conditions
  settle, and a deleted resource goes away.
- merges and manifests: the documented priority; names that do not collide;
  every volume a pod mounts exists and has the file its configuration names;
  nodes find each other, and services and stateful sets their pods, whatever
  labels and variables the user adds; nothing is made without its files.

## 2. The modules

| module | what it is |
| --- | --- |
| `Pki` | certificates, bundles, what issues what, when one is due: `pkg/pki` as operators |
| `PkiLineage` | the abstract specification of a stored PKI: it appears, is extended, is replaced, is removed; no loop, cache, clock or failure |
| `ReconcileLoop` | the abstract specification of what operator-sdk-extra makes of any reconciler: managers and controllers on one resource, its status and finalizers |
| `TransportTls` | the transport reconciler, any number of managers, caches, API server, clock and user |
| `ApiTls` | the API reconciler in the same surroundings, with the user's secret |
| `Operator` | both reconcilers in every manager process: `ReconcileLoop` with the state each one's secret is in |
| `Merge` | `MergeSettings` and `Merge` of `pkg/helper`, on what mergo does |
| `Manifests` | the Generate functions of `api/v1alpha1`: names, config maps, services, ingress, load balancer, stateful sets, disruption budgets; labels, environment and Java options |
| `MCTransportTls`, `MCApiTls`, `MCOperator`, `MCManifests` | small instances for TLC |
| `TransportTlsProofs`, `TransportTlsLineageProofs`, `TransportTlsLoopProofs`, `ApiTlsProofs`, `ReconcileLoopProofs`, `OperatorProofs`, `ManifestsProofs` | the theorems |
| `LoopMappings` | lemmas that the two refinements of `ReconcileLoop` share |

`TransportTls` and `ApiTls` extend `Pki` and each contains two instances with a
refinement mapping, of what they promise about the secret and of what they do
to the resource: `Lineage!Spec` of `PkiLineage` is the property `LineageKept`,
`Loop!LoopSpec` of `ReconcileLoop`, with one controller, is `LoopKept`.
`Operator` extends `ReconcileLoop`, `Manifests` extends `Merge`.  Definitions whose comment begins with *Fault:* are plausible
mistakes in the operator next to them (a dropped guard, a missing reset); no
behaviour of the models uses them.  They exist to show that each property is
violated when its operator is replaced by the mistake.

## 3. Models and code

### A reconcile

operator-sdk-extra calls the handlers in this order: get the resource,
`Configure`, `Read`; if `Read` returns a non-empty result, stop there; if the
resource is being deleted, `Delete` and remove the finalizer; otherwise `Diff`,
then `Create` or `Update` if `Diff` says so, `OnSuccess` or, after any error,
`OnError`; at the end the status is saved if it changed.  A manager's `pc`
stands between two of these steps:

| action | code |
| --- | --- |
| `Start` | the resource is read, `Configure` sets the condition False if there is none |
| `Read`, `ReadFails` | `Read`; it loads the PKI of the secret and fails if it cannot |
| `CheckCA`, `CheckNode`, `CheckAdmin` (transport) | the three parts of `Diff`, one step each because each reads the clock anew and another manager may write between them; `CheckNode` is one turn of the loop, in any order |
| `Renew` | the renewal of everything that the first two parts may turn to: `renewSecret` |
| `Diff`, `Regenerate` (API) | `Diff`; its two readings of the clock are one step, since any outcome of two readings is that of one of them |
| `Write`, `WriteFails` | `Create` or `Update`, both the client's `Update` |
| `Delete` | `Delete`, and the finalizer |
| `Finish` | the save of the status |

### Around it

`Sync` is a watch event that brings a cache up to date, `Restart` the kubelet
starting a process whose caches then fill, `Crash` the end of a process at any
point, `Tick` the clock.  `Scale`, `Edit`, `DeleteResource` are the user's
edits of the resource.  `Provision`, `Provide` and `Remove` change the secrets
from outside: a backup restored, a secret of an earlier release or made by
hand, the user's certificate; the garbage collector, once the resource is gone.

### The names of the API reconciler

`ApiTls` keeps the stored secrets by name: the operator's (`OwnSecret`) and those
the user may choose (`UserSecret`), among them the operator's own name, which the
code does not forbid.  A reconcile computes the name twice, in `Read` (`Target`)
and in `generateSecret` (`WriteTarget`), each time with
`GetSecretNameForTlsApi` from its copy of the resource; `PutSecret` writes to
whatever name comes out.  A user who takes the operator's name for a secret of his
own has no promise that it is left alone: another reconcile, with a copy from
before, may renew it.

### Both reconcilers

`ReconcileLoop` has no handlers, only what every reconcile does to the resource:

| action | code |
| --- | --- |
| `Begin` | get the resource; `Configure` |
| `Conclude` | `OnSuccess`, `OnError`, or the end of a reconcile to be tried again later |
| `Save` | the status as a whole, if it changed and the copy is the stored version |
| `Finalize` | `Delete`, then the finalizer; the resource goes with the last one |
| `Exit`, `Launch` | a panic or the end of a process; the kubelet's restart |
| `EditResource`, `Condemn` | the user's edits and deletion |

`Operator` puts both controllers on it.  Of a reconciler it only matters in what
state its secret is: `good` (Diff finds nothing to do, or does it), `failing`
(Diff ends in an error), `unreadable` (Read fails or waits), `due` (Diff panics).
`Change` is what `TransportTls` and `ApiTls` have in detail.  `main.go` registers
neither reconciler yet; `Operator` is what they are written for.

### What is abstracted

- *A condition's reason and message* are left out: a save that changes only these
  is one that changes nothing, followed by an edit (`EditResource`, `Edit`).
- *Certificates* keep their generation, issuer and end.  Keys, subjects and
  encodings are left out.  A generation is the smallest number not in use for
  that subject, which stands for a fresh key.
- *resourceVersion* is not a counter: what it decides is whether a writer's
  copy is the stored version.  So `rv` is `unset` (no version is sent: the
  secret was just generated), `live` or `stale`; `synced` names the managers
  whose cache is the stored version; `crCurrent` those whose copy of the
  resource is.  Any write turns the others stale.
- *Reading the resource from a cache* that lags is a `Start` earlier than the
  steps after it: nothing else of the reconcile happens in between.
- *Intermediate versions* a watch delivers are a `Sync` that happened earlier.
- *The nil map.* `generateSecret` and `renewSecret` fill `secret.Data`, a nil
  map, and panic.  The switch `SecretHasData` is FALSE for the code as it is.
  TRUE gives the literals their map and shows the logic behind the panic, which
  cannot otherwise be reached; every run says which of the two it uses.
- Events, logs and the error counter are left out.  Metrics are modelled once,
  the gauge in `TransportTls`; it is state without a property (section 7).

### The manifests

Each Generate function of the resource is an action of `Manifests`; they may be
called in any order, again and again, on one resource in memory.  The state is
the resource as the user wrote it (`given`), the copy of it the functions are
called on (`h`), and what was generated last of each kind (`made`).  Most of that is not kept between
reconciles by the code; the state is there since

- `GeneratePodDisruptionBudget` edits its receiver: mergo takes over pointers
  from the first source and merges the others into what they point to, so the
  global budget ends up in the node groups' own settings (`MergeBudget`), from
  which the next call starts;
- a later reconcile starts from a fresh copy (`Fetch`), so that edited and
  unedited copies alternate;
- what one function computes has to fit what another one did.

What is abstracted:

- *Names* are sequences of the words that dashes join.
- *Settings files* are functions from the paths of their leaves to values, or
  `Malformed`; of a value it matters whether mergo takes it for empty (`Empty`).
  A scalar where the other file has a map, and lists, are left out.
- *Computed settings* are a constant; two of the literal's paths in the runs.
- *Labels and environment*, the resource's, the node group's and the global ones,
  are functions from names to values, merged as k8sbuilder merges: what comes
  later wins (`LastWins`, external).  The user's own labels and variables may have
  the names of the operator's.
- *Another resource* of the namespace (`Neighbours`) is there by its names only.
- *Pod templates, security contexts, tolerations, annotations and resources*,
  which k8sbuilder merges into the pod, and the ingress spec, which fills what the
  operator left empty, are left out: the properties do not speak of them (labels
  of a pod template come before all others, as the user's lowest do).  So are
  ports, probes, the image, plugins and `computeEnvFroms`, which nothing calls.
- A budget's selector is left out; the functions set it before the merge.

## 4. The runs

Code as it is (`SecretHasData = FALSE`):

| run | instance | shows |
| --- | --- | --- |
| `transport_race` | 2 managers, 2 nodes, safety, symmetric | `TypeOK`; `SecretCoherent`: what is stored is one PKI; `SuccessIsDurable`: no write from an old copy takes a certificate away from under a success being reported; `StaysDeleted`; `LineageKept` and `LoopKept`: refinement of `PkiLineage` and of `ReconcileLoop` |
| `transport_certified` | 2 managers, 1 node, crash, lost answer | `NodesGetCertified`: a node that is added gets its certificate; `DeletionCompletes`: a deleted resource goes away unless its secret cannot be loaded |
| `api_external` | 2 managers, user's secret there from the start or later | `UserSecretAccepted`: the user's complete secret is accepted in the end, even from a state in which the operator's own secret ends the processes; `DeletionCompletes`, unless the secret it needs is unreadable or lacks a key |

With the Data map (`SecretHasData = TRUE`):

| run | instance | shows |
| --- | --- | --- |
| `transport_renewal` | 1 manager, 2 nodes, crash, clock | a renewed PKI is coherent and complete and of the lineage; `DueGetsRenewed`: what is due is renewed in the end; `FailureReported`: a renewal that cannot succeed, since the bundle is missing, shows in the condition |
| `api_renewal` | 1 manager, crash, lost answer, edits | the certificate and its CA are renewed together and in the end; `UserSecretUntouched`: a user's secret named in the middle of a renewal is not written; `FailureReported`: an alternative IP that does not parse shows in the condition; `LoopKept` |

Both reconcilers together, and the manifests (the switch is not in these):

| run | instance | shows |
| --- | --- | --- |
| `operator` | 2 managers, 2 controllers, one change, edit, crash or fault | `OnlyOwnCondition`: no save takes another controller's conclusion back; `StatusSettles`: the conditions come to say what the secrets are like, through all conflicts; `DeletionCompletes`: also if one controller's panic ends both, again and again |
| `manifests` | 1585 resources, every order of the functions and of fresh copies | `ComputedSettingsWin`: the certificates' paths are in every config map as computed; `VolumesResolve`: what a pod mounts is there once, and the files it mounts are those of its config map; `FilesFirst`: where the config maps cannot be made there is no stateful set; `DiscoveryResolves`: the names certificates are issued for, the first masters and the seed hosts are those of pods and services, and the user's variables do not hide them; `EndpointsResolve`: what is exposed selects a stateful set that is there, with replicas or without; `OwnPodsSelected`: a stateful set selects its pods and no others, whatever the labels; `BudgetsApart`: the edits of the receiver never reach another node group's budget or a later call's; `BudgetDecided`: one of the two fields, never both or none; `NamesApart` |

Runs that find the property violated, each a disagreement between the code and
what the repository says of it (section 7): `secret_never_created`,
`renewed_after_expiry`, `node_without_keystore`, `api_documented_keys`,
`settings_priority`.

The runs of the reconcilers and of `Operator` do not check for deadlock: once the
resource and its secret are deleted the managers rest, and so does the model.

### The properties that took thought

- `SecretCoherent` relates six keys of one secret that `Diff` changes in four
  places.  Making the admin certificate again without its bundle breaks it.
- `SuccessIsDurable` and `LineageKept` rest on the `resourceVersion` that an
  extended secret carries along from the copy it was read from; a renewed
  secret carries none and may overwrite anything, which is sound only because
  it replaces the CA as well.  `SuccessIsDurable` therefore speaks of the CA
  the reconcile ended with.
- `StaysDeleted` rests on the very `Update` in `Create` that also keeps the
  secret from ever being created.
- `DiscoveryResolves` compares four functions that compute names on their own
  with what Kubernetes makes of the stateful sets; `VolumesResolve` three places
  that decide from the same conditions on mounts, volumes and claims.  The latter
  holds of resources in which nothing is shared by name (`NothingShared`): no two
  node groups of one name, and no user's volume called as one of the operator's.
  The code checks neither (section 7).
- `BudgetsApart` holds although generating budgets edits the resource, because
  node groups come first in the merge: had the global settings come first, a
  node group would pass its own budget on to the next one.
- `BudgetDecided` excludes the case in which the node group and the global
  settings set one field each: the merged budget then has both, and the API
  server refuses it.  With one of the two set anywhere, the default must fill in
  exactly when nothing else does.
- `UserSecretUntouched` rests on the name being computed from the same copy of the
  resource that made the reconcile generate a secret.  Computed again from the
  resource as stored at the write, it would be the user's.
- `FailureReported` is what is left where `DueGetsRenewed` must give up: a bundle
  that is missing or an IP that does not parse fails every renewal, and an error
  lost on the way would leave the condition True for ever.
- `FilesFirst` is about an error of one function inside another: one bad file of
  one node group must stop all stateful sets.
- `OwnPodsSelected` rests on the operator's labels being merged last, over three
  sources of the user's.
- `OnlyOwnCondition` rests on optimistic locking: the handlers edit one field, the
  loop saves all.  `StatusSettles` shows that two controllers whose saves refuse
  each other still come to an end: a condition that is right is not saved again.
- `NodesGetCertified` and `DueGetsRenewed` say how far the retries carry: the
  first holds while nothing is due (something due ends the process), the
  second if the admin bundle can be decoded and there is a map to write to.

## 5. Bounds and fairness

`Budget` bounds what has no bound: how often the user scales or edits, secrets
change from outside, processes are ended from outside, and calls are not
answered.  `MaxTime` bounds the clock.  The managers' own steps are not bounded,
and liveness is checked with them running for ever.

- *One scaling and one outside write* are enough for two managers to work for
  two different node lists on copies of one secret, in every interleaving with
  the deletion of both.  A second writer's old copy needs no third write.
- *Time* is in weeks, the unit of `DefaultRenewCertificate` (7 days); a
  certificate lives one or two of them, not 397 days: only what is due matters.
  Secrets from outside come at different ages (`ForeignLife`, `Ages`), so the
  safety runs meet due and expired certificates with the clock standing, and
  the renewal runs let it move in the middle of a reconcile.
- *`operator`* has a budget of one for a change of a secret, an edit, a crash or a
  fault: deletions, panics and restarts are free, and a change alone already
  brings each of the four states of a secret into the middle of any reconcile.
  Two managers with two controllers each are the least at which a save conflicts
  with the same controller elsewhere and with the other one here.
- *`api_external`* has two managers and the clock standing, and crashes only by
  panics of the code itself, which are not bounded.
- *Serials* are more than any instance uses at one time.
- `transport_race` is symmetric in nodes and managers and checks no liveness.
- *Resources* of `MCManifests` come in eight families (names, node groups and
  roles, settings, storage, budgets, endpoints, anti-affinity, labels with
  environment and Java options), each of which varies
  what the functions combine with each other and leaves the rest at its
  default, since no function combines fields of two families except through
  names.  Two node groups are the least at which one can disturb another; up to
  two replicas tell the first pod from the last.

Fairness: weak, for each manager, of its reconcile (`Reconcile(m)`), of
its watch (`Sync(m)`) and of its restart.  The work queue retries a
reconcile that failed and informers resync periodically, so a manager that can
take a step takes one; a watch delivers; the kubelet restarts a container that
ended.  `Operator` assumes the same of each controller of each manager, which has
a work queue and a worker of its own.  Nothing is assumed of the clock, the user
and the faults.  `StatusSettles` speaks of behaviours in which from some time on
no secret is due, and `DeletionCompletes` of a secret that does not stay
unreadable: both are states that the code cannot leave by itself.

## 6. What is proved

Every invariant, every action property and every refinement that a passing run
checks is a theorem, for every value of the constants.  What remains to TLC alone
is liveness, and what the code violates.

| property | theorem | module |
| --- | --- | --- |
| `TransportTls!TypeOK`, `SecretCoherent` | `TypeCorrect`, `AlwaysCoherent` | `TransportTlsProofs` |
| `SuccessIsDurable`, `StaysDeleted`, `LineageKept` | `SuccessStaysDurable`, `DeletedStaysDeleted`, `LineageImplemented` | `TransportTlsLineageProofs` |
| `LoopKept` | `LoopImplemented` | `TransportTlsLoopProofs` |
| `ApiTls!TypeOK`, `UserSecretUntouched`, `LineageKept`, `LoopKept` | `TypeCorrect`, `UserSecretKept`, `LineageImplemented`, `LoopImplemented` | `ApiTlsProofs` |
| `ReconcileLoop`: `LoopTypeOK`, `OnlyOwnCondition` | `LoopTypeCorrect`, `OthersConditionsKept` | `ReconcileLoopProofs` |
| `Operator!TypeOK`, `LoopSpec`, `OnlyOwnCondition` | `OperatorTypeCorrect`, `OperatorImplementsLoop`, `OperatorKeepsConditions` | `OperatorProofs` |
| `ComputedSettingsWin`, `VolumesResolve`, `DiscoveryResolves`, `EndpointsResolve`, `OwnPodsSelected` | `ComputedSettingsAlwaysWin`, `VolumesAlwaysResolve`, `DiscoveryAlwaysResolves`, `EndpointsAlwaysResolve`, `OwnPodsAlwaysSelected` | `ManifestsProofs` |
| `FilesFirst`, `BudgetsApart`, `BudgetDecided`, `NamesApart` | `FilesComeFirst`, `BudgetsStayApart`, `BudgetsAreDecided`, `NamesStayApart` | `ManifestsProofs` |

### The transport reconciler

For every set of nodes and managers, every validity and margin, clock bound and
budget, and both values of `SecretHasData`.

`SecretCoherent` alone is not inductive: a write stores an object prepared
several steps earlier, from a cache that may be older still.  The invariant is

    IInv == TypeOK /\ Holding /\ AllSound

`AllSound` says of every copy of the secret (stored, cached, held in memory)
what `SecretCoherent` says of the stored one; `Holding` says that a
reconcile in the phases `nodes`, `admin` and `write` holds a secret.  The
lemmas on the operators (`AssembleSound`, `GenerateSecretSound`,
`RenewSecretSound`, `WithNodeSound`, `WithAdminSound`, `ForeignSound`) show that
each way of making or editing a secret yields a coherent one; one lemma per action
then shows that it preserves `IInv`, and `Invariance` puts them together.

What a write may replace is a matter of where the copy comes from.  For that

    LInv == IInv /\ Ancestry

says of every manager, against the stored secret (`Within(s, t)`: if s has the CA
of t, t still has every certificate of s):

- `CacheTrails`: a synced cache is the stored secret, any cache an earlier state;
- `LiveKeeps`: a copy with the stored version has its CA and all it has;
- `FreshApart`: a copy without a version that is about to be written has a CA
  that is not the stored one, nor in any cache or other copy.  This is why the
  one kind of write that the API server accepts unconditionally does no harm;
- `Versions`: only a secret just generated has no version;
- `HeldTrails`, `Progress`: what has not been edited, and what a success is
  reported of, is an earlier state of the secret; and the loop of `Diff` leaves
  no node behind it without a certificate.

`AncestryInvariance` is `Spec => []LInv`.  From it follow `SuccessIsDurable`
(`HeldTrails` and `Progress` at the end of a reconcile), `StaysDeleted`, and
`LineageKept`, in which each write is shown to be an extension or a replacement
of what is stored, and everything else but the changes from outside a stutter.

### The reconcile loop, and that both reconcilers keep to it

`OnlyOwnCondition` needs `IInv == LoopTypeOK /\ CopiesAgree`: a copy that is the
stored version differs from what is stored in its own controller's condition at
most.  Without it nothing says that the other conditions in a copy about to be
saved are those stored.

`LoopKept` maps the phases of a reconciler to the loop's copies (`CopyOf`): one
that is idle or down has none, one that is at `finish` has concluded.  It needs
`LoopLocal`: a current copy is that of a reconcile under way, which remembers the
status that is stored, and `Delete` is reached only for a resource that was being
deleted when it was got.  In `ApiTls` also that a condition is never unset past
`Configure`, since a reconcile which waits for the user's secret saves the
condition as it is.  Each action is then shown to be one action of the loop or to
change nothing it sees.  `LoopMappings` has what both proofs need to know of a
status with a single condition.

`Operator` refines `ReconcileLoop` from `Configured`, the same of both
controllers, and has `OnlyOwnCondition` of it by the theorem of the loop.

### The API reconciler

    IInv == TypeOK /\ AllReady /\ AllSigned /\ Apart

In every secret there is, the certificate is of the CA beside it, and a secret
that is generated and yet to be written has a CA nobody else has: not the stored
one, not a cached one, not another manager's.  So each write replaces certificate
and CA together, which is all `LineageKept` allows.  `AllReady` says that a
reconcile about to write holds a secret and that its copy of the resource leaves the
certificates to the operator, whatever the user has made of the stored one since.
Without it the name computed for the write could be any: with it `UserSecretUntouched`
follows (`UserSecretKept`).

### The manifests

For every set of resources and every computed settings file.  The invariant is

    MInv == given \in Resources /\ Reached(given, h)
              /\ each made[k] is None or what the functions make of given

and `MadeAsWritten` is `Spec => []MInv`: whatever was generated, whenever and in
whatever order, is what the resource as the user wrote it makes.  `Reached` says
how far the edits of the receiver go: the copy differs from what was written in its
node groups' budgets at most, and each of those is as written or has absorbed the
global one (`Absorbed`), after which merging it again changes nothing.  The edits
come one node group after the other, a recursive function of the number of groups;
`EditedStep` and `BudgetsReached` follow it by the least number at which the claim
would fail, since the induction theorems of the library cannot be used here.  That
the other functions make the same of a copy that was edited (`SameConfigMaps` and
its like) does the rest.

With that, each property is one of the operators alone:

- `ComputedSettingsWin`, from what merges keep (`FillKeeps`, `MergeSettingsKeeps`);
- `OwnAffinityWins`, `BudgetDecided`, `BudgetsApart`, from which source is first;
- `FilesFirst`, from the config maps being generated anew for each stateful set;
- `OwnPodsSelected`, `EndpointsResolve`, from the operator's labels being last;
- `DiscoveryResolves`, from pod names being those of the stateful sets, and the
  operator's variables being last;
- `NamesApart`, from what an added word does to a sequence of words;
- `VolumesResolve`, from the three places deciding alike, given `NothingShared`.

### What the theorems assume

The assumptions are those named in the modules, and TLC evaluates them in every
run that extends the module: serials are natural numbers, the validity is
positive and the margin an integer; bounds are natural numbers; the values that
stand for "no secret", "cannot be loaded", "no PKI" and "no copy" are different
from each other and from what they stand beside (`NoSecretAssumption`,
`NoPkiAssumption`, `NoCopyAssumption`, `NoneAssumption`); no computed setting is
empty to mergo (`ComputedAssumption`), which is true of the literal, and the empty
string is (`EmptyAssumption`); resources have the shape of their Go types
(`ResourcesAssumption`).

### Only model-checked

- *Liveness*, which rests on fairness and ENABLED and is out of the reach of
  TLAPS here: `NodesGetCertified`, `DueGetsRenewed`, `FailureReported`,
  `UserSecretAccepted`, `DeletionCompletes`, `StatusSettles`.
- *What the code does not keep*, in the five runs of section 7.

## 7. What the code does not keep of what it says

1. **The secret is never created** (`secret_never_created`).  `generateSecret`
   writes to the nil map of its literal; the process ends and, restarted, ends
   again.  Behind the panic, `Create` calls the client's `Update`, which answers
   NotFound.  In the API reconciler the branch is not even reached, because
   `Read` puts no CA aside when there is no secret.
2. **Certificates are renewed after they expire** (`renewed_after_expiry`).
   `NeedRenewCertificate` adds minus seven days to the clock where its comment
   says "before it expire".
3. **A new node has no keystore** (`node_without_keystore`).  `Diff` gives it
   `.crt`, `.key` and `.csr`; the configuration names a `.pfx`.
4. **The documented keys are not accepted** (`api_documented_keys`).  `Read`
   asks for `key.tls`, the type's comment says `tls.key`.
5. **A node group's false is lost** (`settings_priority`).  `MergeSettings` gives
   the first map priority only for values mergo does not take for empty: a node
   group that sets `false` gets the global `true`.

Seen while modelling and not checked by a run:

- `Delete` lowers the gauge `resource_total`
  (`controllers/opensearch_controller_transport_tls.go:147`) and nothing raises it,
  so that it is negative from the first deletion on; its help says "Total number
  of resource handled per controller".
- A node group that sets `minAvailable` where the global settings set
  `maxUnavailable` gets a budget with both, which the API server refuses; an
  IntOrString is merged field by field, so that a number in one and a percentage
  in the other make the percentage (`api/v1alpha1/opensearch_func.go:895-903`).
- The initial masters and the seed hosts are joined by spaces
  (`api/v1alpha1/opensearch_internal.go:53` and `:66`).
- The comment of the field `Jvm` says that Xmx and Xms are computed from the
  resources (`api/v1alpha1/opensearch_types.go:262`); nothing computes them.
- `GetNodeName` of `controllers/controllers.go` (lines 65-67) lacks the `-os` of
  the other names; nothing calls it.
- The configuration names keystores below `certs/transport` and `certs/http`; the
  pods mount the secrets at `certs/node` and `certs/api`
  (`api/v1alpha1/opensearch_func.go:425,431` and `:607-614`), and the truststore's
  path has `${hostanme}` for `${hostname}` (line 427).
- The volume `opensearch-security` is mounted nowhere (lines 793-805).
- A user's additional volume named like one of the operator's (`node-tls`,
  `api-tls`, `opensearch-config`, ...) and a second node group of the same name
  are accepted; what the pods mount is then not what was generated for them,
  or the config map of one node group is that of the other (`api/v1alpha1/opensearch_func.go:595-640`).
- The comment of `AntiAffinitySpec` gives `topology.kubernetes.io/zone` as the
  default (`api/v1alpha1/opensearch_types.go:348`); the code takes
  `kubernetes.io/hostname`.
- The comment of `Merge` says "The last src is the higher priority"
  (`pkg/helper/merge.go:9`); mergo fills only what is empty, so the first has it.
  Both callers and their tests (`api/v1alpha1/opensearch_internal_test.go:327-368`)
  rely on the first, so it is the comment that is wrong.  That a node group's
  anti-affinity wins is the theorem `OwnAffinityAlwaysWins`, and no run's property.

## 8. What is not modelled

- What the manifests leave out, section 3; of a second resource, all but names.
- `helper.Diff`, which only tests call.
- Keys, subjects, alternative names, encodings, the contents of generated YAML.
- The registered `OpensearchReconciler`: an empty scaffold.
- The generated deep copies (`zz_generated.deepcopy.go`): the copy a reconcile works
  on is taken to share nothing with the informer's.
- CRDs, RBAC and deployment manifests, test helpers.
- Leader election: with it the single manager of the renewal runs; without it
  the two of the race.  The change of hands is a second manager that starts
  while the first still has a write under way, which the race includes.

## 9. Plan

Done: `Pki`, `PkiLineage`, `ReconcileLoop`, `TransportTls`, `ApiTls`, `Operator`,
`Merge`, `Manifests`, their runs, and the theorems of section 6.

Next, in this order:

1. Proofs of what the properties do not say yet: that `MergeSettings` of any list
   of maps gives each path its first value that is not empty; that a stored
   condition is the conclusion of the last reconcile that saved it.
2. `Manifests` with the secrets: that the keystores the configuration names are
   below the mounts and are keys of the secrets the reconcilers keep, once the
   paths agree (section 7).
3. The reconciler that will apply the manifests, once the code has it.
