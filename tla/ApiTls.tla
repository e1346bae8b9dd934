------------------------------- MODULE ApiTls -------------------------------
(***************************************************************************)
(* OpensearchApiTlsReconciler: the certificate of the HTTP endpoint.  The  *)
(* operator either keeps one itself, a CA and one certificate in the       *)
(* secret "<cluster>-os-tls-api", or waits for a secret of the user's that *)
(* the resource names and only looks at it.  Which of the two, and under   *)
(* which name, is computed from the copy of the resource a reconcile       *)
(* started from, and the user may change his mind in the middle of it.     *)
(*                                                                         *)
(*   idle -> read -> diff -> write -> finish -> idle                       *)
(*              \-> delete -> idle                                         *)
(*                                                                         *)
(* Every secret this reconciler writes was just generated and carries no   *)
(* resourceVersion, so the API server compares nothing; no versions are    *)
(* kept here but the one of the resource (crCurrent), as in TransportTls.  *)
(***************************************************************************)
EXTENDS Pki

CONSTANTS
    Manager,        \* manager processes reconciling at the same time
    Malformed,      \* a stored secret that Read cannot load
    SecretHasData,  \* FALSE is the code, see TransportTls
    UserSecret,     \* names the user may give to a secret of his own
    Endpoints,      \* settings of the endpoint the user may choose
    KeySets,        \* keys a secret of the user's may have
    Ages,           \* ages of secrets that come from outside
    MaxTime,        \* bound on the clock
    Budget          \* bounds on edits, outside writes, crashes, faults

\* Whether the load balancer is enabled, which secret is named for it, and
\* whether the alternative IPs of the self-signed certificate all parse.
Endpoint == [loadBalancer : BOOLEAN, ref : UserSecret \union {None}, validIps : BOOLEAN]

\* "<cluster>-os-tls-api"; nothing keeps the user from choosing that name too.
OwnSecret == "os-tls-api"

SecretName == UserSecret \union {OwnSecret}

Key == {"key.tls", "tls.key", "tls.crt"}

ASSUME ApiAssumption ==
    /\ SecretHasData \in BOOLEAN
    /\ Endpoints \subseteq Endpoint
    /\ KeySets \subseteq SUBSET Key
    /\ Ages \subseteq Nat /\ MaxTime \in Nat
    /\ Budget \in [edit : Nat, outside : Nat, crash : Nat, fault : Nat]

VARIABLES
    now,        \* time.Now()
    cr,         \* the Opensearch resource: what of it this reconciler uses
    secrets,    \* the stored secrets by name: None or what they hold
    cache,      \* each manager's informer copies of them, may lag
    pc,         \* where each manager stands
    job,        \* what a reconcile read of the resource
    obj,        \* the contents of the operator's secret it holds in memory
    crCurrent,  \* managers whose copy of the resource is the stored one
    left        \* what is left of the budget

vars == <<now, cr, secrets, cache, pc, job, obj, crCurrent, left>>

Cond == {"unset", "False", "True"}

Phase == {"idle", "read", "delete", "diff", "write", "finish", "down"}

IsSelfManagedSecretForTlsApi(e) == ~(e.loadBalancer /\ e.ref # None)

GetSecretNameForTlsApi(e) == IF IsSelfManagedSecretForTlsApi(e) THEN OwnSecret ELSE e.ref

\* generateSecret passes the alternative IPs of an enabled load balancer only.
IpsParse(e) == e.loadBalancer => e.validIps

Contents == [ca : CACert, crt : LeafCert, pfx : Pkcs12]

\* A secret: the PKI in it, Malformed if there is none that can be loaded, and
\* which keys of the user's it has.
Secret == [pki : Contents \union {Malformed}, keys : SUBSET Key]

\* What stands for no secret, and for one that cannot be loaded, is no secret.
ASSUME NoSecretAssumption ==
    /\ None # Malformed /\ None \notin Secret
    /\ None \notin Contents /\ Malformed \notin Contents

PkiIn(s) == IF s = None THEN None ELSE s.pki

\* The PKI under the operator's own name, and a manager's copy of it.
own == PkiIn(secrets[OwnSecret])
CachedOwn(m) == PkiIn(cache[m][OwnSecret])

Managed(pki) == [pki |-> pki, keys |-> {}]
Provided(keys) == [pki |-> Malformed, keys |-> keys]

Job == [endpoint : Endpoint, deleting : BOOLEAN, was : Cond, cond : Cond]

NoJob == [endpoint |-> [loadBalancer |-> FALSE, ref |-> None, validIps |-> TRUE],
          deleting |-> FALSE, was |-> "unset", cond |-> "unset"]

Resource == [exists : BOOLEAN, deleting : BOOLEAN, endpoint : Endpoint, cond : Cond]

-----------------------------------------------------------------------------
IsFresh(s, used) ==
    /\ s \in Serial \ used
    /\ \A t \in Serial \ used : s <= t

Copies ==
    ({own} \union {CachedOwn(m) : m \in Manager} \union {obj[m] : m \in Manager})
        \ {None, Malformed}

CAIds == {s.ca.id : s \in Copies}

\* A new CA and the one certificate it signs, with its bundle.
Certified(ca, crt) ==
    [ca |-> ca, crt |-> crt, pfx |-> GeneratePkcs12(crt, ca, {})]

\* Fault: the certificate is signed, the CA in the secret is not the signer.
generateSecret_OtherCA(serial, time) ==
    LET ca == NewRootCA(serial, time)
    IN  Certified([ca EXCEPT !.id = 1], IssueCertificate(ca, serial, time))

generateSecret(serial, time) ==
    LET ca == NewRootCA(serial, time)
    IN  Certified(ca, IssueCertificate(ca, serial, time))

-----------------------------------------------------------------------------
Goto(m, phase) == pc' = [pc EXCEPT ![m] = phase]

StoreResource(c) == cr' = c /\ crCurrent' = {}

Conclude(m, cond) ==
    /\ job' = [job EXCEPT ![m].cond = cond]
    /\ Goto(m, "finish")

OnSuccess(m) == Conclude(m, "True")
OnError(m) == Conclude(m, "False")

\* A non-empty ctrl.Result ends the reconcile with neither of the two.
Requeue(m) == job' = job /\ Goto(m, "finish")

Rest(m) ==
    /\ job' = [job EXCEPT ![m] = NoJob]
    /\ obj' = [obj EXCEPT ![m] = None]

Die(m) ==
    /\ Goto(m, "down")
    /\ Rest(m)
    /\ cache' = [cache EXCEPT ![m] = [n \in SecretName |-> None]]
    /\ crCurrent' = crCurrent \ {m}

\* The name a reconcile reads and writes, from its copy of the resource.
Target(m) == GetSecretNameForTlsApi(job[m].endpoint)

-----------------------------------------------------------------------------
(* The reconcile of a manager.                                             *)

\* Get the resource, then Configure: the condition is False if it is new.
Start(m) ==
    /\ pc[m] = "idle" /\ cr.exists
    /\ job' = [job EXCEPT ![m] =
                [endpoint |-> cr.endpoint, deleting |-> cr.deleting, was |-> cr.cond,
                 cond |-> IF cr.cond = "unset" THEN "False" ELSE cr.cond]]
    /\ crCurrent' = crCurrent \union {m}
    /\ Goto(m, "read")
    /\ UNCHANGED <<now, cr, secrets, cache, obj, left>>

AfterRead(m) == IF job[m].deleting THEN "delete" ELSE "diff"

\* Fault: the error of loading the PKI is dropped.
ReadOwn_NoLoadError(m) ==
    /\ IsSelfManagedSecretForTlsApi(job[m].endpoint)
    /\ obj' = [obj EXCEPT ![m] = PkiIn(cache[m][Target(m)])]
    /\ Goto(m, AfterRead(m))
    /\ UNCHANGED job

\* Fault: a secret that is not found is an error.
ReadOwn_NotFoundIsError(m) ==
    /\ IsSelfManagedSecretForTlsApi(job[m].endpoint)
    /\ \/ /\ PkiIn(cache[m][Target(m)]) \in {None, Malformed}
          /\ OnError(m)
          /\ UNCHANGED obj
       \/ /\ PkiIn(cache[m][Target(m)]) \notin {None, Malformed}
          /\ obj' = [obj EXCEPT ![m] = PkiIn(cache[m][Target(m)])]
          /\ Goto(m, AfterRead(m))
          /\ UNCHANGED job

\* The operator's secret: Read puts the CA and the certificate aside for
\* Diff only if there is a secret, and fails if they cannot be loaded.
ReadOwn(m) ==
    /\ IsSelfManagedSecretForTlsApi(job[m].endpoint)
    /\ \/ /\ PkiIn(cache[m][Target(m)]) = Malformed
          /\ OnError(m)
          /\ UNCHANGED obj
       \/ /\ PkiIn(cache[m][Target(m)]) # Malformed
          /\ obj' = [obj EXCEPT ![m] = PkiIn(cache[m][Target(m)])]
          /\ Goto(m, AfterRead(m))
          /\ UNCHANGED job

\* The user's secret: until it is there with both keys, try again later.
\* The keys asked for are key.tls and tls.crt.
Complete(s) == s # None /\ {"key.tls", "tls.crt"} \subseteq s.keys

ReadExternal(m) ==
    /\ ~IsSelfManagedSecretForTlsApi(job[m].endpoint)
    /\ \/ ~Complete(cache[m][Target(m)]) /\ Requeue(m)
       \/ Complete(cache[m][Target(m)]) /\ Goto(m, AfterRead(m)) /\ UNCHANGED job
    /\ UNCHANGED obj

Read(m) ==
    /\ pc[m] = "read"
    /\ ReadOwn(m) \/ ReadExternal(m)
    /\ UNCHANGED <<now, cr, secrets, cache, crCurrent, left>>

\* The API server does not answer the read.
ReadFails(m) ==
    /\ pc[m] = "read" /\ left.fault > 0
    /\ left' = [left EXCEPT !.fault = @ - 1]
    /\ OnError(m)
    /\ UNCHANGED <<now, cr, secrets, cache, obj, crCurrent>>

\* The finalizer is removed, unless the copy it is removed from is old.  The
\* gauge that Delete lowers is modelled in TransportTls.
Delete(m) ==
    /\ pc[m] = "delete"
    /\ IF cr.exists /\ m \in crCurrent
         THEN StoreResource([cr EXCEPT !.exists = FALSE])
         ELSE cr' = cr /\ crCurrent' = crCurrent \ {m}
    /\ Rest(m)
    /\ Goto(m, "idle")
    /\ UNCHANGED <<now, secrets, cache, left>>

NeedRenewal(s, time) ==
    NeedRenewCertificate(s.ca, time) \/ NeedRenewCertificate(s.crt, time)

\* Fault: what was generated is not handed over as the expected secret.
Regenerate_NotHandedOver(m) == OnError(m) /\ UNCHANGED <<obj, cache, crCurrent>>

\* Fault: the error of generateSecret is shadowed and lost.
Regenerate_ErrorLost(m) ==
    \/ /\ ~SecretHasData
       /\ Die(m)
    \/ /\ SecretHasData /\ ~IpsParse(job[m].endpoint)
       /\ OnSuccess(m)
       /\ UNCHANGED <<obj, cache, crCurrent>>
    \/ /\ SecretHasData /\ IpsParse(job[m].endpoint)
       /\ \E s \in Serial :
            /\ IsFresh(s, CAIds)
            /\ obj' = [obj EXCEPT ![m] = generateSecret(s, now)]
       /\ Goto(m, "write")
       /\ UNCHANGED <<job, cache, crCurrent>>

\* generateSecret writes to a nil map once the CA is made, before the
\* certificate is; with a Data map, an alternative IP may still not parse.
Regenerate(m) ==
    \/ /\ ~SecretHasData
       /\ Die(m)
    \/ /\ SecretHasData /\ ~IpsParse(job[m].endpoint)
       /\ OnError(m)
       /\ UNCHANGED <<obj, cache, crCurrent>>
    \/ /\ SecretHasData /\ IpsParse(job[m].endpoint)
       /\ \E s \in Serial :
            /\ IsFresh(s, CAIds)
            /\ obj' = [obj EXCEPT ![m] = generateSecret(s, now)]
       /\ Goto(m, "write")
       /\ UNCHANGED <<job, cache, crCurrent>>

\* Fault: Diff wants the operator's certificates in any case.
Diff_AlwaysManaged(m) ==
    /\ pc[m] = "diff"
    /\ \/ obj[m] = None /\ OnError(m) /\ UNCHANGED <<obj, cache, crCurrent>>
       \/ obj[m] # None /\ NeedRenewal(obj[m], now) /\ Regenerate(m)
       \/ /\ obj[m] # None /\ ~NeedRenewal(obj[m], now)
          /\ OnSuccess(m)
          /\ UNCHANGED <<obj, cache, crCurrent>>
    /\ UNCHANGED <<now, cr, secrets, left>>

\* Without a secret, Diff fails to get the root CA that Read did not put
\* aside, so its branch that creates the secret is never reached.  The user's
\* secret is not looked into any further.
Diff(m) ==
    LET self == IsSelfManagedSecretForTlsApi(job[m].endpoint)
    IN  /\ pc[m] = "diff"
        /\ \/ /\ self /\ obj[m] = None
              /\ OnError(m)
              /\ UNCHANGED <<obj, cache, crCurrent>>
           \/ /\ self /\ obj[m] # None /\ NeedRenewal(obj[m], now)
              /\ Regenerate(m)
           \/ /\ self => obj[m] # None /\ ~NeedRenewal(obj[m], now)
              /\ OnSuccess(m)
              /\ UNCHANGED <<obj, cache, crCurrent>>
        /\ UNCHANGED <<now, cr, secrets, left>>

\* Fault: the name is computed when the secret is written, from the resource
\* stored then and not from the reconcile's copy.
WriteTarget_Afresh(m) == GetSecretNameForTlsApi(cr.endpoint)

\* generateSecret names the secret as the copy of the resource does.
WriteTarget(m) == GetSecretNameForTlsApi(job[m].endpoint)

\* The client's Update: never creates, compares nothing, and replaces all of
\* what the secret holds.
PutSecret(m) ==
    /\ secrets[WriteTarget(m)] # None
    /\ secrets' = [secrets EXCEPT ![WriteTarget(m)] = Managed(obj[m])]

Write(m) ==
    /\ pc[m] = "write"
    /\ \/ PutSecret(m) /\ OnSuccess(m)
       \/ secrets[WriteTarget(m)] = None /\ OnError(m) /\ UNCHANGED secrets
    /\ UNCHANGED <<now, cr, cache, obj, crCurrent, left>>

\* The write fails before it is applied, or is applied and its answer lost.
WriteFails(m) ==
    /\ pc[m] = "write" /\ left.fault > 0
    /\ left' = [left EXCEPT !.fault = @ - 1]
    /\ PutSecret(m) \/ UNCHANGED secrets
    /\ OnError(m)
    /\ UNCHANGED <<now, cr, cache, obj, crCurrent>>

\* Fault: the status is saved whatever has been stored since.
Finish_Overwrites(m) ==
    /\ pc[m] = "finish"
    /\ StoreResource([cr EXCEPT !.cond = job[m].cond])
    /\ Rest(m)
    /\ Goto(m, "idle")
    /\ UNCHANGED <<now, secrets, cache, left>>

\* The status is saved if it changed and the copy is the stored one.
Finish(m) ==
    /\ pc[m] = "finish"
    /\ \/ /\ job[m].cond # job[m].was /\ cr.exists /\ m \in crCurrent
          /\ StoreResource([cr EXCEPT !.cond = job[m].cond])
       \/ /\ ~(job[m].cond # job[m].was /\ cr.exists /\ m \in crCurrent)
          /\ cr' = cr /\ crCurrent' = crCurrent \ {m}
    /\ Rest(m)
    /\ Goto(m, "idle")
    /\ UNCHANGED <<now, secrets, cache, left>>

Crash(m) ==
    /\ pc[m] # "down" /\ left.crash > 0
    /\ left' = [left EXCEPT !.crash = @ - 1]
    /\ Die(m)
    /\ UNCHANGED <<now, cr, secrets>>

Fill(m) == cache' = [cache EXCEPT ![m] = secrets]

Restart(m) ==
    /\ pc[m] = "down"
    /\ Goto(m, "idle")
    /\ Fill(m)
    /\ UNCHANGED <<now, cr, secrets, job, obj, crCurrent, left>>

\* The watch brings the manager's cache up to date.
Sync(m) ==
    /\ pc[m] # "down" /\ cache[m] # secrets
    /\ Fill(m)
    /\ UNCHANGED <<now, cr, secrets, pc, job, obj, crCurrent, left>>

-----------------------------------------------------------------------------
(* What happens around the managers.                                       *)

Reconciles == <<cache, pc, job, obj>>

Tick ==
    /\ now < MaxTime
    /\ now' = now + 1
    /\ UNCHANGED <<cr, secrets, Reconciles, crCurrent, left>>

\* The user edits the endpoint's settings.
Edit ==
    /\ cr.exists /\ ~cr.deleting /\ left.edit > 0
    /\ left' = [left EXCEPT !.edit = @ - 1]
    /\ \E e \in Endpoints \ {cr.endpoint} : StoreResource([cr EXCEPT !.endpoint = e])
    /\ UNCHANGED <<now, secrets, Reconciles>>

DeleteResource ==
    /\ cr.exists /\ ~cr.deleting
    /\ StoreResource([cr EXCEPT !.deleting = TRUE])
    /\ UNCHANGED <<now, secrets, Reconciles, left>>

Foreign(serial, time) ==
    LET ca == NewRootCA(serial, time)
    IN  Certified(ca, IssueCertificate(ca, serial, time))

SetSecret(n, s) == secrets' = [secrets EXCEPT ![n] = s]

\* Someone stores a secret under the operator's name: a backup, an earlier
\* release; it may be old, or nothing of it can be loaded.
Provision ==
    /\ cr.exists /\ left.outside > 0
    /\ left' = [left EXCEPT !.outside = @ - 1]
    /\ \/ \E s \in Serial, age \in Ages :
            IsFresh(s, CAIds) /\ SetSecret(OwnSecret, Managed(Foreign(s, now - age)))
       \/ SetSecret(OwnSecret, Managed(Malformed))
    /\ UNCHANGED <<now, cr, Reconciles, crCurrent>>

\* The user stores a secret of his own, or another in its place, under any of
\* the names, the operator's included.
Provide ==
    /\ left.outside > 0
    /\ left' = [left EXCEPT !.outside = @ - 1]
    /\ \E n \in UserSecret, keys \in KeySets :
         secrets[n] # Provided(keys) /\ SetSecret(n, Provided(keys))
    /\ UNCHANGED <<now, cr, Reconciles, crCurrent>>

\* A secret is deleted by hand, or the operator's one with its owner.
Remove ==
    /\ \E n \in SecretName :
         /\ secrets[n] # None /\ SetSecret(n, None)
         /\ \/ n = OwnSecret /\ ~cr.exists /\ left' = left
            \/ left.outside > 0 /\ left' = [left EXCEPT !.outside = @ - 1]
    /\ UNCHANGED <<now, cr, Reconciles, crCurrent>>

-----------------------------------------------------------------------------
Init ==
    /\ now = 0
    /\ cr \in [exists : {TRUE}, deleting : {FALSE}, endpoint : Endpoints,
               cond : {"unset"}]
    /\ secrets \in [SecretName -> {Provided(keys) : keys \in KeySets} \union {None}]
    /\ cache = [m \in Manager |-> secrets]
    /\ pc = [m \in Manager |-> "idle"]
    /\ job = [m \in Manager |-> NoJob]
    /\ obj = [m \in Manager |-> None]
    /\ crCurrent = {}
    /\ left = Budget

Reconcile(m) ==
    \/ Start(m) \/ Read(m) \/ Delete(m) \/ Diff(m) \/ Write(m) \/ Finish(m)

Failure(m) == ReadFails(m) \/ WriteFails(m) \/ Crash(m)

Environment == Tick \/ Edit \/ DeleteResource \/ Provision \/ Provide \/ Remove

Next ==
    \/ \E m \in Manager : Reconcile(m) \/ Failure(m) \/ Restart(m) \/ Sync(m)
    \/ Environment

Spec == Init /\ [][Next]_vars

\* As in TransportTls: retries and requeues, watches, and restarts.
Fairness ==
    \A m \in Manager :
        /\ WF_vars(Reconcile(m))
        /\ WF_vars(Sync(m))
        /\ WF_vars(Restart(m))

FairSpec == Spec /\ Fairness

-----------------------------------------------------------------------------
(* Properties.                                                             *)

TypeOK ==
    /\ now \in Nat
    /\ cr \in Resource
    /\ secrets \in [SecretName -> Secret \union {None}]
    /\ cache \in [Manager -> [SecretName -> Secret \union {None}]]
    /\ pc \in [Manager -> Phase]
    /\ job \in [Manager -> Job]
    /\ obj \in [Manager -> Contents \union {None}]
    /\ crCurrent \subseteq Manager
    /\ left \in [edit : Nat, outside : Nat, crash : Nat, fault : Nat]

\* A secret that the user keeps is never written by the operator, although he
\* may name it while a reconcile that got an earlier resource still has a
\* write to do: a reconcile writes only the secret it computes the name of,
\* and generates one only where its copy of the resource leaves the
\* certificates to the operator.  Under the operator's own name there is no
\* such promise to a user who takes it for a secret of his.
UserSecretUntouched ==
    [][\A m \in Manager : Reconcile(m) \/ Failure(m) =>
         \A n \in SecretName : secrets'[n] # secrets[n] =>
           n = OwnSecret /\ IsSelfManagedSecretForTlsApi(job[m].endpoint)]_vars

\* The operator's secret goes through the same lineage as the transport one,
\* with a single certificate.
Lineage == INSTANCE PkiLineage WITH
    Node <- {"api"},
    pki <- IF own \in {None, Malformed} THEN None
           ELSE [ca |-> own.ca, crt |-> [n \in {"api"} |-> own.crt]]

\* None stands for nothing in the abstract specifications as well.
ASSUME NoPkiAssumption == None \notin Lineage!Lineage

LineageKept == Lineage!Spec

\* This controller's part in the protocol of the reconcile loop.
Controller == {"api"}

CopyOf(m) ==
    IF pc[m] \in {"idle", "down"} THEN None
    ELSE [deleting |-> job[m].deleting, done |-> pc[m] = "finish",
          cond |-> [c \in Controller |-> job[m].cond]]

Loop == INSTANCE ReconcileLoop WITH
    NoCopy  <- None,
    res     <- [exists |-> cr.exists, deleting |-> cr.deleting,
                finalizers |-> IF cr.exists THEN Controller ELSE {},
                cond |-> [c \in Controller |-> cr.cond]],
    copy    <- [m \in Manager |-> [c \in Controller |-> CopyOf(m)]],
    current <- crCurrent \X Controller,
    running <- {m \in Manager : pc[m] # "down"}

ASSUME NoCopyAssumption == None \notin Loop!Copy

\* As in TransportTls: every way through the handlers, the one that only
\* waits for the user's secret included, touches the shared resource once, at
\* its end, and only if nobody stored a newer one since.
LoopKept == Loop!LoopSpec

\* A resource the user deletes goes away, unless Read does not get to its
\* end: the operator's secret cannot be loaded, or the user's is not there or
\* lacks a key and is waited for even now.
Unreadable ==
    IF IsSelfManagedSecretForTlsApi(cr.endpoint) THEN own = Malformed
    ELSE ~Complete(secrets[cr.endpoint.ref])

DeletionCompletes == cr.deleting ~> ~cr.exists \/ Unreadable

\* A certificate that is due is replaced as long as the operator manages it,
\* in spite of crashes, lost answers, and turns to the user's secret and
\* back, if there is a Data map to write to and the IPs parse.
Renewable ==
    /\ cr.exists /\ ~cr.deleting
    /\ IsSelfManagedSecretForTlsApi(cr.endpoint) /\ IpsParse(cr.endpoint)
    /\ own \notin {None, Malformed} /\ NeedRenewal(own, now)

DueGetsRenewed == Renewable ~> ~Renewable

\* If they do not, no renewal ever succeeds; the condition comes to say so, and
\* does not go on claiming what an earlier reconcile concluded.
Hopeless ==
    /\ cr.exists /\ ~cr.deleting
    /\ IsSelfManagedSecretForTlsApi(cr.endpoint) /\ ~IpsParse(cr.endpoint)
    /\ own \notin {None, Malformed} /\ NeedRenewal(own, now)

FailureReported == Hopeless ~> ~Hopeless \/ cr.cond = "False"

\* Once the user has named a secret with the keys the code asks for, the
\* condition becomes True, whatever state the operator's own secret is in:
\* a renewal that ends the process does not keep the user's choice waiting.
Usable ==
    /\ cr.exists /\ ~cr.deleting
    /\ ~IsSelfManagedSecretForTlsApi(cr.endpoint)
    /\ Complete(secrets[cr.endpoint.ref])

UserSecretAccepted == Usable ~> (~Usable \/ cr.cond = "True")

-----------------------------------------------------------------------------
(* What the repository says of this reconciler and the code does not do.   *)

\* TlsSpec.CertificateSecretRef: "It need to have the following keys: tls.key,
\* tls.crt and optionally ca.crt".  Such a secret is accepted in the end.
Documented ==
    /\ cr.exists /\ ~cr.deleting
    /\ ~IsSelfManagedSecretForTlsApi(cr.endpoint)
    /\ secrets[cr.endpoint.ref] # None
    /\ {"tls.key", "tls.crt"} \subseteq secrets[cr.endpoint.ref].keys

DocumentedSecretAccepted == Documented ~> (~Documented \/ cr.cond = "True")
=============================================================================
