---------------------------- MODULE TransportTls ----------------------------
(***************************************************************************)
(* OpensearchTransportTlsReconciler: the loop that keeps the certificates  *)
(* of the transport layer, one CA, one admin certificate and one           *)
(* certificate per node, in the secret "<cluster>-os-tls-transport".       *)
(*                                                                         *)
(* One reconcile of a manager process is a sequence of steps, because each *)
(* of them can interleave with the other manager, with the API server's    *)
(* answers, with the clock and with the user:                              *)
(*                                                                         *)
(*   idle -> read -> ca -> nodes* -> admin -> write -> finish -> idle      *)
(*              \-> delete -> idle                                         *)
(*                                                                         *)
(* read is Read, ca/nodes/admin are the three checks of Diff (each reads   *)
(* the clock anew), write is Create or Update, finish is OnSuccess or      *)
(* OnError with the save of the status that follows either.  The order of  *)
(* the handlers and the save are operator-sdk-extra's.                     *)
(*                                                                         *)
(* The API server's optimistic locking is kept without its counters: what  *)
(* a writer's resourceVersion decides is whether it still is the stored    *)
(* one, so the model records just that (rv, crCurrent, synced).            *)
(***************************************************************************)
EXTENDS Pki, FiniteSets

CONSTANTS
    Node,            \* every node name the cluster ever has
    Manager,         \* manager processes reconciling at the same time
    Malformed,       \* a stored secret that Read cannot load
    SecretHasData,   \* whether corev1.Secret literals have their Data map:
                     \* FALSE is the code; TRUE shows the logic behind it
    MaxTime,         \* bound on the clock
    ForeignLife,     \* lives left to certificates that come from outside
    Budget           \* bounds on scalings, outside writes, crashes, faults

ASSUME SwitchAssumption == SecretHasData \in BOOLEAN

ASSUME BoundsAssumption ==
    /\ MaxTime \in Nat
    /\ ForeignLife \subseteq [ca : Int, node : Int, admin : Int,
                               bundled : BOOLEAN]
    /\ Budget \in [scale : Nat, outside : Nat, crash : Nat, fault : Nat]

VARIABLES
    now,        \* time.Now()
    cr,         \* the Opensearch resource: what of it this reconciler uses
    secret,     \* the stored secret: None, Malformed or its contents
    cache,      \* each manager's informer copy of the secret, may lag
    synced,     \* managers whose copy is the stored version
    pc,         \* where each manager stands
    job,        \* what a reconcile read of the resource, and its progress
    obj,        \* the secret object a reconcile holds in memory
    rv,         \* its resourceVersion: unset, live (the stored one), stale
    crCurrent,  \* managers whose copy of the resource is the stored one
    total,      \* the gauge resource_total of each process
    left        \* what is left of the budget

vars == <<now, cr, secret, cache, synced, pc, job, obj, rv, crCurrent,
          total, left>>

Cond == {"unset", "False", "True"}

Phase == {"idle", "read", "delete", "ca", "nodes", "admin", "write",
          "finish", "down"}

\* Data of the secret.  A node has its .crt, .key and .csr together (crt)
\* and a .pfx apart; the admin has both, and the .pfx may be missing from a
\* secret the operator did not write.
Contents ==
    [ca       : CACert,
     admin    : LeafCert,
     adminPfx : Pkcs12 \union {None},
     crt      : [Node -> LeafCert \union {None}],
     pfx      : [Node -> Pkcs12 \union {None}]]

\* What stands for no secret, and for one that cannot be loaded, is no secret.
ASSUME NoSecretAssumption ==
    /\ None # Malformed
    /\ None \notin Contents /\ Malformed \notin Contents

Stored == Contents \union {None, Malformed}

Job == [nodes : SUBSET Node, deleting : BOOLEAN, was : Cond, cond : Cond,
        todo : SUBSET Node, dirty : BOOLEAN]

NoJob == [nodes |-> {}, deleting |-> FALSE, was |-> "unset",
          cond |-> "unset", todo |-> {}, dirty |-> FALSE]

Resource == [exists : BOOLEAN, deleting : BOOLEAN, nodes : SUBSET Node,
             cond : Cond]

-----------------------------------------------------------------------------
\* Identities.  A certificate that is made differs from every one of its
\* subject still around; the smallest free serial stands for its key.

IsFresh(s, used) ==
    /\ s \in Serial \ used
    /\ \A t \in Serial \ used : s <= t

Copies ==
    ({secret} \union {cache[m] : m \in Manager} \union {obj[m] : m \in Manager})
        \ {None, Malformed}

CAsOf(s) == {s.ca} \union (IF s.adminPfx = None THEN {} ELSE s.adminPfx.cas)

CAIds == {c.id : c \in UNION {CAsOf(s) : s \in Copies}}

AdminIds == {s.admin.id : s \in Copies}

NodeIds(n) == {s.crt[n].id : s \in {c \in Copies : c.crt[n] # None}}

-----------------------------------------------------------------------------
\* The data written for a CA, one leaf certificate per subject (they differ
\* in their subject only) and the CAs that go in the admin bundle beside it.
Assemble(nodes, ca, crt, cas) ==
    [ca       |-> ca,
     admin    |-> crt,
     adminPfx |-> GeneratePkcs12(crt, ca, cas),
     crt      |-> [n \in Node |-> IF n \in nodes THEN crt ELSE None],
     pfx      |-> [n \in Node |->
                    IF n \in nodes THEN GeneratePkcs12(crt, ca, {}) ELSE None]]

\* A new CA and all that it signs, for the nodes of the resource and no
\* other.  A renewal also keeps, in the admin bundle, the CAs of the old
\* bundle that have not expired.
generateSecret(nodes, serial, time) ==
    LET ca == NewRootCA(serial, time)
    IN  Assemble(nodes, ca, IssueCertificate(ca, serial, time), {})

\* Fault: the loop over the nodes is left out.
renewSecret_NoNodes(nodes, oldPfx, serial, time) ==
    LET ca == NewRootCA(serial, time)
    IN  Assemble({}, ca, IssueCertificate(ca, serial, time), oldPfx.cas)

\* Fault: the admin bundle is kept with its old CAs.
renewSecret_OldBundle(nodes, oldPfx, serial, time) ==
    LET ca == NewRootCA(serial, time)
    IN  [Assemble(nodes, ca, IssueCertificate(ca, serial, time), oldPfx.cas)
            EXCEPT !.adminPfx = oldPfx]

renewSecret(nodes, oldPfx, serial, time) ==
    LET ca == NewRootCA(serial, time)
    IN  Assemble(nodes, ca, IssueCertificate(ca, serial, time),
                 {c \in oldPfx.cas : NotExpired(c, time)})

\* Fault: every node is issued a certificate, not the one that has none.
WithNode_All(s, n, serial, time) ==
    [s EXCEPT !.crt = [k \in Node |-> IssueCertificate(s.ca, serial, time)]]

\* What Diff does in place to the object it read: a node without certificate
\* gets .crt, .key and .csr; an expired admin certificate is made again,
\* its .pfx with the present CA only.
WithNode(s, n, serial, time) ==
    [s EXCEPT !.crt[n] = IssueCertificate(s.ca, serial, time)]

\* Fault: the admin bundle is not made again.
WithAdmin_OldBundle(s, serial, time) ==
    [s EXCEPT !.admin = IssueCertificate(s.ca, serial, time)]

WithAdmin(s, serial, time) ==
    LET crt == IssueCertificate(s.ca, serial, time)
    IN  [s EXCEPT !.admin = crt, !.adminPfx = GeneratePkcs12(crt, s.ca, {})]

-----------------------------------------------------------------------------
Goto(m, phase) == pc' = [pc EXCEPT ![m] = phase]

Hold(m, s, version) ==
    /\ obj' = [obj EXCEPT ![m] = s]
    /\ rv' = [rv EXCEPT ![m] = version]

\* A new version of the secret is stored: no copy is the stored one any more.
Store(s) ==
    /\ secret' = s
    /\ synced' = {}
    /\ rv' = [m \in Manager |-> IF rv[m] = "live" THEN "stale" ELSE rv[m]]

\* A new version of the resource is stored.
StoreResource(c) == cr' = c /\ crCurrent' = {}

Conclude(m, cond) ==
    /\ job' = [job EXCEPT ![m].cond = cond]
    /\ Goto(m, "finish")

OnSuccess(m) == Conclude(m, "True")
OnError(m) == Conclude(m, "False")

\* The process ends: whatever it had in memory is gone.
Die(m) ==
    /\ Goto(m, "down")
    /\ job' = [job EXCEPT ![m] = NoJob]
    /\ Hold(m, None, "unset")
    /\ cache' = [cache EXCEPT ![m] = None]
    /\ synced' = synced \ {m}
    /\ crCurrent' = crCurrent \ {m}
    /\ total' = [total EXCEPT ![m] = 0]

Outside == <<now, cr, secret, left>>        \* what a check leaves alone
Process == <<cache, synced, crCurrent, total>>

-----------------------------------------------------------------------------
(* The reconcile of a manager.                                             *)

\* Get the resource, then Configure: the condition is False if it is new.
Start(m) ==
    /\ pc[m] = "idle" /\ cr.exists
    /\ job' = [job EXCEPT ![m] =
                [nodes |-> cr.nodes, deleting |-> cr.deleting, was |-> cr.cond,
                 cond |-> IF cr.cond = "unset" THEN "False" ELSE cr.cond,
                 todo |-> {}, dirty |-> FALSE]]
    /\ crCurrent' = crCurrent \union {m}
    /\ Goto(m, "read")
    /\ UNCHANGED <<Outside, cache, synced, obj, rv, total>>

AfterRead(m) == IF job[m].deleting THEN "delete" ELSE "ca"

\* Fault: the error of loading the PKI is dropped.
Read_NoLoadError(m) ==
    /\ pc[m] = "read"
    /\ Hold(m, cache[m], IF cache[m] = None THEN "unset" ELSE "live")
    /\ job' = [job EXCEPT ![m].todo = IF cache[m] = None THEN {} ELSE job[m].nodes]
    /\ Goto(m, AfterRead(m))
    /\ UNCHANGED <<Outside, Process>>

\* Fault: a secret that is not found is an error.
Read_NotFoundIsError(m) ==
    /\ pc[m] = "read"
    /\ \/ /\ cache[m] \in {None, Malformed}
          /\ OnError(m)
          /\ UNCHANGED <<obj, rv>>
       \/ /\ cache[m] \notin {None, Malformed}
          /\ Hold(m, cache[m], IF m \in synced THEN "live" ELSE "stale")
          /\ job' = [job EXCEPT ![m].todo = job[m].nodes]
          /\ Goto(m, AfterRead(m))
    /\ UNCHANGED <<Outside, Process>>

\* Fault: what is read is copied without its resourceVersion.
Read_NoVersion(m) ==
    /\ pc[m] = "read"
    /\ \/ /\ cache[m] = None
          /\ Goto(m, AfterRead(m))
          /\ UNCHANGED <<job, obj, rv>>
       \/ /\ cache[m] \notin {None, Malformed}
          /\ Hold(m, cache[m], "unset")
          /\ job' = [job EXCEPT ![m].todo = job[m].nodes]
          /\ Goto(m, AfterRead(m))
    /\ UNCHANGED <<Outside, Process>>

Read(m) ==
    /\ pc[m] = "read"
    /\ \/ /\ cache[m] = None                          \* not found
          /\ Goto(m, AfterRead(m))
          /\ UNCHANGED <<job, obj, rv>>
       \/ /\ cache[m] = Malformed
          /\ OnError(m)
          /\ UNCHANGED <<obj, rv>>
       \/ /\ cache[m] \notin {None, Malformed}
          /\ Hold(m, cache[m], IF m \in synced THEN "live" ELSE "stale")
          /\ job' = [job EXCEPT ![m].todo = job[m].nodes]
          /\ Goto(m, AfterRead(m))
    /\ UNCHANGED <<Outside, Process>>

\* The API server does not answer the read.
ReadFails(m) ==
    /\ pc[m] = "read" /\ left.fault > 0
    /\ left' = [left EXCEPT !.fault = @ - 1]
    /\ OnError(m)
    /\ UNCHANGED <<now, cr, secret, Process, obj, rv>>

\* Delete lowers the gauge; the finalizer is then removed from the resource,
\* unless the copy it is removed from is an old one.
Delete(m) ==
    /\ pc[m] = "delete"
    /\ total' = [total EXCEPT ![m] = @ - 1]
    /\ IF cr.exists /\ m \in crCurrent
         THEN StoreResource([cr EXCEPT !.exists = FALSE])
         ELSE cr' = cr /\ crCurrent' = crCurrent \ {m}
    /\ job' = [job EXCEPT ![m] = NoJob]
    /\ Hold(m, None, "unset")
    /\ Goto(m, "idle")
    /\ UNCHANGED <<now, secret, left, cache, synced>>

\* Fault: the renewed secret is not handed over as the expected one.
Renew_NotHandedOver(m) == OnError(m) /\ UNCHANGED <<obj, rv, Process>>

\* Fault: the error of renewSecret is shadowed and lost.
Renew_ErrorLost(m) ==
    IF obj[m].adminPfx = None
      THEN OnSuccess(m) /\ UNCHANGED <<obj, rv, Process>>
      ELSE /\ \E s \in Serial :
                /\ IsFresh(s, CAIds)
                /\ Hold(m, renewSecret(job[m].nodes, obj[m].adminPfx, s, now), "unset")
           /\ Goto(m, "write")
           /\ UNCHANGED <<job, Process>>

\* renewSecret decodes the old bundle first, then fills the new secret, whose
\* Data is a nil map: the write to it is a panic that nothing recovers.
Renew(m) ==
    \/ /\ obj[m].adminPfx = None
       /\ OnError(m)
       /\ UNCHANGED <<obj, rv, Process>>
    \/ /\ obj[m].adminPfx # None /\ ~SecretHasData
       /\ Die(m)
    \/ /\ obj[m].adminPfx # None /\ SecretHasData
       /\ \E s \in Serial :
            /\ IsFresh(s, CAIds)
            /\ Hold(m, renewSecret(job[m].nodes, obj[m].adminPfx, s, now), "unset")
       /\ Goto(m, "write")
       /\ UNCHANGED <<job, Process>>

\* Diff, first part: no secret, or a CA to be renewed.
CheckCA(m) ==
    /\ pc[m] = "ca"
    /\ \/ /\ obj[m] = None /\ ~SecretHasData
          /\ Die(m)
       \/ /\ obj[m] = None /\ SecretHasData
          /\ \E s \in Serial :
               /\ IsFresh(s, CAIds)
               /\ Hold(m, generateSecret(job[m].nodes, s, now), "unset")
          /\ Goto(m, "write")
          /\ UNCHANGED <<job, Process>>
       \/ /\ obj[m] # None /\ NeedRenewCertificate(obj[m].ca, now)
          /\ Renew(m)
       \/ /\ obj[m] # None /\ ~NeedRenewCertificate(obj[m].ca, now)
          /\ Goto(m, IF job[m].todo = {} THEN "admin" ELSE "nodes")
          /\ UNCHANGED <<job, obj, rv, Process>>
    /\ UNCHANGED Outside

\* Fault: NeedUpdate is not set.
Checked_NotDirty(m, n, dirty) ==
    LET rest == job[m].todo \ {n}
    IN  /\ job' = [job EXCEPT ![m].todo = rest]
        /\ Goto(m, IF rest = {} THEN "admin" ELSE "nodes")

Checked(m, n, dirty) ==
    LET rest == job[m].todo \ {n}
    IN  /\ job' = [job EXCEPT ![m].todo = rest, ![m].dirty = @ \/ dirty]
        /\ Goto(m, IF rest = {} THEN "admin" ELSE "nodes")

\* Diff, second part: the nodes in the order of a Go map.  One that is to be
\* renewed ends the loop, and what was done to the others is thrown away.
CheckNode(m, n) ==
    /\ pc[m] = "nodes" /\ n \in job[m].todo
    /\ \/ /\ obj[m].crt[n] = None
          /\ \E s \in Serial :
               /\ IsFresh(s, NodeIds(n))
               /\ obj' = [obj EXCEPT ![m] = WithNode(obj[m], n, s, now)]
          /\ Checked(m, n, TRUE)
          /\ UNCHANGED <<rv, Process>>
       \/ /\ obj[m].crt[n] # None /\ NeedRenewCertificate(obj[m].crt[n], now)
          /\ Renew(m)
       \/ /\ obj[m].crt[n] # None /\ ~NeedRenewCertificate(obj[m].crt[n], now)
          /\ Checked(m, n, FALSE)
          /\ UNCHANGED <<obj, rv, Process>>
    /\ UNCHANGED Outside

\* Diff, third part: the admin certificate.
CheckAdmin(m) ==
    /\ pc[m] = "admin"
    /\ \/ /\ NeedRenewCertificate(obj[m].admin, now)
          /\ \E s \in Serial :
               /\ IsFresh(s, AdminIds)
               /\ obj' = [obj EXCEPT ![m] = WithAdmin(obj[m], s, now)]
          /\ Goto(m, "write")
          /\ UNCHANGED job
       \/ /\ ~NeedRenewCertificate(obj[m].admin, now) /\ job[m].dirty
          /\ Goto(m, "write")
          /\ UNCHANGED <<job, obj>>
       \/ /\ ~NeedRenewCertificate(obj[m].admin, now) /\ ~job[m].dirty
          /\ OnSuccess(m)
          /\ UNCHANGED obj
    /\ UNCHANGED <<Outside, Process, rv>>

\* Create and Update both call the client's Update, which never creates an
\* object and refuses a resourceVersion that is not the stored one.  A
\* secret just generated has no resourceVersion and is not compared.
Accepted(m) == secret # None /\ rv[m] # "stale"

\* Fault: a secret that is not there is created.
Write_Creates(m) ==
    /\ pc[m] = "write"
    /\ \/ /\ Accepted(m) \/ secret = None
          /\ Store(obj[m])
          /\ OnSuccess(m)
       \/ /\ ~Accepted(m) /\ secret # None
          /\ OnError(m)
          /\ UNCHANGED <<secret, synced, rv>>
    /\ UNCHANGED <<now, cr, left, cache, obj, crCurrent, total>>

Write(m) ==
    /\ pc[m] = "write"
    /\ \/ /\ Accepted(m)
          /\ Store(obj[m])
          /\ OnSuccess(m)
       \/ /\ ~Accepted(m)
          /\ OnError(m)
          /\ UNCHANGED <<secret, synced, rv>>
    /\ UNCHANGED <<now, cr, left, cache, obj, crCurrent, total>>

\* The write fails before it is applied, or is applied and its answer lost.
WriteFails(m) ==
    /\ pc[m] = "write" /\ left.fault > 0
    /\ left' = [left EXCEPT !.fault = @ - 1]
    /\ \/ UNCHANGED <<secret, synced, rv>>
       \/ Accepted(m) /\ Store(obj[m])
    /\ OnError(m)
    /\ UNCHANGED <<now, cr, cache, obj, crCurrent, total>>

\* Fault: the status is saved whatever has been stored since.
Finish_Overwrites(m) ==
    /\ pc[m] = "finish"
    /\ StoreResource([cr EXCEPT !.cond = job[m].cond])
    /\ job' = [job EXCEPT ![m] = NoJob]
    /\ Hold(m, None, "unset")
    /\ Goto(m, "idle")
    /\ UNCHANGED <<now, secret, left, cache, synced, total>>

\* The status is saved if it changed and the copy is the stored one.
Finish(m) ==
    /\ pc[m] = "finish"
    /\ \/ /\ job[m].cond # job[m].was /\ cr.exists /\ m \in crCurrent
          /\ StoreResource([cr EXCEPT !.cond = job[m].cond])
       \/ /\ ~(job[m].cond # job[m].was /\ cr.exists /\ m \in crCurrent)
          /\ cr' = cr /\ crCurrent' = crCurrent \ {m}
    /\ job' = [job EXCEPT ![m] = NoJob]
    /\ Hold(m, None, "unset")
    /\ Goto(m, "idle")
    /\ UNCHANGED <<now, secret, left, cache, synced, total>>

Crash(m) ==
    /\ pc[m] # "down" /\ left.crash > 0
    /\ left' = [left EXCEPT !.crash = @ - 1]
    /\ Die(m)
    /\ UNCHANGED <<now, cr, secret>>

\* The kubelet starts the process again; it waits for its caches to fill.
Restart(m) ==
    /\ pc[m] = "down"
    /\ Goto(m, "idle")
    /\ cache' = [cache EXCEPT ![m] = secret]
    /\ synced' = synced \union {m}
    /\ UNCHANGED <<Outside, job, obj, rv, crCurrent, total>>

\* The watch delivers the stored secret to the manager's cache.
Sync(m) ==
    /\ pc[m] # "down" /\ m \notin synced
    /\ cache' = [cache EXCEPT ![m] = secret]
    /\ synced' = synced \union {m}
    /\ UNCHANGED <<Outside, pc, job, obj, rv, crCurrent, total>>

-----------------------------------------------------------------------------
(* What happens around the managers.                                       *)

Reconciles == <<pc, job, obj, total>>

Tick ==
    /\ now < MaxTime
    /\ now' = now + 1
    /\ UNCHANGED <<cr, secret, cache, synced, Reconciles, rv, crCurrent, left>>

\* The user changes the node groups: any set of node names may result.
Scale ==
    /\ cr.exists /\ ~cr.deleting /\ left.scale > 0
    /\ left' = [left EXCEPT !.scale = @ - 1]
    /\ \E nodes \in SUBSET Node :
         nodes # cr.nodes /\ StoreResource([cr EXCEPT !.nodes = nodes])
    /\ UNCHANGED <<now, secret, cache, synced, Reconciles, rv>>

DeleteResource ==
    /\ cr.exists /\ ~cr.deleting
    /\ StoreResource([cr EXCEPT !.deleting = TRUE])
    /\ UNCHANGED <<now, secret, cache, synced, Reconciles, rv, left>>

\* Someone stores a secret under that name: a backup, an earlier release, a
\* hand-made PKI.  Its certificates belong together, each with a life of its
\* own left; the admin bundle may be missing; or none of it can be loaded.
Foreign(serial, life) ==
    LET ca == [id |-> serial, notAfter |-> now + life.ca]
        Leaf(l) == [id |-> serial, issuer |-> serial, notAfter |-> now + l]
        admin == Leaf(life.admin)
    IN  [Assemble(cr.nodes, ca, Leaf(life.node), {}) EXCEPT
            !.admin = admin,
            !.adminPfx = IF life.bundled THEN GeneratePkcs12(admin, ca, {})
                         ELSE None]

Provision ==
    /\ cr.exists /\ left.outside > 0
    /\ left' = [left EXCEPT !.outside = @ - 1]
    /\ \/ \E s \in Serial, life \in ForeignLife :
            IsFresh(s, CAIds) /\ Store(Foreign(s, life))
       \/ Store(Malformed)
    /\ UNCHANGED <<now, cr, cache, Reconciles, crCurrent>>

\* Someone deletes the secret, or the garbage collector does after the
\* resource that owns it is gone.
Remove ==
    /\ secret # None
    /\ \/ ~cr.exists /\ left' = left
       \/ left.outside > 0 /\ left' = [left EXCEPT !.outside = @ - 1]
    /\ Store(None)
    /\ UNCHANGED <<now, cr, cache, Reconciles, crCurrent>>

-----------------------------------------------------------------------------
Init ==
    /\ now = 0
    /\ cr \in [exists : {TRUE}, deleting : {FALSE}, nodes : SUBSET Node,
               cond : {"unset"}]
    /\ secret = None
    /\ cache = [m \in Manager |-> None]
    /\ synced = Manager
    /\ pc = [m \in Manager |-> "idle"]
    /\ job = [m \in Manager |-> NoJob]
    /\ obj = [m \in Manager |-> None]
    /\ rv = [m \in Manager |-> "unset"]
    /\ crCurrent = {}
    /\ total = [m \in Manager |-> 0]
    /\ left = Budget

\* What a manager does by itself, and what befalls it.
Reconcile(m) ==
    \/ Start(m) \/ Read(m) \/ Delete(m) \/ CheckCA(m)
    \/ \E n \in Node : CheckNode(m, n)
    \/ CheckAdmin(m) \/ Write(m) \/ Finish(m)

Failure(m) == ReadFails(m) \/ WriteFails(m) \/ Crash(m)

Environment == Tick \/ Scale \/ DeleteResource \/ Provision \/ Remove

Next ==
    \/ \E m \in Manager : Reconcile(m) \/ Failure(m) \/ Restart(m) \/ Sync(m)
    \/ Environment

Spec == Init /\ [][Next]_vars

\* The work queue retries a reconcile that failed and the informers resync,
\* so a manager that can take a step takes one; watches deliver; a process
\* that ended is started again.  Nothing is assumed of the clock, of the
\* user, or of faults.
Fairness ==
    \A m \in Manager :
        /\ WF_vars(Reconcile(m))
        /\ WF_vars(Sync(m))
        /\ WF_vars(Restart(m))

FairSpec == Spec /\ Fairness

-----------------------------------------------------------------------------
(* Properties.                                                             *)

TypeOK ==
    /\ now \in Nat
    /\ cr \in Resource
    /\ secret \in Stored
    /\ cache \in [Manager -> Stored]
    /\ synced \subseteq Manager
    /\ pc \in [Manager -> Phase]
    /\ job \in [Manager -> Job]
    /\ obj \in [Manager -> Contents \union {None}]
    /\ rv \in [Manager -> {"unset", "live", "stale"}]
    /\ crCurrent \subseteq Manager
    /\ total \in [Manager -> Int]
    /\ left \in [scale : Nat, outside : Nat, crash : Nat, fault : Nat]

\* Whatever is stored under the secret's name belongs together: the admin
\* and every node certificate are signed by the CA beside them, and each
\* bundle holds the very certificate that is mounted next to it, with that
\* CA.  Diff edits the object it read in several places before one Update.
Coherent(s) ==
    /\ s.admin.issuer = s.ca.id
    /\ s.adminPfx # None => s.adminPfx.crt = s.admin /\ s.ca \in s.adminPfx.cas
    /\ \A n \in Node : s.crt[n] # None => s.crt[n].issuer = s.ca.id
    /\ \A n \in Node :
         s.pfx[n] # None =>
             s.crt[n] # None /\ s.pfx[n] = GeneratePkcs12(s.crt[n], s.ca, {})

SecretCoherent == secret \notin {None, Malformed} => Coherent(secret)

\* A reconcile that reports success leaves every node it was asked for with
\* a certificate, and no later write under the same CA, by whatever manager
\* and from however old a copy, takes one of them away again while the
\* report is on its way into the status.
SuccessIsDurable ==
    \A m \in Manager :
        /\ pc[m] = "finish" /\ job[m].cond = "True"
        /\ secret \notin {None, Malformed}
        /\ secret.ca = obj[m].ca
        => \A n \in job[m].nodes : secret.crt[n] # None

\* Once the resource and its secret are gone, no reconcile that is still
\* under way brings the secret back.
StaysDeleted ==
    [][~cr.exists /\ secret = None => secret' = None]_<<cr, secret>>

\* The stored secret goes through one lineage of PKIs after the other:
\* under one CA certificates are only added, and a new CA replaces all of
\* them, although writers work on old copies and some writes are not
\* compared with what is stored.
Lineage == INSTANCE PkiLineage WITH
    pki <- IF secret \in {None, Malformed} THEN None
           ELSE [ca |-> secret.ca, crt |-> secret.crt]

\* None stands for nothing in the abstract specifications as well.
ASSUME NoPkiAssumption == None \notin Lineage!Lineage

LineageKept == Lineage!Spec

\* This controller's part in the protocol of the reconcile loop.
Controller == {"transport"}

CopyOf(m) ==
    IF pc[m] \in {"idle", "down"} THEN None
    ELSE [deleting |-> job[m].deleting, done |-> pc[m] = "finish",
          cond |-> [c \in Controller |-> job[m].cond]]

Loop == INSTANCE ReconcileLoop WITH
    NoCopy  <- None,
    res     <- [exists |-> cr.exists, deleting |-> cr.deleting,
                finalizers |-> IF cr.exists THEN Controller ELSE {},
                cond |-> [c \in Controller |-> cr.cond]],
    copy    <- [m \in Manager |-> [c \in Controller |-> CopyOf(m)]],
    current <- crCurrent \X Controller,
    running <- {m \in Manager : pc[m] # "down"}

ASSUME NoCopyAssumption == None \notin Loop!Copy

\* Whatever way a reconcile takes through its handlers, it touches the shared
\* resource as the loop does: once, at its end, with the status it concluded
\* or to drop its finalizer, and only if nobody stored a newer one since.
LoopKept == Loop!LoopSpec

\* A resource the user deletes goes away, with and without a secret, through
\* crashes, faults and conflicts, unless its secret cannot be loaded: Read
\* comes before Delete, and its error is the end of the reconcile.
DeletionCompletes == cr.deleting ~> ~cr.exists \/ secret = Malformed

\* A node the user adds gets its certificate, in spite of crashes, lost
\* answers, conflicts with the other manager and old caches, as long as the
\* secret can be loaded, nothing in it is due for renewal, and neither the
\* user nor the outside takes the request back.
Served(n) ==
    /\ cr.exists /\ ~cr.deleting /\ n \in cr.nodes
    /\ secret \notin {None, Malformed}
    /\ ~NeedRenewCertificate(secret.ca, now)
    /\ \A k \in Node :
         secret.crt[k] # None => ~NeedRenewCertificate(secret.crt[k], now)

NodesGetCertified ==
    \A n \in Node :
        Served(n) ~> (~Served(n) \/ secret.crt[n] # None)

\* A CA that is due is replaced with everything it signed, and so is one that
\* is not when a node's certificate is due, however often a write is refused,
\* lost or cut short: with a Data map to write to, and a bundle that can be
\* decoded, nothing stops the renewal for good.
Due ==
    /\ cr.exists /\ ~cr.deleting
    /\ secret \notin {None, Malformed}
    /\ \/ NeedRenewCertificate(secret.ca, now)
       \/ \E n \in cr.nodes :
            secret.crt[n] # None /\ NeedRenewCertificate(secret.crt[n], now)

Renewable == Due /\ secret.adminPfx # None

DueGetsRenewed == Renewable ~> ~Renewable

\* Without a bundle that can be decoded, the secret can be loaded, and even
\* extended, but no renewal ever succeeds; the condition comes to say so, and
\* does not go on claiming what a reconcile concluded before.
Hopeless == Due /\ secret.adminPfx = None

FailureReported == Hopeless ~> ~Hopeless \/ cr.cond = "False"

-----------------------------------------------------------------------------
(* What the repository says of this reconciler and the code does not do.   *)

\* Create's comment: "Create generate new TLS authorities".  A cluster that
\* stays gets its secret.
SecretGetsCreated ==
    cr.exists /\ ~cr.deleting ~> (secret # None \/ cr.deleting)

\* NeedRenewCertificate's comment: "must be renewed before it expire".  No
\* reconcile goes on with a CA that has expired.
RenewedBeforeExpiry ==
    [][\A m \in Manager :
         pc[m] = "ca" /\ pc'[m] \in {"nodes", "admin"}
             => NotExpired(obj[m].ca, now)]_vars

\* The configuration mounted in a node names its keystore <node>.pfx, so a
\* node that has a certificate has its bundle too.
NodeHasKeystore ==
    secret \notin {None, Malformed} =>
        \A n \in Node : secret.crt[n] # None => secret.pfx[n] # None
=============================================================================
