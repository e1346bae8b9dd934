------------------------- MODULE TransportTlsProofs -------------------------
(***************************************************************************)
(* TransportTls keeps its types and never stores a secret whose parts do   *)
(* not belong together, for any number of nodes and managers, any clock    *)
(* and any budget of faults, with and without the Data map.                *)
(*                                                                         *)
(* SecretCoherent is about the stored secret only.  It is inductive once   *)
(* it is said of every copy a write may come from: the caches, however far *)
(* behind, and the objects a reconcile is editing.                         *)
(***************************************************************************)
EXTENDS TransportTls, TLAPS

-----------------------------------------------------------------------------
(* The invariant.                                                          *)

Sound(s) == s \notin {None, Malformed} => Coherent(s)

AllSound ==
    /\ Sound(secret)
    /\ \A m \in Manager : Sound(cache[m])
    /\ \A m \in Manager : obj[m] # None => Coherent(obj[m])

\* Past the first check of Diff a reconcile has a secret to work on.
Holding ==
    \A m \in Manager :
        pc[m] \in {"nodes", "admin", "write"} =>
            obj[m] \in Contents /\ Coherent(obj[m])

IInv == TypeOK /\ Holding /\ AllSound

-----------------------------------------------------------------------------
(* The operators on certificates and secrets.                              *)

\* A root made from a serial is a CA certificate.
LEMMA NewRootCAType ==
    ASSUME NEW s \in Serial, NEW t \in Nat
    PROVE  NewRootCA(s, t) \in CACert
BY ValidityAssumption DEF NewRootCA, CACert

\* What a CA issues is a certificate that names it.
LEMMA IssueCertificateType ==
    ASSUME NEW ca \in CACert, NEW s \in Serial, NEW t \in Nat
    PROVE  /\ IssueCertificate(ca, s, t) \in LeafCert
           /\ IssueCertificate(ca, s, t).issuer = ca.id
BY ValidityAssumption DEF IssueCertificate, CACert, LeafCert

\* A bundle of a certificate and CAs is a PKCS#12 that holds just them.
LEMMA GeneratePkcs12Type ==
    ASSUME NEW crt \in LeafCert, NEW ca \in CACert, NEW cas \in SUBSET CACert
    PROVE  /\ GeneratePkcs12(crt, ca, cas) \in Pkcs12
           /\ GeneratePkcs12(crt, ca, cas).crt = crt
           /\ ca \in GeneratePkcs12(crt, ca, cas).cas
BY DEF GeneratePkcs12, Pkcs12

\* A secret assembled from a CA and a certificate it signed is coherent.
LEMMA AssembleSound ==
    ASSUME NEW nodes \in SUBSET Node, NEW ca \in CACert, NEW crt \in LeafCert,
           NEW cas \in SUBSET CACert, crt.issuer = ca.id
    PROVE  /\ Assemble(nodes, ca, crt, cas) \in Contents
           /\ Coherent(Assemble(nodes, ca, crt, cas))
<1>1. GeneratePkcs12(crt, ca, cas) \in Pkcs12 /\ GeneratePkcs12(crt, ca, {}) \in Pkcs12
  BY GeneratePkcs12Type
<1>2. /\ GeneratePkcs12(crt, ca, cas).crt = crt
      /\ ca \in GeneratePkcs12(crt, ca, cas).cas
  BY GeneratePkcs12Type
<1>3. Assemble(nodes, ca, crt, cas) \in Contents
  BY <1>1 DEF Assemble, Contents
<1>4. Coherent(Assemble(nodes, ca, crt, cas))
  BY <1>2, NoneAssumption DEF Assemble, Coherent
<1> QED BY <1>3, <1>4

\* generateSecret and renewSecret make coherent secrets.
LEMMA GenerateSecretSound ==
    ASSUME NEW nodes \in SUBSET Node, NEW s \in Serial, NEW t \in Nat
    PROVE  /\ generateSecret(nodes, s, t) \in Contents
           /\ Coherent(generateSecret(nodes, s, t))
BY NewRootCAType, IssueCertificateType, AssembleSound DEF generateSecret

LEMMA RenewSecretSound ==
    ASSUME NEW nodes \in SUBSET Node, NEW pfx \in Pkcs12, NEW s \in Serial,
           NEW t \in Nat
    PROVE  /\ renewSecret(nodes, pfx, s, t) \in Contents
           /\ Coherent(renewSecret(nodes, pfx, s, t))
<1>1. {c \in pfx.cas : NotExpired(c, t)} \in SUBSET CACert
  BY DEF Pkcs12
<1> QED
  BY <1>1, NewRootCAType, IssueCertificateType, AssembleSound DEF renewSecret

\* Giving a certificate to a node that has none keeps the secret coherent.
LEMMA WithNodeSound ==
    ASSUME NEW c \in Contents, Coherent(c), NEW n \in Node, c.crt[n] = None,
           NEW s \in Serial, NEW t \in Nat
    PROVE  /\ WithNode(c, n, s, t) \in Contents
           /\ Coherent(WithNode(c, n, s, t))
<1> DEFINE new == IssueCertificate(c.ca, s, t)
<1>1. c.ca \in CACert
  BY DEF Contents
<1>2. new \in LeafCert /\ new.issuer = c.ca.id
  BY <1>1, IssueCertificateType
<1> HIDE DEF new
<1> DEFINE r == [c EXCEPT !.crt[n] = new]
<1>3. WithNode(c, n, s, t) = r
  BY DEF WithNode, new
<1>4. r \in Contents
  BY <1>2 DEF Contents
<1>5. Coherent(r)
  BY <1>2, NoneAssumption DEF Coherent, Contents
<1> QED BY <1>3, <1>4, <1>5

\* So does making the admin certificate again, with its bundle.
LEMMA WithAdminSound ==
    ASSUME NEW c \in Contents, Coherent(c), NEW s \in Serial, NEW t \in Nat
    PROVE  /\ WithAdmin(c, s, t) \in Contents
           /\ Coherent(WithAdmin(c, s, t))
<1> DEFINE new == IssueCertificate(c.ca, s, t)
           pfx == GeneratePkcs12(new, c.ca, {})
<1>1. c.ca \in CACert
  BY DEF Contents
<1>2. new \in LeafCert /\ new.issuer = c.ca.id
  BY <1>1, IssueCertificateType
<1>3. pfx \in Pkcs12 /\ pfx.crt = new /\ c.ca \in pfx.cas
  BY <1>1, <1>2, GeneratePkcs12Type
<1> HIDE DEF new, pfx
<1> DEFINE r == [c EXCEPT !.admin = new, !.adminPfx = pfx]
<1>4. WithAdmin(c, s, t) = r
  BY DEF WithAdmin, new, pfx
<1>5. r \in Contents
  BY <1>2, <1>3 DEF Contents
<1>6. Coherent(r)
  BY <1>2, <1>3 DEF Coherent, Contents
<1> QED BY <1>4, <1>5, <1>6

\* A secret from outside is coherent by what is assumed of it.
LEMMA ForeignSound ==
    ASSUME NEW s \in Serial, NEW life \in ForeignLife, TypeOK
    PROVE  Foreign(s, life) \in Contents /\ Coherent(Foreign(s, life))
<1> DEFINE ca == [id |-> s, notAfter |-> now + life.ca]
           leaf == [id |-> s, issuer |-> s, notAfter |-> now + life.node]
           admin == [id |-> s, issuer |-> s, notAfter |-> now + life.admin]
           pfx == IF life.bundled THEN GeneratePkcs12(admin, ca, {}) ELSE None
           base == Assemble(cr.nodes, ca, leaf, {})
<1>1. now \in Int /\ life.ca \in Int /\ life.node \in Int /\ life.admin \in Int
  BY BoundsAssumption DEF TypeOK
<1>2. ca \in CACert /\ leaf \in LeafCert /\ admin \in LeafCert
  BY <1>1 DEF CACert, LeafCert
<1>3. cr.nodes \in SUBSET Node
  BY DEF TypeOK, Resource
<1>4. leaf.issuer = ca.id /\ admin.issuer = ca.id
  OBVIOUS
<1> HIDE DEF ca, leaf, admin
<1>5. base \in Contents /\ Coherent(base) /\ base.ca = ca
  BY <1>2, <1>3, <1>4, AssembleSound DEF Assemble
<1>6. pfx \in Pkcs12 \union {None}
      /\ (pfx # None => pfx.crt = admin /\ ca \in pfx.cas)
  BY <1>2, GeneratePkcs12Type
<1>7. Foreign(s, life) = [base EXCEPT !.admin = admin, !.adminPfx = pfx]
  BY DEF Foreign, ca, leaf, admin
<1> HIDE DEF base, pfx
<1>8. [base EXCEPT !.admin = admin, !.adminPfx = pfx] \in Contents
  BY <1>2, <1>5, <1>6 DEF Contents
<1>9. Coherent([base EXCEPT !.admin = admin, !.adminPfx = pfx])
  BY <1>4, <1>5, <1>6 DEF Coherent, Contents
<1> QED BY <1>7, <1>8, <1>9

-----------------------------------------------------------------------------
(* The resource and the progress of a reconcile.                           *)

\* The resource stays one under the updates that are made of it.
LEMMA ResourceType ==
    ASSUME NEW c \in Resource
    PROVE  /\ [c EXCEPT !.exists = FALSE] \in Resource
           /\ [c EXCEPT !.deleting = TRUE] \in Resource
           /\ \A nodes \in SUBSET Node : [c EXCEPT !.nodes = nodes] \in Resource
<1>1. [c EXCEPT !.exists = FALSE] \in Resource
  BY DEF Resource
<1>2. [c EXCEPT !.deleting = TRUE] \in Resource
  BY DEF Resource
<1>3. \A nodes \in SUBSET Node : [c EXCEPT !.nodes = nodes] \in Resource
  BY DEF Resource
<1> QED BY <1>1, <1>2, <1>3

\* Progress stays progress when nodes are ticked off.
LEMMA JobType ==
    ASSUME NEW j \in Job, NEW rest \in SUBSET Node, NEW dirty \in BOOLEAN
    PROVE  [j EXCEPT !.todo = rest, !.dirty = @ \/ dirty] \in Job
<1> DEFINE either == j.dirty \/ dirty
<1>1. either \in BOOLEAN
  BY DEF Job
<1>2. [j EXCEPT !.todo = rest, !.dirty = either]
          = [j EXCEPT !.todo = rest, !.dirty = @ \/ dirty]
  OBVIOUS
<1> HIDE DEF either
<1>3. [j EXCEPT !.todo = rest, !.dirty = either] \in Job
  BY <1>1 DEF Job
<1> QED BY <1>2, <1>3

-----------------------------------------------------------------------------
(* The parts that several actions are made of.                             *)

\* The process of a manager ends.
LEMMA DieStep ==
    ASSUME IInv, NEW m \in Manager, Die(m), secret' = secret, cr' = cr,
           now' = now, left' \in [scale : Nat, outside : Nat, crash : Nat, fault : Nat]
    PROVE  IInv'
<1>1. TypeOK'
  BY DEF Die, Goto, Hold, NoJob, IInv, TypeOK, Phase, Job, Cond, Stored
<1>2. Holding'
  BY DEF Die, Goto, Hold, IInv, TypeOK, Holding, Phase
<1>3. AllSound'
  BY DEF Die, Hold, IInv, TypeOK, AllSound, Sound
<1> QED BY <1>1, <1>2, <1>3 DEF IInv

\* A reconcile is over, with or without success, and nothing but its own
\* progress has changed.
LEMMA ConcludeStep ==
    ASSUME IInv, NEW m \in Manager, NEW cond \in Cond, Conclude(m, cond),
           UNCHANGED <<now, cr, secret, cache, synced, obj, rv, crCurrent, total>>,
           left' \in [scale : Nat, outside : Nat, crash : Nat, fault : Nat]
    PROVE  IInv'
<1>1. TypeOK'
  BY DEF Conclude, Goto, IInv, TypeOK, Phase, Job
<1>2. Holding'
  BY DEF Conclude, Goto, IInv, TypeOK, Holding, Phase
<1>3. AllSound'
  BY DEF IInv, AllSound, Sound
<1> QED BY <1>1, <1>2, <1>3 DEF IInv

\* A reconcile puts a coherent secret in the place of the one it holds.
LEMMA HoldStep ==
    ASSUME IInv, NEW m \in Manager, NEW s \in Contents, Coherent(s),
           NEW phase \in Phase, Goto(m, phase),
           obj' = [obj EXCEPT ![m] = s],
           rv' \in [Manager -> {"unset", "live", "stale"}],
           job' \in [Manager -> Job],
           UNCHANGED <<now, cr, secret, cache, synced, crCurrent, total, left>>
    PROVE  IInv'
<1>1. TypeOK'
  BY DEF Goto, IInv, TypeOK
<1>2. Holding'
  BY DEF Goto, IInv, TypeOK, Holding
<1>3. AllSound'
  BY DEF IInv, TypeOK, AllSound, Sound
<1> QED BY <1>1, <1>2, <1>3 DEF IInv

\* A reconcile moves on with what it holds.
LEMMA MoveStep ==
    ASSUME IInv, NEW m \in Manager, NEW phase \in Phase, Goto(m, phase),
           phase \in {"nodes", "admin", "write"} =>
               obj[m] \in Contents /\ Coherent(obj[m]),
           job' \in [Manager -> Job],
           UNCHANGED <<now, cr, secret, cache, synced, obj, rv, crCurrent,
                       total, left>>
    PROVE  IInv'
<1>1. TypeOK'
  BY DEF Goto, IInv, TypeOK
<1>2. Holding'
  BY DEF Goto, IInv, TypeOK, Holding
<1>3. AllSound'
  BY DEF IInv, AllSound, Sound
<1> QED BY <1>1, <1>2, <1>3 DEF IInv

\* A reconcile gives up what it holds and becomes idle.
LEMMA IdleStep ==
    ASSUME IInv, NEW m \in Manager, Goto(m, "idle"), Hold(m, None, "unset"),
           job' = [job EXCEPT ![m] = NoJob],
           cr' \in Resource, crCurrent' \subseteq Manager,
           total' \in [Manager -> Int],
           UNCHANGED <<now, secret, cache, synced, left>>
    PROVE  IInv'
<1>1. TypeOK'
  BY DEF Goto, Hold, NoJob, IInv, TypeOK, Phase, Job, Cond
<1>2. Holding'
  BY DEF Goto, Hold, IInv, TypeOK, Holding
<1>3. AllSound'
  BY DEF Hold, IInv, TypeOK, AllSound, Sound
<1> QED BY <1>1, <1>2, <1>3 DEF IInv

\* A coherent secret, an unloadable one or none is stored.
LEMMA StoreStep ==
    ASSUME IInv, NEW s \in Stored, Sound(s), Store(s),
           pc' \in [Manager -> Phase], job' \in [Manager -> Job],
           \A m \in Manager : pc'[m] \in {"nodes", "admin", "write"} => pc'[m] = pc[m],
           left' \in [scale : Nat, outside : Nat, crash : Nat, fault : Nat],
           UNCHANGED <<now, cr, cache, obj, crCurrent, total>>
    PROVE  IInv'
<1>1. TypeOK'
  BY DEF Store, IInv, TypeOK
<1>2. Holding'
  BY DEF IInv, TypeOK, Holding
<1>3. AllSound'
  BY DEF Store, IInv, TypeOK, AllSound, Sound
<1> QED BY <1>1, <1>2, <1>3 DEF IInv

\* A manager's cache takes over the stored secret.
LEMMA CacheStep ==
    ASSUME IInv, NEW m \in Manager, cache' = [cache EXCEPT ![m] = secret],
           synced' = synced \union {m},
           pc' = pc \/ pc' = [pc EXCEPT ![m] = "idle"],
           UNCHANGED <<now, cr, secret, job, obj, rv, crCurrent, total, left>>
    PROVE  IInv'
<1>1. TypeOK'
  BY DEF IInv, TypeOK, Phase
<1>2. Holding'
  BY DEF IInv, TypeOK, Holding
<1>3. AllSound'
  BY DEF IInv, TypeOK, AllSound, Sound
<1> QED BY <1>1, <1>2, <1>3 DEF IInv

\* The clock, the resource or the budget changes, and nothing else.
LEMMA OutsideStep ==
    ASSUME IInv, now' \in Nat, cr' \in Resource, crCurrent' \subseteq Manager,
           left' \in [scale : Nat, outside : Nat, crash : Nat, fault : Nat],
           UNCHANGED <<secret, cache, synced, pc, job, obj, rv, total>>
    PROVE  IInv'
<1>1. TypeOK'
  BY DEF IInv, TypeOK
<1>2. Holding' /\ AllSound'
  BY DEF IInv, Holding, AllSound, Sound
<1> QED BY <1>1, <1>2 DEF IInv

-----------------------------------------------------------------------------
(* The actions.                                                            *)

LEMMA StartStep ==
    ASSUME IInv, NEW m \in Manager, Start(m)
    PROVE  IInv'
<1>1. job' \in [Manager -> Job]
  BY DEF Start, IInv, TypeOK, Job, Resource, Cond
<1>2. TypeOK'
  BY <1>1 DEF Start, Goto, Outside, IInv, TypeOK, Phase
<1>3. Holding'
  BY DEF Start, Goto, IInv, TypeOK, Holding
<1>4. AllSound'
  BY DEF Start, Outside, IInv, AllSound, Sound
<1> QED BY <1>2, <1>3, <1>4 DEF IInv

LEMMA ReadStep ==
    ASSUME IInv, NEW m \in Manager, Read(m)
    PROVE  IInv'
<1>1. AfterRead(m) \in Phase /\ AfterRead(m) \notin {"nodes", "admin", "write"}
  BY DEF AfterRead, Phase
<1>2. CASE cache[m] = None /\ Goto(m, AfterRead(m)) /\ UNCHANGED <<job, obj, rv>>
  <2>1. job' \in [Manager -> Job]
    BY <1>2 DEF IInv, TypeOK
  <2> QED BY <1>1, <1>2, <2>1, MoveStep DEF Read, Outside, Process
<1>3. CASE OnError(m) /\ UNCHANGED <<obj, rv>>
  <2>1. left' \in [scale : Nat, outside : Nat, crash : Nat, fault : Nat]
    BY DEF Read, Outside, IInv, TypeOK
  <2> QED BY <1>3, <2>1, ConcludeStep DEF Read, Outside, Process, OnError, Cond
<1>4. CASE /\ cache[m] \notin {None, Malformed}
           /\ Hold(m, cache[m], IF m \in synced THEN "live" ELSE "stale")
           /\ job' = [job EXCEPT ![m].todo = job[m].nodes]
           /\ Goto(m, AfterRead(m))
  <2>1. cache[m] \in Contents /\ Coherent(cache[m])
    BY <1>4 DEF IInv, TypeOK, Stored, AllSound, Sound
  <2>2. job' \in [Manager -> Job]
    BY <1>4 DEF IInv, TypeOK, Job
  <2>3. rv' \in [Manager -> {"unset", "live", "stale"}]
    BY <1>4 DEF Hold, IInv, TypeOK
  <2> QED BY <1>1, <1>4, <2>1, <2>2, <2>3, HoldStep DEF Read, Hold, Outside, Process
<1> QED BY <1>2, <1>3, <1>4 DEF Read

LEMMA DeleteStep ==
    ASSUME IInv, NEW m \in Manager, Delete(m)
    PROVE  IInv'
<1>1. cr' \in Resource /\ crCurrent' \subseteq Manager
  BY ResourceType DEF Delete, StoreResource, IInv, TypeOK
<1>2. total' \in [Manager -> Int]
  BY DEF Delete, IInv, TypeOK
<1> QED BY <1>1, <1>2, IdleStep DEF Delete

\* The outcomes of a renewal: an error, the end of the process, a new secret.
LEMMA RenewStep ==
    ASSUME IInv, NEW m \in Manager, obj[m] \in Contents, Renew(m),
           UNCHANGED Outside
    PROVE  IInv'
<1>1. left' \in [scale : Nat, outside : Nat, crash : Nat, fault : Nat]
  BY DEF Outside, IInv, TypeOK
<1>2. CASE OnError(m) /\ UNCHANGED <<obj, rv, Process>>
  BY <1>1, <1>2, ConcludeStep DEF Outside, Process, OnError, Cond
<1>3. CASE Die(m)
  BY <1>1, <1>3, DieStep DEF Outside
<1>4. ASSUME NEW s \in Serial, obj[m].adminPfx # None,
             Hold(m, renewSecret(job[m].nodes, obj[m].adminPfx, s, now), "unset"),
             Goto(m, "write"), UNCHANGED <<job, Process>>
      PROVE  IInv'
  <2> DEFINE r == renewSecret(job[m].nodes, obj[m].adminPfx, s, now)
  <2>1. job[m].nodes \in SUBSET Node /\ now \in Nat
    BY DEF IInv, TypeOK, Job
  <2>2. obj[m].adminPfx \in Pkcs12
    BY <1>4 DEF Contents
  <2>3. r \in Contents /\ Coherent(r)
    BY <2>1, <2>2, RenewSecretSound
  <2>4. rv' \in [Manager -> {"unset", "live", "stale"}] /\ job' \in [Manager -> Job]
    BY <1>4 DEF Hold, IInv, TypeOK
  <2>5. "write" \in Phase
    BY DEF Phase
  <2> HIDE DEF r
  <2>6. obj' = [obj EXCEPT ![m] = r]
    BY <1>4 DEF Hold, r
  <2> QED BY <1>4, <2>3, <2>4, <2>5, <2>6, HoldStep DEF Outside, Process
<1> QED BY <1>2, <1>3, <1>4 DEF Renew

LEMMA CheckCAStep ==
    ASSUME IInv, NEW m \in Manager, CheckCA(m)
    PROVE  IInv'
<1>1. left' \in [scale : Nat, outside : Nat, crash : Nat, fault : Nat]
  BY DEF CheckCA, Outside, IInv, TypeOK
<1>2. CASE Die(m)
  BY <1>1, <1>2, DieStep DEF CheckCA, Outside
<1>3. ASSUME NEW s \in Serial, Hold(m, generateSecret(job[m].nodes, s, now), "unset"),
             Goto(m, "write"), UNCHANGED <<job, Process>>
      PROVE  IInv'
  <2> DEFINE r == generateSecret(job[m].nodes, s, now)
  <2>1. job[m].nodes \in SUBSET Node /\ now \in Nat
    BY DEF IInv, TypeOK, Job
  <2>2. r \in Contents /\ Coherent(r)
    BY <2>1, GenerateSecretSound
  <2>3. rv' \in [Manager -> {"unset", "live", "stale"}] /\ job' \in [Manager -> Job]
    BY <1>3 DEF Hold, IInv, TypeOK
  <2>4. "write" \in Phase
    BY DEF Phase
  <2> HIDE DEF r
  <2>5. obj' = [obj EXCEPT ![m] = r]
    BY <1>3 DEF Hold, r
  <2> QED BY <1>3, <2>2, <2>3, <2>4, <2>5, HoldStep DEF CheckCA, Outside, Process
<1>4. CASE obj[m] # None /\ Renew(m)
  <2>1. obj[m] \in Contents
    BY <1>4 DEF IInv, TypeOK
  <2> QED BY <1>4, <2>1, RenewStep DEF CheckCA
<1>5. CASE /\ obj[m] # None
           /\ Goto(m, IF job[m].todo = {} THEN "admin" ELSE "nodes")
           /\ UNCHANGED <<job, obj, rv, Process>>
  <2> DEFINE phase == IF job[m].todo = {} THEN "admin" ELSE "nodes"
  <2>1. phase \in Phase /\ job' \in [Manager -> Job]
    BY <1>5 DEF IInv, TypeOK, Phase
  <2>2. obj[m] \in Contents /\ Coherent(obj[m])
    BY <1>5 DEF IInv, TypeOK, AllSound
  <2> QED BY <1>5, <2>1, <2>2, MoveStep DEF CheckCA, Outside, Process
<1> QED BY <1>2, <1>3, <1>4, <1>5 DEF CheckCA

LEMMA CheckNodeStep ==
    ASSUME IInv, NEW m \in Manager, NEW n \in Node, CheckNode(m, n)
    PROVE  IInv'
<1> DEFINE phase == IF job[m].todo \ {n} = {} THEN "admin" ELSE "nodes"
<1>1. obj[m] \in Contents /\ Coherent(obj[m])
  BY DEF CheckNode, IInv, Holding
<1>2. phase \in Phase
  BY DEF Phase
<1>3. ASSUME NEW dirty \in BOOLEAN, Checked(m, n, dirty)
      PROVE  job' \in [Manager -> Job] /\ Goto(m, phase)
  <2> DEFINE j == [job[m] EXCEPT !.todo = job[m].todo \ {n}, !.dirty = @ \/ dirty]
  <2>1. job[m] \in Job /\ job[m].todo \ {n} \in SUBSET Node
    BY DEF IInv, TypeOK, Job
  <2>2. j \in Job
    BY <2>1, JobType
  <2>3. job' = [job EXCEPT ![m] = j] /\ Goto(m, phase)
    BY <1>3 DEF Checked
  <2> HIDE DEF j
  <2> QED BY <2>2, <2>3 DEF IInv, TypeOK
<1>4. ASSUME NEW s \in Serial, obj[m].crt[n] = None, Checked(m, n, TRUE),
             obj' = [obj EXCEPT ![m] = WithNode(obj[m], n, s, now)],
             UNCHANGED <<rv, Process>>
      PROVE  IInv'
  <2>1. now \in Nat /\ rv' \in [Manager -> {"unset", "live", "stale"}]
    BY <1>4 DEF IInv, TypeOK
  <2>2. WithNode(obj[m], n, s, now) \in Contents
        /\ Coherent(WithNode(obj[m], n, s, now))
    BY <1>1, <1>4, <2>1, WithNodeSound
  <2>3. job' \in [Manager -> Job] /\ Goto(m, phase)
    BY <1>3, <1>4
  <2> HIDE DEF phase
  <2> QED BY <1>2, <1>4, <2>1, <2>2, <2>3, HoldStep
          DEF CheckNode, Outside, Process
<1>5. CASE Renew(m)
  BY <1>1, <1>5, RenewStep DEF CheckNode
<1>6. CASE Checked(m, n, FALSE) /\ UNCHANGED <<obj, rv, Process>>
  <2>1. job' \in [Manager -> Job] /\ Goto(m, phase)
    BY <1>3, <1>6
  <2> HIDE DEF phase
  <2> QED BY <1>1, <1>2, <1>6, <2>1, MoveStep DEF CheckNode, Outside, Process
<1> QED BY <1>4, <1>5, <1>6 DEF CheckNode

LEMMA CheckAdminStep ==
    ASSUME IInv, NEW m \in Manager, CheckAdmin(m)
    PROVE  IInv'
<1>1. obj[m] \in Contents /\ Coherent(obj[m])
  BY DEF CheckAdmin, IInv, Holding
<1>2. "write" \in Phase
  BY DEF Phase
<1>3. ASSUME NEW s \in Serial,
             obj' = [obj EXCEPT ![m] = WithAdmin(obj[m], s, now)],
             Goto(m, "write"), UNCHANGED job
      PROVE  IInv'
  <2>1. now \in Nat /\ job' \in [Manager -> Job]
        /\ rv' \in [Manager -> {"unset", "live", "stale"}]
    BY <1>3 DEF CheckAdmin, IInv, TypeOK
  <2>2. WithAdmin(obj[m], s, now) \in Contents
        /\ Coherent(WithAdmin(obj[m], s, now))
    BY <1>1, <2>1, WithAdminSound
  <2> QED BY <1>2, <1>3, <2>1, <2>2, HoldStep DEF CheckAdmin, Outside, Process
<1>4. CASE Goto(m, "write") /\ UNCHANGED <<job, obj>>
  <2>1. job' \in [Manager -> Job]
    BY <1>4 DEF IInv, TypeOK
  <2> QED BY <1>1, <1>2, <1>4, <2>1, MoveStep DEF CheckAdmin, Outside, Process
<1>5. CASE OnSuccess(m) /\ UNCHANGED obj
  <2>1. left' \in [scale : Nat, outside : Nat, crash : Nat, fault : Nat]
    BY DEF CheckAdmin, Outside, IInv, TypeOK
  <2> QED BY <1>5, <2>1, ConcludeStep
          DEF CheckAdmin, Outside, Process, OnSuccess, Cond
<1> QED BY <1>3, <1>4, <1>5 DEF CheckAdmin

\* A write stores what the reconcile holds, or nothing.
LEMMA StoreOrNot ==
    ASSUME IInv, NEW m \in Manager, pc[m] = "write", NEW cond \in Cond,
           Conclude(m, cond),
           Store(obj[m]) \/ UNCHANGED <<secret, synced, rv>>,
           left' \in [scale : Nat, outside : Nat, crash : Nat, fault : Nat],
           UNCHANGED <<now, cr, cache, obj, crCurrent, total>>
    PROVE  IInv'
<1>1. CASE Store(obj[m])
  <2>1. obj[m] \in Stored /\ Sound(obj[m])
    BY DEF IInv, Holding, Stored, Sound
  <2>2. pc' \in [Manager -> Phase] /\ job' \in [Manager -> Job]
    BY DEF Conclude, Goto, IInv, TypeOK, Phase, Job
  <2>3. \A k \in Manager : pc'[k] \in {"nodes", "admin", "write"} => pc'[k] = pc[k]
    BY DEF Conclude, Goto, IInv, TypeOK
  <2> QED BY <1>1, <2>1, <2>2, <2>3, StoreStep
<1>2. CASE UNCHANGED <<secret, synced, rv>>
  BY <1>2, ConcludeStep
<1> QED BY <1>1, <1>2

LEMMA WriteStep ==
    ASSUME IInv, NEW m \in Manager, Write(m)
    PROVE  IInv'
<1>1. left' \in [scale : Nat, outside : Nat, crash : Nat, fault : Nat]
  BY DEF Write, IInv, TypeOK
<1> QED BY <1>1, StoreOrNot DEF Write, OnSuccess, OnError, Cond

LEMMA WriteFailsStep ==
    ASSUME IInv, NEW m \in Manager, WriteFails(m)
    PROVE  IInv'
<1>1. left' \in [scale : Nat, outside : Nat, crash : Nat, fault : Nat]
  BY DEF WriteFails, IInv, TypeOK
<1> QED BY <1>1, StoreOrNot DEF WriteFails, OnError, Cond

LEMMA ReadFailsStep ==
    ASSUME IInv, NEW m \in Manager, ReadFails(m)
    PROVE  IInv'
<1>1. left' \in [scale : Nat, outside : Nat, crash : Nat, fault : Nat]
  BY DEF ReadFails, IInv, TypeOK
<1> QED BY <1>1, ConcludeStep DEF ReadFails, Process, OnError, Cond

LEMMA FinishStep ==
    ASSUME IInv, NEW m \in Manager, Finish(m)
    PROVE  IInv'
<1>1. cr' \in Resource /\ crCurrent' \subseteq Manager
  BY DEF Finish, StoreResource, IInv, TypeOK, Resource, Job
<1>2. total' \in [Manager -> Int]
  BY DEF Finish, IInv, TypeOK
<1> QED BY <1>1, <1>2, IdleStep DEF Finish

LEMMA ProcessStep ==
    ASSUME IInv, NEW m \in Manager, Crash(m) \/ Restart(m) \/ Sync(m)
    PROVE  IInv'
<1>1. CASE Crash(m)
  <2>1. left' \in [scale : Nat, outside : Nat, crash : Nat, fault : Nat]
    BY <1>1 DEF Crash, IInv, TypeOK
  <2> QED BY <1>1, <2>1, DieStep DEF Crash
<1>2. CASE Restart(m)
  BY <1>2, CacheStep DEF Restart, Goto, Outside
<1>3. CASE Sync(m)
  BY <1>3, CacheStep DEF Sync, Outside
<1> QED BY <1>1, <1>2, <1>3

LEMMA EnvironmentStep ==
    ASSUME IInv, Environment
    PROVE  IInv'
<1>1. CASE Tick \/ Scale \/ DeleteResource
  <2>1. now' \in Nat /\ crCurrent' \subseteq Manager
    BY <1>1 DEF Tick, Scale, DeleteResource, StoreResource, IInv, TypeOK
  <2>2. left' \in [scale : Nat, outside : Nat, crash : Nat, fault : Nat]
    BY <1>1 DEF Tick, Scale, DeleteResource, IInv, TypeOK
  <2>3. cr' \in Resource
    <3>1. CASE Tick
      BY <3>1 DEF Tick, IInv, TypeOK
    <3>2. CASE Scale
      <4>1. PICK nodes \in SUBSET Node : cr' = [cr EXCEPT !.nodes = nodes]
        BY <3>2, Zenon DEF Scale, StoreResource
      <4>2. cr \in Resource
        BY DEF IInv, TypeOK
      <4> QED BY <4>1, <4>2, ResourceType
    <3>3. CASE DeleteResource
      BY <3>3, ResourceType DEF DeleteResource, StoreResource, IInv, TypeOK
    <3> QED BY <1>1, <3>1, <3>2, <3>3
  <2> QED BY <1>1, <2>1, <2>2, <2>3, OutsideStep
          DEF Tick, Scale, DeleteResource, StoreResource, Reconciles
<1>2. ASSUME NEW s \in Stored, Sound(s), Store(s), UNCHANGED Reconciles,
             left' \in [scale : Nat, outside : Nat, crash : Nat, fault : Nat],
             UNCHANGED <<now, cr, cache, crCurrent>>
      PROVE  IInv'
  <2>1. pc' \in [Manager -> Phase] /\ job' \in [Manager -> Job]
    BY <1>2 DEF Reconciles, IInv, TypeOK
  <2> QED BY <1>2, <2>1, StoreStep DEF Reconciles
<1>3. CASE Provision
  <2>1. left' \in [scale : Nat, outside : Nat, crash : Nat, fault : Nat]
    BY <1>3 DEF Provision, IInv, TypeOK
  <2>2. ASSUME NEW s \in Serial, NEW life \in ForeignLife, Store(Foreign(s, life))
        PROVE  IInv'
    <3>1. Foreign(s, life) \in Stored /\ Sound(Foreign(s, life))
      BY ForeignSound DEF IInv, Stored, Sound
    <3> QED BY <1>2, <1>3, <2>1, <2>2, <3>1 DEF Provision
  <2>3. CASE Store(Malformed)
    <3>1. Malformed \in Stored /\ Sound(Malformed)
      BY DEF Stored, Sound
    <3> QED BY <1>2, <1>3, <2>1, <2>3, <3>1 DEF Provision
  <2> QED BY <1>3, <2>2, <2>3 DEF Provision
<1>4. CASE Remove
  <2>1. left' \in [scale : Nat, outside : Nat, crash : Nat, fault : Nat]
    BY <1>4 DEF Remove, IInv, TypeOK
  <2>2. None \in Stored /\ Sound(None)
    BY DEF Stored, Sound
  <2> QED BY <1>2, <1>4, <2>1, <2>2 DEF Remove
<1> QED BY <1>1, <1>3, <1>4 DEF Environment

-----------------------------------------------------------------------------
(* The theorems.                                                           *)

LEMMA InitIInv == Init => IInv
<1> SUFFICES ASSUME Init PROVE IInv
  OBVIOUS
<1>1. cr \in Resource
  BY DEF Init, Resource, Cond
<1>2. NoJob \in Job
  BY DEF NoJob, Job, Cond
<1>3. TypeOK
  BY <1>1, <1>2, BoundsAssumption DEF Init, TypeOK, Stored, Phase
<1>4. Holding /\ AllSound
  BY DEF Init, Holding, AllSound, Sound
<1> QED BY <1>3, <1>4 DEF IInv

LEMMA NextIInv == IInv /\ [Next]_vars => IInv'
<1> SUFFICES ASSUME IInv, [Next]_vars PROVE IInv'
  OBVIOUS
<1>1. ASSUME NEW m \in Manager, Reconcile(m) PROVE IInv'
  BY <1>1, StartStep, ReadStep, DeleteStep, CheckCAStep, CheckNodeStep,
     CheckAdminStep, WriteStep, FinishStep DEF Reconcile
<1>2. ASSUME NEW m \in Manager, Failure(m) \/ Restart(m) \/ Sync(m) PROVE IInv'
  BY <1>2, ReadFailsStep, WriteFailsStep, ProcessStep DEF Failure
<1>3. CASE Environment
  BY <1>3, EnvironmentStep
<1>4. CASE UNCHANGED vars
  BY <1>4 DEF vars, IInv, TypeOK, Holding, AllSound, Sound
<1> QED BY <1>1, <1>2, <1>3, <1>4 DEF Next

\* The invariant holds of every run of TransportTls.
THEOREM Invariance == Spec => []IInv
BY InitIInv, NextIInv, PTL DEF Spec

\* TransportTls keeps its types: no handler edits an object it did not load,
\* and none stores one (opensearch_controller_transport_tls.go, Read and Diff).
THEOREM TypeCorrect == Spec => []TypeOK
<1>1. IInv => TypeOK
  BY DEF IInv
<1> QED BY <1>1, Invariance, PTL

\* What is stored under the secret's name belongs together: admin and node
\* certificates are signed by the CA beside them, bundles hold what is
\* mounted next to them, whoever of any number of managers wrote last.
THEOREM AlwaysCoherent == Spec => []SecretCoherent
<1>1. IInv => SecretCoherent
  BY DEF IInv, AllSound, Sound, SecretCoherent
<1> QED BY <1>1, Invariance, PTL
=============================================================================
