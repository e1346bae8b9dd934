----------------------------- MODULE ApiTlsProofs -----------------------------
(***************************************************************************)
(* ApiTls keeps its types, leaves the user's secrets alone, implements     *)
(* PkiLineage for the secret it writes itself and ReconcileLoop for the    *)
(* resource, for any managers, endpoints, clock and budget of faults.      *)
(*                                                                         *)
(* The API server compares nothing here, so the lineage rests on one thing *)
(* only: what is about to be written has a CA that is in no other copy,    *)
(* and a process that wrote it does not write it again.  That it is        *)
(* written under the operator's name rests on the copy of the resource a   *)
(* reconcile keeps: it is what Diff looked at before it generated a secret. *)
(***************************************************************************)
EXTENDS ApiTls, LoopMappings

-----------------------------------------------------------------------------
(* The invariant.                                                          *)

Own == Contents \union {None, Malformed}
Secrets == [SecretName -> Secret \union {None}]
NoSecrets == [n \in SecretName |-> None]

Real(s) == s \notin {None, Malformed}

Signed(s) == Real(s) => s.crt.issuer = s.ca.id

AllSigned ==
    /\ Signed(own)
    /\ \A m \in Manager : Signed(CachedOwn(m)) /\ Signed(obj[m])

Other(s, c) == Real(s) => s.ca.id # c.ca.id

\* What is yet to be written has a CA nobody else has.
FreshApart(m) ==
    pc[m] = "write" =>
        /\ Other(own, obj[m])
        /\ \A k \in Manager : Other(CachedOwn(k), obj[m])
        /\ \A k \in Manager \ {m} : Other(obj[k], obj[m])

Apart == \A m \in Manager : FreshApart(m)

\* Who comes to write has generated a secret, for the operator's own name.
Ready(m) ==
    pc[m] = "write" => obj[m] # None /\ IsSelfManagedSecretForTlsApi(job[m].endpoint)

AllReady == \A m \in Manager : Ready(m)

IInv == TypeOK /\ AllReady /\ AllSigned /\ Apart

-----------------------------------------------------------------------------
(* The operators.                                                          *)

\* What is generated is a secret, of the serial and signed by the CA in it.
LEMMA GenerateSound ==
    ASSUME NEW s \in Serial, NEW t \in Int
    PROVE  /\ generateSecret(s, t) \in Contents
           /\ generateSecret(s, t).ca.id = s
           /\ generateSecret(s, t).crt.issuer = s
<1> DEFINE ca == NewRootCA(s, t)
           crt == IssueCertificate(ca, s, t)
           pfx == GeneratePkcs12(crt, ca, {})
<1>1. ca \in CACert /\ ca.id = s
  BY ValidityAssumption DEF NewRootCA, CACert
<1> HIDE DEF ca
<1>2. crt \in LeafCert /\ crt.issuer = s
  BY <1>1, ValidityAssumption DEF IssueCertificate, LeafCert
<1> HIDE DEF crt
<1>3. pfx \in Pkcs12
  BY <1>1, <1>2 DEF GeneratePkcs12, Pkcs12
<1>4. generateSecret(s, t) = [ca |-> ca, crt |-> crt, pfx |-> pfx]
  BY DEF generateSecret, Certified, ca, crt
<1> QED BY <1>1, <1>2, <1>3, <1>4 DEF Contents

\* A secret someone else stores is one the operator could have made.
LEMMA ForeignSound ==
    ASSUME NEW s \in Serial, NEW t \in Int
    PROVE  Foreign(s, t) = generateSecret(s, t)
BY DEF Foreign, generateSecret

\* A serial that is fresh is that of no CA around.
LEMMA FreshCA ==
    ASSUME TypeOK, NEW s, IsFresh(s, CAIds)
    PROVE  /\ s \in Serial
           /\ Real(own) => own.ca.id # s
           /\ \A k \in Manager :
                /\ Real(CachedOwn(k)) => CachedOwn(k).ca.id # s
                /\ Real(obj[k]) => obj[k].ca.id # s
<1>1. \A c \in Copies : c.ca.id # s
  BY DEF CAIds, IsFresh
<1>2. Real(own) => own \in Copies
  BY DEF Real, Copies
<1>3. ASSUME NEW k \in Manager
      PROVE  /\ Real(CachedOwn(k)) => CachedOwn(k) \in Copies
             /\ Real(obj[k]) => obj[k] \in Copies
  BY DEF Real, Copies
<1>4. s \in Serial
  BY DEF IsFresh
<1> QED BY <1>1, <1>2, <1>3, <1>4

\* What of a secret can be the operator's.
LEMMA OwnType == \A stored \in Secrets : PkiIn(stored[OwnSecret]) \in Own
<1>1. \A s \in Secret \union {None} : PkiIn(s) \in Own
  BY DEF PkiIn, Secret, Own
<1>2. OwnSecret \in SecretName
  BY DEF SecretName
<1> QED BY <1>1, <1>2 DEF Secrets

\* A secret of the operator's is one, and so is a secret of the user's.
LEMMA SecretType ==
    /\ \A c \in Contents \union {Malformed} : Managed(c) \in Secret /\ PkiIn(Managed(c)) = c
    /\ \A keys \in SUBSET Key :
         Provided(keys) \in Secret /\ PkiIn(Provided(keys)) = Malformed
BY NoSecretAssumption DEF Managed, Provided, Secret, PkiIn

\* The operator's secret follows the secrets, and its copies the caches.
LEMMA OwnUnchanged ==
    /\ secrets' = secrets => own' = own
    /\ cache' = cache => \A m \in Manager : CachedOwn(m)' = CachedOwn(m)
BY DEF own, CachedOwn

\* A secret under another name is none of the operator's.
LEMMA SetOwn ==
    ASSUME TypeOK, NEW n \in SecretName, NEW s,
           secrets' = [secrets EXCEPT ![n] = s]
    PROVE  IF n = OwnSecret THEN own' = PkiIn(s) ELSE own' = own
<1>1. OwnSecret \in SecretName
  BY DEF SecretName
<1>2. secrets'[OwnSecret] = IF n = OwnSecret THEN s ELSE secrets[OwnSecret]
  BY <1>1 DEF TypeOK
<1> QED BY <1>2 DEF own

\* The name that a reconcile reads or writes.
LEMMA TargetType ==
    ASSUME TypeOK, NEW m \in Manager
    PROVE  /\ Target(m) \in SecretName /\ WriteTarget(m) = Target(m)
           /\ IsSelfManagedSecretForTlsApi(job[m].endpoint) => Target(m) = OwnSecret
<1>1. job[m].endpoint \in Endpoint
  BY DEF TypeOK, Job
<1> QED BY <1>1 DEF Target, WriteTarget, GetSecretNameForTlsApi, SecretName, Endpoint,
                    IsSelfManagedSecretForTlsApi

-----------------------------------------------------------------------------
(* Types.                                                                  *)

\* The resource and the job stay what they are under the edits made of them.
LEMMA ResourceType ==
    ASSUME NEW c \in Resource
    PROVE  /\ [c EXCEPT !.exists = FALSE] \in Resource
           /\ [c EXCEPT !.deleting = TRUE] \in Resource
           /\ \A e \in Endpoints : [c EXCEPT !.endpoint = e] \in Resource
           /\ \A k \in Cond : [c EXCEPT !.cond = k] \in Resource
<1>1. [c EXCEPT !.exists = FALSE] \in Resource
  BY DEF Resource
<1>2. [c EXCEPT !.deleting = TRUE] \in Resource
  BY DEF Resource
<1>3. \A e \in Endpoints : [c EXCEPT !.endpoint = e] \in Resource
  BY ApiAssumption DEF Resource
<1>4. \A k \in Cond : [c EXCEPT !.cond = k] \in Resource
  BY DEF Resource
<1> QED BY <1>1, <1>2, <1>3, <1>4

LEMMA NoJobType == NoJob \in Job
<1>1. [loadBalancer |-> FALSE, ref |-> None, validIps |-> TRUE] \in Endpoint
  BY DEF Endpoint
<1> QED BY <1>1 DEF NoJob, Job, Cond

\* The variables of the process, after a step of one manager.
LEMMA LocalType ==
    ASSUME TypeOK, NEW m \in Manager,
           job' = job \/ \E j \in Job : job' = [job EXCEPT ![m] = j],
           pc' = pc \/ \E phase \in Phase : Goto(m, phase),
           obj' = obj \/ \E c \in Contents \union {None} : obj' = [obj EXCEPT ![m] = c]
    PROVE  /\ job' \in [Manager -> Job]
           /\ pc' \in [Manager -> Phase]
           /\ obj' \in [Manager -> Contents \union {None}]
<1>1. job' \in [Manager -> Job]
  BY DEF TypeOK
<1>2. pc' \in [Manager -> Phase]
  BY DEF TypeOK, Goto
<1>3. obj' \in [Manager -> Contents \union {None}]
  BY DEF TypeOK
<1> QED BY <1>1, <1>2, <1>3

\* OnSuccess, OnError and a requeue.
LEMMA ConcludeType ==
    ASSUME TypeOK, NEW m \in Manager,
           Requeue(m) \/ \E cond \in {"False", "True"} : Conclude(m, cond)
    PROVE  /\ job' = job \/ \E j \in Job : job' = [job EXCEPT ![m] = j]
           /\ Goto(m, "finish")
<1>1. ASSUME NEW cond \in {"False", "True"}, Conclude(m, cond)
      PROVE  \E j \in Job : job' = [job EXCEPT ![m] = j]
  <2>1. job[m] \in Job /\ cond \in Cond
    BY DEF TypeOK, Cond
  <2>2. [job[m] EXCEPT !.cond = cond] \in Job
    BY <2>1 DEF Job
  <2> QED BY <1>1, <2>2 DEF Conclude
<1> QED BY <1>1 DEF Requeue, Conclude

\* The secrets and the caches that come of them.
LEMMA CacheType ==
    ASSUME TypeOK, NEW m \in Manager,
           \/ cache' = cache
           \/ cache' = [cache EXCEPT ![m] = secrets]
           \/ cache' = [cache EXCEPT ![m] = NoSecrets]
    PROVE  cache' \in [Manager -> Secrets]
<1>1. secrets \in Secrets /\ NoSecrets \in Secrets
  BY DEF TypeOK, Secrets, NoSecrets
<1>2. cache \in [Manager -> Secrets]
  BY DEF TypeOK, Secrets
<1> QED BY <1>1, <1>2

\* A new version of the resource, or the old one.
LEMMA StoreType ==
    ASSUME TypeOK, NEW m \in Manager,
           \/ \E c \in Resource : StoreResource(c)
           \/ cr' = cr /\ crCurrent' \subseteq crCurrent \union {m}
    PROVE  cr' \in Resource /\ crCurrent' \subseteq Manager
BY DEF TypeOK, StoreResource

\* What is left of a budget is one.
LEMMA LeftType ==
    ASSUME TypeOK,
           \/ left' = left
           \/ left.edit > 0 /\ left' = [left EXCEPT !.edit = @ - 1]
           \/ left.outside > 0 /\ left' = [left EXCEPT !.outside = @ - 1]
           \/ left.crash > 0 /\ left' = [left EXCEPT !.crash = @ - 1]
           \/ left.fault > 0 /\ left' = [left EXCEPT !.fault = @ - 1]
    PROVE  left' \in [edit : Nat, outside : Nat, crash : Nat, fault : Nat]
<1>1. left.edit \in Nat /\ left.outside \in Nat /\ left.crash \in Nat /\ left.fault \in Nat
  BY DEF TypeOK
<1>2. /\ left.edit > 0 => left.edit - 1 \in Nat
      /\ left.outside > 0 => left.outside - 1 \in Nat
      /\ left.crash > 0 => left.crash - 1 \in Nat
      /\ left.fault > 0 => left.fault - 1 \in Nat
  BY <1>1
<1> QED BY <1>2 DEF TypeOK

\* The process of a manager ends.
LEMMA DieType ==
    ASSUME TypeOK, NEW m \in Manager, Die(m), UNCHANGED <<now, cr, secrets>>,
           left' \in [edit : Nat, outside : Nat, crash : Nat, fault : Nat]
    PROVE  TypeOK'
<1>1. /\ job' = [job EXCEPT ![m] = NoJob] /\ Goto(m, "down")
      /\ obj' = [obj EXCEPT ![m] = None] /\ crCurrent' \subseteq crCurrent
      /\ cache' = [cache EXCEPT ![m] = NoSecrets]
  BY DEF Die, Rest, NoSecrets
<1>2. /\ job' \in [Manager -> Job] /\ pc' \in [Manager -> Phase]
      /\ obj' \in [Manager -> Contents \union {None}]
  BY <1>1, NoJobType, LocalType DEF Phase
<1>3. cache' \in [Manager -> Secrets]
  BY <1>1, CacheType
<1> QED BY <1>1, <1>2, <1>3 DEF TypeOK, Secrets

LEMMA StartType ==
    ASSUME TypeOK, NEW m \in Manager, Start(m)
    PROVE  TypeOK'
<1> DEFINE j == [endpoint |-> cr.endpoint, deleting |-> cr.deleting, was |-> cr.cond,
                 cond |-> IF cr.cond = "unset" THEN "False" ELSE cr.cond]
<1>1. j \in Job
  BY DEF TypeOK, Resource, Job, Cond
<1> HIDE DEF j
<1>2. job' = [job EXCEPT ![m] = j] /\ Goto(m, "read")
  BY DEF Start, j
<1>3. /\ job' \in [Manager -> Job] /\ pc' \in [Manager -> Phase]
      /\ obj' \in [Manager -> Contents \union {None}]
  BY <1>1, <1>2, LocalType DEF Phase, Start
<1> QED BY <1>3 DEF Start, TypeOK

LEMMA ReadType ==
    ASSUME TypeOK, NEW m \in Manager, Read(m) \/ ReadFails(m)
    PROVE  TypeOK'
<1>1. \/ OnError(m) /\ obj' = obj
      \/ Requeue(m) /\ obj' = obj
      \/ /\ job' = job /\ Goto(m, AfterRead(m))
         /\ obj' = obj \/ (CachedOwn(m) # Malformed /\ obj' = [obj EXCEPT ![m] = CachedOwn(m)])
  BY TargetType DEF Read, ReadFails, ReadOwn, ReadExternal, CachedOwn
<1>2. AfterRead(m) \in Phase /\ "finish" \in Phase
  BY DEF AfterRead, Phase
<1>3. CachedOwn(m) # Malformed => CachedOwn(m) \in Contents \union {None}
  BY OwnType DEF TypeOK, Secrets, CachedOwn, Own
<1>4. /\ job' = job \/ \E j \in Job : job' = [job EXCEPT ![m] = j]
      /\ \E phase \in Phase : Goto(m, phase)
  BY <1>1, <1>2, ConcludeType DEF OnError
<1>5. /\ job' \in [Manager -> Job] /\ pc' \in [Manager -> Phase]
      /\ obj' \in [Manager -> Contents \union {None}]
  BY <1>1, <1>3, <1>4, LocalType
<1>6. left' \in [edit : Nat, outside : Nat, crash : Nat, fault : Nat]
  BY LeftType DEF Read, ReadFails
<1> QED BY <1>5, <1>6 DEF Read, ReadFails, TypeOK

LEMMA DiffType ==
    ASSUME TypeOK, NEW m \in Manager, Diff(m)
    PROVE  TypeOK'
<1>1. UNCHANGED <<now, cr, secrets, left>>
  BY DEF Diff
<1>2. CASE Die(m)
  BY <1>1, <1>2, DieType DEF TypeOK
<1>3. ASSUME OnError(m) \/ OnSuccess(m), UNCHANGED <<obj, cache, crCurrent>>
      PROVE  TypeOK'
  <2>1. /\ job' \in [Manager -> Job] /\ pc' \in [Manager -> Phase]
        /\ obj' \in [Manager -> Contents \union {None}]
    BY <1>3, ConcludeType, LocalType DEF OnError, OnSuccess, Phase
  <2> QED BY <1>1, <1>3, <2>1 DEF TypeOK
<1>4. ASSUME NEW s \in Serial, obj' = [obj EXCEPT ![m] = generateSecret(s, now)],
             Goto(m, "write"), UNCHANGED <<job, cache, crCurrent>>
      PROVE  TypeOK'
  <2>1. generateSecret(s, now) \in Contents
    BY GenerateSound DEF TypeOK
  <2>2. /\ job' \in [Manager -> Job] /\ pc' \in [Manager -> Phase]
        /\ obj' \in [Manager -> Contents \union {None}]
    BY <1>4, <2>1, LocalType DEF Phase
  <2> QED BY <1>1, <1>4, <2>2 DEF TypeOK
<1> QED BY <1>2, <1>3, <1>4 DEF Diff, Regenerate

LEMMA WriteType ==
    ASSUME TypeOK, AllReady, NEW m \in Manager, Write(m) \/ WriteFails(m)
    PROVE  TypeOK'
<1>1. /\ job' \in [Manager -> Job] /\ pc' \in [Manager -> Phase]
      /\ obj' \in [Manager -> Contents \union {None}]
  BY ConcludeType, LocalType DEF Write, WriteFails, OnSuccess, OnError, Phase
<1>2. secrets' \in Secrets
  <2>1. secrets \in Secrets
    BY DEF TypeOK, Secrets
  <2>2. ASSUME PutSecret(m) PROVE secrets' \in Secrets
    <3>1. obj[m] \in Contents
      BY DEF TypeOK, AllReady, Ready, Write, WriteFails
    <3>2. Managed(obj[m]) \in Secret
      BY <3>1, SecretType
    <3> QED BY <2>1, <2>2, <3>2 DEF PutSecret, Secrets
  <2> QED BY <2>1, <2>2 DEF Write, WriteFails
<1>3. left' \in [edit : Nat, outside : Nat, crash : Nat, fault : Nat]
  BY LeftType DEF Write, WriteFails
<1> QED BY <1>1, <1>2, <1>3 DEF Write, WriteFails, TypeOK, Secrets

LEMMA EndType ==
    ASSUME TypeOK, NEW m \in Manager, Finish(m) \/ Delete(m)
    PROVE  TypeOK'
<1>1. /\ job' \in [Manager -> Job] /\ pc' \in [Manager -> Phase]
      /\ obj' \in [Manager -> Contents \union {None}]
  BY NoJobType, LocalType DEF Finish, Delete, Rest, Phase
<1>2. cr' \in Resource /\ crCurrent' \subseteq Manager
  <2>1. job[m].cond \in Cond
    BY DEF TypeOK, Job
  <2>2. /\ [cr EXCEPT !.cond = job[m].cond] \in Resource
        /\ [cr EXCEPT !.exists = FALSE] \in Resource
    BY <2>1, ResourceType DEF TypeOK
  <2> QED BY <2>2, StoreType DEF Finish, Delete
<1> QED BY <1>1, <1>2 DEF Finish, Delete, TypeOK

LEMMA ProcessType ==
    ASSUME TypeOK, NEW m \in Manager, Crash(m) \/ Restart(m) \/ Sync(m)
    PROVE  TypeOK'
<1>1. CASE Crash(m)
  BY <1>1, DieType, LeftType DEF Crash
<1>2. CASE Restart(m) \/ Sync(m)
  <2>1. cache' \in [Manager -> Secrets]
    BY <1>2, CacheType DEF Restart, Sync, Fill
  <2>2. pc' \in [Manager -> Phase]
    BY <1>2, LocalType DEF Restart, Sync, Phase
  <2> QED BY <1>2, <2>1, <2>2 DEF Restart, Sync, TypeOK, Secrets
<1> QED BY <1>1, <1>2

LEMMA EnvironmentType ==
    ASSUME TypeOK, Environment
    PROVE  TypeOK'
<1>1. left' \in [edit : Nat, outside : Nat, crash : Nat, fault : Nat]
  BY LeftType DEF Environment, Tick, Edit, DeleteResource, Provision, Provide, Remove
<1>2. UNCHANGED Reconciles
  BY DEF Environment, Tick, Edit, DeleteResource, Provision, Provide, Remove
<1>3. CASE Tick
  BY <1>1, <1>3 DEF Tick, TypeOK, Reconciles
<1>4. CASE Edit \/ DeleteResource
  <2>1. cr' \in Resource /\ crCurrent' = {}
    <3>1. ASSUME NEW e \in Endpoints
          PROVE  [cr EXCEPT !.endpoint = e] \in Resource
      BY ResourceType DEF TypeOK
    <3>2. [cr EXCEPT !.deleting = TRUE] \in Resource
      BY ResourceType DEF TypeOK
    <3> QED BY <1>4, <3>1, <3>2 DEF Edit, DeleteResource, StoreResource
  <2>2. UNCHANGED <<now, secrets>>
    BY <1>4 DEF Edit, DeleteResource
  <2> QED BY <1>1, <1>2, <2>1, <2>2 DEF TypeOK, Reconciles
<1>5. CASE Provision \/ Provide \/ Remove
  <2>1. PICK n \in SecretName, s \in Secret \union {None} : SetSecret(n, s)
    <3>1. CASE Provision
      <4>1. OwnSecret \in SecretName
        BY DEF SecretName
      <4>2. ASSUME NEW r \in Serial, NEW age \in Ages
            PROVE  Managed(Foreign(r, now - age)) \in Secret
        <5>1. now - age \in Int
          BY ApiAssumption DEF TypeOK
        <5> QED BY <5>1, GenerateSound, ForeignSound, SecretType
      <4>3. Managed(Malformed) \in Secret
        BY SecretType
      <4> QED BY <3>1, <4>1, <4>2, <4>3 DEF Provision
    <3>2. CASE Provide
      BY <3>2, ApiAssumption, SecretType DEF Provide, SecretName
    <3>3. CASE Remove
      BY <3>3 DEF Remove
    <3> QED BY <1>5, <3>1, <3>2, <3>3
  <2>2. secrets' \in Secrets
    BY <2>1 DEF SetSecret, TypeOK, Secrets
  <2>3. UNCHANGED <<now, cr, crCurrent>>
    BY <1>5 DEF Provision, Provide, Remove
  <2> QED BY <1>1, <1>2, <2>2, <2>3 DEF TypeOK, Reconciles, Secrets
<1> QED BY <1>3, <1>4, <1>5 DEF Environment

LEMMA InitType == Init => TypeOK
<1> SUFFICES ASSUME Init PROVE TypeOK
  OBVIOUS
<1>1. cr \in Resource
  BY ApiAssumption DEF Init, Resource, Cond
<1>2. secrets \in Secrets
  BY ApiAssumption, SecretType DEF Init, Secrets
<1>3. job \in [Manager -> Job]
  BY NoJobType DEF Init
<1> QED BY <1>1, <1>2, <1>3, ApiAssumption DEF Init, TypeOK, Phase, Secrets

LEMMA NextType == TypeOK /\ AllReady /\ [Next]_vars => TypeOK'
<1> SUFFICES ASSUME TypeOK, AllReady, [Next]_vars PROVE TypeOK'
  OBVIOUS
<1>1. CASE UNCHANGED vars
  BY <1>1 DEF TypeOK, vars
<1>2. ASSUME NEW m \in Manager, Reconcile(m) \/ Failure(m) \/ Restart(m) \/ Sync(m)
      PROVE  TypeOK'
  BY <1>2, StartType, ReadType, DiffType, WriteType, EndType, ProcessType
     DEF Reconcile, Failure
<1> QED BY <1>1, <1>2, EnvironmentType DEF Next

\* Only Diff sends a reconcile to write, and not unless its copy of the resource
\* leaves the certificates to the operator.
LEMMA NextReady == TypeOK /\ AllReady /\ [Next]_vars => AllReady'
<1> SUFFICES ASSUME TypeOK, AllReady, [Next]_vars PROVE AllReady'
  OBVIOUS
<1>1. CASE UNCHANGED <<pc, job, obj>>
  BY <1>1 DEF AllReady, Ready
<1>2. ASSUME NEW m \in Manager, Reconcile(m) \/ Failure(m) \/ Restart(m),
             NEW k \in Manager \ {m}
      PROVE  Ready(k)'
  <2>1. pc'[k] = pc[k] /\ job'[k] = job[k] /\ obj'[k] = obj[k]
    <3>1. CASE Start(m) \/ Read(m) \/ ReadFails(m) \/ Restart(m)
      BY <1>2, <3>1 DEF TypeOK, Start, Read, ReadFails, Restart, ReadOwn, ReadExternal,
                        OnError, Requeue, Conclude, Goto
    <3>2. CASE Diff(m)
      BY <1>2, <3>2 DEF TypeOK, Diff, Regenerate, Die, Rest, OnSuccess, OnError, Conclude, Goto
    <3>3. CASE Write(m) \/ WriteFails(m)
      BY <1>2, <3>3 DEF TypeOK, Write, WriteFails, OnSuccess, OnError, Conclude, Goto
    <3>4. CASE Finish(m) \/ Delete(m) \/ Crash(m)
      BY <1>2, <3>4 DEF TypeOK, Finish, Delete, Crash, Die, Rest, Goto
    <3> QED BY <1>2, <3>1, <3>2, <3>3, <3>4 DEF Reconcile, Failure
  <2> QED BY <2>1 DEF AllReady, Ready
<1>3. ASSUME NEW m \in Manager, Diff(m) PROVE Ready(m)'
  <2>1. CASE Die(m) \/ OnError(m) \/ OnSuccess(m)
    <3>1. pc'[m] # "write"
      BY <1>3, <2>1 DEF TypeOK, Die, OnError, OnSuccess, Conclude, Goto
    <3> QED BY <3>1 DEF Ready
  <2>2. ASSUME IsSelfManagedSecretForTlsApi(job[m].endpoint), job' = job, NEW s \in Serial,
               obj' = [obj EXCEPT ![m] = generateSecret(s, now)]
        PROVE  Ready(m)'
    <3>1. obj'[m] \in Contents
      BY <2>2, GenerateSound DEF TypeOK
    <3> QED BY <2>2, <3>1, NoSecretAssumption DEF Ready
  <2> QED BY <1>3, <2>1, <2>2 DEF Diff, Regenerate
<1>4. ASSUME NEW m \in Manager, Reconcile(m) \/ Failure(m) \/ Restart(m), ~Diff(m)
      PROVE  Ready(m)'
  <2>1. pc'[m] # "write"
    <3>1. CASE Start(m) \/ Read(m) \/ ReadFails(m) \/ Restart(m)
      BY <3>1 DEF TypeOK, Start, Read, ReadFails, Restart, ReadOwn, ReadExternal, AfterRead,
                  OnError, Requeue, Conclude, Goto
    <3>2. CASE Write(m) \/ WriteFails(m)
      BY <3>2 DEF TypeOK, Write, WriteFails, OnSuccess, OnError, Conclude, Goto
    <3>3. CASE Finish(m) \/ Delete(m) \/ Crash(m)
      BY <3>3 DEF TypeOK, Finish, Delete, Crash, Die, Goto
    <3> QED BY <1>4, <3>1, <3>2, <3>3 DEF Reconcile, Failure
  <2> QED BY <2>1 DEF Ready
<1>5. CASE Environment
  BY <1>1, <1>5 DEF Environment, Tick, Edit, DeleteResource, Provision, Provide, Remove, Reconciles
<1>6. ASSUME NEW m \in Manager, Sync(m) PROVE AllReady'
  BY <1>1, <1>6 DEF Sync
<1>7. CASE UNCHANGED vars
  BY <1>1, <1>7 DEF vars
<1> QED BY <1>2, <1>3, <1>4, <1>5, <1>6, <1>7 DEF Next, AllReady

LEMMA InitReady == Init => AllReady
BY DEF Init, AllReady, Ready

\* Every variable keeps its type, the secrets' contents included.
THEOREM TypeCorrect == Spec => []TypeOK
<1>1. Init => TypeOK /\ AllReady
  BY InitType, InitReady
<1>2. TypeOK /\ AllReady /\ [Next]_vars => TypeOK' /\ AllReady'
  BY NextType, NextReady
<1> QED BY <1>1, <1>2, PTL DEF Spec

\* No secret under a name of the user's is changed but by the user.  The name a
\* reconcile writes to is computed from its copy of the resource when Diff
\* generates the secret, and what keeps it from being the user's is that Diff
\* generates one only for a copy that leaves the certificates to the operator,
\* and that the copy is not got anew until the write is through.
THEOREM UserSecretKept == Spec => UserSecretUntouched
<1>1. Init => TypeOK /\ AllReady
  BY InitType, InitReady
<1>2. TypeOK /\ AllReady /\ [Next]_vars => TypeOK' /\ AllReady'
  BY NextType, NextReady
<1> DEFINE Untouched ==
      \A m \in Manager : Reconcile(m) \/ Failure(m) =>
        \A n \in SecretName : secrets'[n] # secrets[n] =>
          n = OwnSecret /\ IsSelfManagedSecretForTlsApi(job[m].endpoint)
<1>3. ASSUME TypeOK, AllReady PROVE Untouched
  <2> SUFFICES ASSUME NEW m \in Manager, Reconcile(m) \/ Failure(m),
                      NEW n \in SecretName, secrets'[n] # secrets[n]
               PROVE  n = OwnSecret /\ IsSelfManagedSecretForTlsApi(job[m].endpoint)
    OBVIOUS
  <2>1. pc[m] = "write" /\ PutSecret(m)
    BY DEF Reconcile, Failure, Start, Read, Delete, Diff, Write, Finish, ReadFails,
           WriteFails, Crash
  <2>2. IsSelfManagedSecretForTlsApi(job[m].endpoint)
    BY <1>3, <2>1 DEF AllReady, Ready
  <2>3. secrets' = [secrets EXCEPT ![OwnSecret] = Managed(obj[m])]
    BY <1>3, <2>1, <2>2, TargetType DEF PutSecret
  <2> QED BY <1>3, <2>2, <2>3 DEF TypeOK
<1> QED BY <1>1, <1>2, <1>3, PTL DEF Spec, UserSecretUntouched

-----------------------------------------------------------------------------
(* The lineage of the operator's secret.                                   *)

\* A step of one manager that leaves the secrets and the caches alone.
LEMMA OwnStep ==
    ASSUME IInv, NEW m \in Manager, UNCHANGED <<own, cache>>,
           \A k \in Manager \ {m} : pc'[k] = pc[k] /\ obj'[k] = obj[k],
           Signed(obj'[m]), FreshApart(m)',
           \A k \in Manager \ {m} : pc[k] = "write" => Other(obj'[m], obj[k])
    PROVE  AllSigned' /\ Apart'
<1>1. AllSigned'
  BY OwnUnchanged DEF IInv, AllSigned, Signed, Real
<1>2. ASSUME NEW k \in Manager \ {m} PROVE FreshApart(k)'
  BY OwnUnchanged DEF IInv, Apart, FreshApart, Other, Real
<1> QED BY <1>1, <1>2 DEF Apart

\* One that generates nothing: what m holds is what it held, what was in its
\* cache, or nothing.
LEMMA TameStep ==
    ASSUME IInv, NEW m \in Manager, UNCHANGED <<own, cache>>,
           \A k \in Manager \ {m} : pc'[k] = pc[k] /\ obj'[k] = obj[k],
           pc'[m] # "write", obj'[m] \in {obj[m], CachedOwn(m), None}
    PROVE  AllSigned' /\ Apart'
<1>1. FreshApart(m)'
  BY DEF FreshApart
<1>2. Signed(obj'[m])
  BY DEF IInv, AllSigned, Signed, Real
<1>3. ASSUME NEW k \in Manager \ {m}, pc[k] = "write"
      PROVE  Other(obj'[m], obj[k])
  BY <1>3 DEF IInv, Apart, FreshApart, Other, Real
<1> QED BY <1>1, <1>2, <1>3, OwnStep

\* The operator's secret is stored, from outside or by a manager that then is
\* through with it.
LEMMA StoreStep ==
    ASSUME IInv, NEW Writers \in SUBSET Manager, UNCHANGED <<cache, obj>>,
           Signed(own'),
           \A k \in Manager \ Writers :
               pc'[k] = pc[k] /\ (pc[k] = "write" => Other(own', obj[k])),
           \A k \in Writers : pc'[k] # "write"
    PROVE  AllSigned' /\ Apart'
<1>1. AllSigned'
  BY OwnUnchanged DEF IInv, AllSigned, Signed, Real
<1>2. ASSUME NEW k \in Manager PROVE FreshApart(k)'
  BY OwnUnchanged DEF IInv, Apart, FreshApart, Other, Real
<1> QED BY <1>1, <1>2 DEF Apart

\* Stored from outside, while no manager moves.
LEMMA OutsideStep ==
    ASSUME IInv, UNCHANGED <<cache, pc, obj>>, Signed(own'),
           \A k \in Manager : pc[k] = "write" => Other(own', obj[k])
    PROVE  AllSigned' /\ Apart'
<1> DEFINE Writers == {}
<1>1. /\ Writers \in SUBSET Manager
      /\ \A k \in Manager \ Writers :
           pc'[k] = pc[k] /\ (pc[k] = "write" => Other(own', obj[k]))
      /\ \A k \in Writers : pc'[k] # "write"
  OBVIOUS
<1> HIDE DEF Writers
<1> QED BY <1>1, StoreStep

\* A cache is filled with what is stored, or lost with its process.
LEMMA FillStep ==
    ASSUME IInv, NEW m \in Manager, own' = own,
           \/ cache' = [cache EXCEPT ![m] = secrets]
           \/ cache' = [cache EXCEPT ![m] = NoSecrets],
           \A k \in Manager \ {m} : pc'[k] = pc[k] /\ obj'[k] = obj[k],
           pc'[m] = pc[m] \/ pc'[m] # "write",
           obj'[m] = obj[m] \/ (obj'[m] = None /\ pc'[m] # "write")
    PROVE  AllSigned' /\ Apart'
<1>1. CachedOwn(m)' \in {own, None}
  <2>1. OwnSecret \in SecretName
    BY DEF SecretName
  <2>2. cache'[m] = secrets \/ cache'[m] = NoSecrets
    BY DEF IInv, TypeOK
  <2> QED BY <2>1, <2>2 DEF CachedOwn, own, NoSecrets, PkiIn
<1>2. \A k \in Manager \ {m} : CachedOwn(k)' = CachedOwn(k)
  BY DEF IInv, TypeOK, CachedOwn
<1>3. AllSigned'
  BY <1>1, <1>2 DEF IInv, AllSigned, Signed, Real
<1>4. ASSUME NEW k \in Manager PROVE FreshApart(k)'
  BY <1>1, <1>2 DEF IInv, Apart, FreshApart, Other, Real
<1> QED BY <1>3, <1>4 DEF Apart

LEMMA EndApart ==
    ASSUME IInv, NEW m \in Manager, Start(m) \/ Finish(m) \/ Delete(m)
    PROVE  AllSigned' /\ Apart'
<1>1. /\ pc'[m] \in {"read", "idle"} /\ obj'[m] \in {obj[m], None}
      /\ \A k \in Manager \ {m} : pc'[k] = pc[k] /\ obj'[k] = obj[k]
      /\ UNCHANGED <<own, cache>>
  BY OwnUnchanged DEF Start, Finish, Delete, Rest, Goto, IInv, TypeOK
<1> QED BY <1>1, TameStep

LEMMA ReadApart ==
    ASSUME IInv, NEW m \in Manager, Read(m) \/ ReadFails(m)
    PROVE  AllSigned' /\ Apart'
<1>1. pc'[m] # "write" /\ \A k \in Manager \ {m} : pc'[k] = pc[k]
  BY DEF Read, ReadFails, ReadOwn, ReadExternal, OnError, Conclude, Requeue, Goto,
         AfterRead, IInv, TypeOK
<1>2. /\ obj'[m] \in {obj[m], CachedOwn(m)}
      /\ \A k \in Manager \ {m} : obj'[k] = obj[k]
      /\ UNCHANGED <<own, cache>>
  BY OwnUnchanged, TargetType
     DEF Read, ReadFails, ReadOwn, ReadExternal, IInv, TypeOK, CachedOwn
<1> QED BY <1>1, <1>2, TameStep

LEMMA DieApart ==
    ASSUME IInv, NEW m \in Manager, Die(m), own' = own
    PROVE  AllSigned' /\ Apart'
<1>1. /\ pc'[m] = "down" /\ obj'[m] = None
      /\ \A k \in Manager \ {m} : pc'[k] = pc[k] /\ obj'[k] = obj[k]
      /\ cache' = [cache EXCEPT ![m] = NoSecrets]
  BY DEF Die, Rest, Goto, IInv, TypeOK, NoSecrets
<1> QED BY <1>1, FillStep

LEMMA DiffApart ==
    ASSUME IInv, NEW m \in Manager, Diff(m)
    PROVE  AllSigned' /\ Apart'
<1>1. own' = own
  BY OwnUnchanged DEF Diff
<1>2. CASE Die(m)
  BY <1>1, <1>2, DieApart
<1>3. CASE (OnError(m) \/ OnSuccess(m)) /\ UNCHANGED <<obj, cache>>
  <2>1. pc'[m] = "finish" /\ \A k \in Manager \ {m} : pc'[k] = pc[k]
    BY <1>3 DEF OnError, OnSuccess, Conclude, Goto, IInv, TypeOK
  <2> QED BY <1>1, <1>3, <2>1, TameStep
<1>4. ASSUME NEW s \in Serial, IsFresh(s, CAIds),
             obj' = [obj EXCEPT ![m] = generateSecret(s, now)],
             Goto(m, "write"), UNCHANGED cache
      PROVE  AllSigned' /\ Apart'
  <2>1. /\ obj'[m] \in Contents /\ obj'[m].ca.id = s /\ obj'[m].crt.issuer = s
        /\ \A k \in Manager \ {m} : pc'[k] = pc[k] /\ obj'[k] = obj[k]
    BY <1>4, GenerateSound DEF Goto, IInv, TypeOK
  <2>2. obj'[m] # None
    BY <2>1, NoSecretAssumption
  <2>3. FreshApart(m)' /\ Signed(obj'[m])
    BY <1>1, <1>4, <2>1, <2>2, FreshCA, OwnUnchanged
       DEF FreshApart, Other, Real, Signed, IInv
  <2>4. ASSUME NEW k \in Manager \ {m}, pc[k] = "write"
        PROVE  Other(obj'[m], obj[k])
    <3>1. Real(obj[k])
      BY <2>4, NoSecretAssumption DEF IInv, TypeOK, AllReady, Ready, Real
    <3> QED BY <1>4, <2>1, <3>1, FreshCA DEF Other, IInv
  <2> QED BY <1>1, <1>4, <2>1, <2>3, <2>4, OwnStep
<1> QED BY <1>2, <1>3, <1>4 DEF Diff, Regenerate

\* What a manager stores has a CA that nothing else has.
LEMMA PutApart ==
    ASSUME IInv, NEW m \in Manager, Write(m) \/ WriteFails(m)
    PROVE  /\ AllSigned' /\ Apart'
           /\ own' = own \/ (own' = obj[m] /\ Other(own, obj[m]))
<1>1. /\ pc[m] = "write" /\ pc'[m] = "finish" /\ UNCHANGED <<obj, cache>>
      /\ \A k \in Manager \ {m} : pc'[k] = pc[k]
  BY DEF Write, WriteFails, OnSuccess, OnError, Conclude, Goto, IInv, TypeOK
<1>2. CASE own' = own
  BY <1>1, <1>2, TameStep
<1>3. CASE own' = obj[m]
  <2>1. Signed(own') /\ Other(own, obj[m])
    BY <1>1, <1>3 DEF IInv, AllSigned, Apart, FreshApart
  <2>2. ASSUME NEW k \in Manager \ {m}, pc[k] = "write"
        PROVE  Other(own', obj[k])
    BY <1>3, <2>2 DEF IInv, Apart, FreshApart
  <2> QED BY <1>1, <1>3, <2>1, <2>2, StoreStep
<1>4. ASSUME PutSecret(m) PROVE own' = obj[m]
  <2>1. obj[m] \in Contents /\ IsSelfManagedSecretForTlsApi(job[m].endpoint)
    BY <1>1 DEF IInv, TypeOK, AllReady, Ready
  <2>2. secrets' = [secrets EXCEPT ![OwnSecret] = Managed(obj[m])]
    BY <1>4, <2>1, TargetType DEF PutSecret, IInv
  <2>3. OwnSecret \in SecretName
    BY DEF SecretName
  <2> QED BY <2>1, <2>2, <2>3, SetOwn, SecretType DEF IInv
<1> QED BY <1>2, <1>3, <1>4, OwnUnchanged DEF Write, WriteFails

\* So has what comes from outside, if it is a secret at all.
LEMMA ProvisionApart ==
    ASSUME IInv, Provision \/ Remove \/ Provide
    PROVE  /\ AllSigned' /\ Apart'
           /\ own' = own \/ ~Real(own') \/ (own' \in Contents /\ Other(own, own'))
<1>1. UNCHANGED Reconciles
  BY DEF Provision, Remove, Provide
<1>2. CASE own' = own
  <2>1. Signed(own')
    BY <1>2 DEF IInv, AllSigned
  <2>2. \A k \in Manager : pc[k] = "write" => Other(own', obj[k])
    BY <1>2 DEF IInv, Apart, FreshApart
  <2> QED BY <1>1, <1>2, <2>1, <2>2, OutsideStep DEF Reconciles
<1>3. CASE ~Real(own')
  BY <1>1, <1>3, OutsideStep DEF Reconciles, Signed, Other
<1>4. ASSUME NEW r \in Serial, NEW age \in Ages, IsFresh(r, CAIds),
             own' = Foreign(r, now - age)
      PROVE  /\ AllSigned' /\ Apart'
             /\ own' \in Contents /\ Other(own, own')
  <2>1. now - age \in Int
    BY ApiAssumption DEF IInv, TypeOK
  <2>2. own' \in Contents /\ own'.ca.id = r /\ own'.crt.issuer = r
    BY <1>4, <2>1, GenerateSound, ForeignSound
  <2>3. Signed(own') /\ Other(own, own')
    BY <1>4, <2>2, FreshCA DEF Signed, Other, IInv
  <2>4. ASSUME NEW k \in Manager, pc[k] = "write"
        PROVE  Other(own', obj[k])
    <3>1. Real(obj[k])
      BY <2>4, NoSecretAssumption DEF IInv, TypeOK, AllReady, Ready, Real
    <3> QED BY <1>4, <2>2, <3>1, FreshCA DEF Other, IInv
  <2>5. AllSigned' /\ Apart'
    BY <1>1, <2>3, <2>4, OutsideStep DEF Reconciles
  <2> QED BY <2>2, <2>3, <2>5
<1>5. ASSUME NEW n \in SecretName, NEW s, SetSecret(n, s), ~Real(PkiIn(s))
      PROVE  own' = own \/ ~Real(own')
  BY <1>5, SetOwn DEF SetSecret, IInv
<1>6. ASSUME NEW s \in Contents, SetSecret(OwnSecret, Managed(s))
      PROVE  own' = s
  BY <1>6, SetOwn, SecretType DEF SetSecret, IInv, SecretName
<1>7. CASE Provision
  <2>1. ASSUME NEW r \in Serial, NEW age \in Ages,
               SetSecret(OwnSecret, Managed(Foreign(r, now - age)))
        PROVE  own' = Foreign(r, now - age)
    <3>1. now - age \in Int
      BY ApiAssumption DEF IInv, TypeOK
    <3>2. Foreign(r, now - age) \in Contents
      BY <3>1, GenerateSound, ForeignSound
    <3> QED BY <2>1, <3>2, <1>6
  <2>2. SetSecret(OwnSecret, Managed(Malformed)) => own' = own \/ ~Real(own')
    BY <1>5, SecretType DEF Real, SecretName
  <2> QED BY <1>2, <1>3, <1>4, <1>7, <2>1, <2>2 DEF Provision
<1>8. CASE Provide \/ Remove
  <2>1. \A keys \in KeySets : ~Real(PkiIn(Provided(keys)))
    BY ApiAssumption, SecretType DEF Real
  <2>2. ~Real(PkiIn(None))
    BY DEF PkiIn, Real
  <2>3. own' = own \/ ~Real(own')
    BY <1>5, <1>8, <2>1, <2>2 DEF Provide, Remove, SecretName
  <2> QED BY <1>2, <1>3, <2>3
<1> QED BY <1>7, <1>8

\* At first there is at most a secret of the user's under the operator's name.
LEMMA InitNoSecret == Init => own \in {None, Malformed}
<1> SUFFICES ASSUME Init PROVE own \in {None, Malformed}
  OBVIOUS
<1>1. secrets[OwnSecret] \in {Provided(keys) : keys \in KeySets} \union {None}
  BY DEF Init, SecretName
<1> QED BY <1>1, ApiAssumption, SecretType DEF own, PkiIn

LEMMA InitIInv == Init => IInv
<1> SUFFICES ASSUME Init PROVE AllSigned /\ Apart
  BY InitType, InitReady DEF IInv
<1>1. ~Real(own)
  BY InitNoSecret DEF Real
<1>2. \A m \in Manager : CachedOwn(m) = own
  BY DEF Init, CachedOwn, own
<1> QED BY <1>1, <1>2 DEF Init, AllSigned, Apart, FreshApart, Signed, Real

\* The invariant is kept, and what is stored next is what was stored, nothing
\* that can be loaded, or a secret with a CA of its own.
LEMMA NextIInv ==
    ASSUME IInv, [Next]_vars
    PROVE  /\ IInv'
           /\ \/ own' = own \/ ~Real(own')
              \/ own' \in Contents /\ Other(own, own')
<1>1. TypeOK' /\ AllReady'
  BY NextType, NextReady DEF IInv
<1> SUFFICES /\ AllSigned' /\ Apart'
             /\ \/ own' = own \/ ~Real(own')
                \/ own' \in Contents /\ Other(own, own')
  BY <1>1 DEF IInv
<1>2. CASE UNCHANGED <<own, cache, pc, obj>>
  BY <1>2, OwnUnchanged DEF IInv, AllSigned, Signed, Apart, FreshApart, Other, Real
<1>3. CASE UNCHANGED vars \/ Tick \/ Edit \/ DeleteResource
  <2>1. UNCHANGED <<own, cache, pc, obj>>
    BY <1>3, OwnUnchanged DEF vars, Tick, Edit, DeleteResource, Reconciles
  <2> QED BY <1>2, <2>1
<1>4. CASE Provision \/ Remove \/ Provide
  BY <1>4, ProvisionApart
<1>5. ASSUME NEW m \in Manager, Write(m) \/ WriteFails(m)
      PROVE  /\ AllSigned' /\ Apart'
             /\ own' = own \/ ~Real(own') \/ (own' \in Contents /\ Other(own, own'))
  <2>1. obj[m] \in Contents
    BY <1>5 DEF Write, WriteFails, IInv, TypeOK, AllReady, Ready
  <2> QED BY <1>5, <2>1, PutApart
<1>6. ASSUME NEW m \in Manager,
             Start(m) \/ Read(m) \/ Delete(m) \/ Diff(m) \/ Finish(m) \/ ReadFails(m)
      PROVE  AllSigned' /\ Apart' /\ own' = own
  BY <1>6, EndApart, ReadApart, DiffApart, OwnUnchanged
     DEF Start, Read, Delete, Diff, Finish, ReadFails
<1>7. ASSUME NEW m \in Manager, Crash(m)
      PROVE  AllSigned' /\ Apart' /\ own' = own
  BY <1>7, DieApart, OwnUnchanged DEF Crash
<1>8. ASSUME NEW m \in Manager, Restart(m) \/ Sync(m)
      PROVE  AllSigned' /\ Apart' /\ own' = own
  <2>1. /\ cache' = [cache EXCEPT ![m] = secrets]
        /\ obj' = obj /\ own' = own
    BY <1>8, OwnUnchanged DEF Restart, Sync, Fill
  <2>2. /\ pc'[m] = pc[m] \/ pc'[m] # "write"
        /\ \A k \in Manager \ {m} : pc'[k] = pc[k]
    BY <1>8 DEF Restart, Sync, Goto, IInv, TypeOK
  <2> QED BY <2>1, <2>2, FillStep
<1> QED BY <1>3, <1>4, <1>5, <1>6, <1>7, <1>8 DEF Next, Reconcile, Failure, Environment

PkiOf(s) == IF s \in {None, Malformed} THEN None
            ELSE [ca |-> s.ca, crt |-> [n \in {"api"} |-> s.crt]]

\* What is stored is a PKI of the lineage, if it is one at all.
LEMMA PkiSound ==
    ASSUME NEW s \in Own, Signed(s), Real(s)
    PROVE  /\ PkiOf(s) # None /\ PkiOf(s) \in Lineage!Lineage
           /\ Lineage!SignedBy(PkiOf(s))
           /\ PkiOf(s).ca = s.ca
<1>1. s \in Contents /\ s.crt.issuer = s.ca.id
  BY DEF Own, Signed, Real
<1>2. PkiOf(s) = [ca |-> s.ca, crt |-> [n \in {"api"} |-> s.crt]]
  BY DEF PkiOf, Real
<1>3. PkiOf(s) \in Lineage!Lineage
  BY <1>1, <1>2 DEF Contents, CACert, LeafCert, Lineage!Lineage, Lineage!CACert,
                    Lineage!LeafCert
<1>4. Lineage!SignedBy(PkiOf(s))
  BY <1>1, <1>2 DEF Lineage!SignedBy
<1> QED BY <1>2, <1>3, <1>4, NoPkiAssumption

LEMMA LineageStep ==
    ASSUME IInv, IInv', [Next]_vars
    PROVE  [Lineage!Next]_(PkiOf(own))
<1> SUFFICES ASSUME PkiOf(own') # PkiOf(own) PROVE Lineage!Next
  BY DEF PkiOf
<1>1. own \in Own /\ Signed(own) /\ own' \in Own /\ Signed(own')
  BY OwnType DEF IInv, TypeOK, Secrets, own, AllSigned, Signed, Real
<1>2. CASE ~Real(own')
  <2>1. PkiOf(own') = None
    BY <1>2 DEF PkiOf, Real
  <2> QED BY <2>1 DEF PkiOf, Lineage!Next, Lineage!Remove
<1>3. CASE Real(own') /\ ~Real(own)
  <2>1. PkiOf(own) = None
    BY <1>3 DEF PkiOf, Real
  <2>2. PkiOf(own') \in Lineage!Lineage /\ Lineage!SignedBy(PkiOf(own'))
    BY <1>1, <1>3, PkiSound
  <2> QED BY <2>1, <2>2 DEF PkiOf, Lineage!Next, Lineage!Establish
<1>4. CASE Real(own') /\ Real(own)
  <2>1. /\ PkiOf(own) # None /\ PkiOf(own') # None
        /\ PkiOf(own') \in Lineage!Lineage /\ Lineage!SignedBy(PkiOf(own'))
        /\ PkiOf(own).ca = own.ca /\ PkiOf(own').ca = own'.ca
    BY <1>1, <1>4, PkiSound
  <2>2. own.ca.id # own'.ca.id
    BY <1>4, NextIInv DEF Other
  <2> QED BY <2>1, <2>2 DEF PkiOf, Lineage!Next, Lineage!Replace
<1> QED BY <1>2, <1>3, <1>4

\* The operator's secret goes through one lineage of PKIs after the other,
\* although no write is compared with what is stored: each brings a CA that no
\* other copy has, and a lost answer does not make a process write it again.
THEOREM LineageImplemented == Spec => LineageKept
<1>1. Init => IInv /\ Lineage!Init
  BY InitIInv, InitNoSecret DEF Lineage!Init
<1>2. IInv /\ [Next]_vars => IInv'
  BY NextIInv
<1>3. IInv /\ IInv' /\ [Next]_vars => [Lineage!Next]_(PkiOf(own))
  BY LineageStep
<1> QED BY <1>1, <1>2, <1>3, PTL DEF Spec, LineageKept, Lineage!Spec, PkiOf

-----------------------------------------------------------------------------
(* The protocol of the resource.                                           *)

\* A copy of the resource that is the stored one is that of a reconcile under
\* way, which remembers the status it got and has one of its own; and Delete is
\* for a resource that was being deleted when the reconcile got it.
LoopLocal(m) ==
    /\ m \in crCurrent => pc[m] \notin {"idle", "down"} /\ job[m].was = cr.cond
    /\ pc[m] \notin {"idle", "down"} => job[m].cond # "unset"
    /\ pc[m] = "delete" => job[m].deleting

LoopInv == TypeOK /\ AllReady /\ \A m \in Manager : LoopLocal(m)

MapRes == [exists |-> cr.exists, deleting |-> cr.deleting,
           finalizers |-> IF cr.exists THEN Controller ELSE {},
           cond |-> [c \in Controller |-> cr.cond]]
MapCopy == [m \in Manager |-> [c \in Controller |-> CopyOf(m)]]
MapCurrent == crCurrent \X Controller
MapRunning == {m \in Manager : pc[m] # "down"}
MapVars == <<MapRes, MapCopy, MapCurrent, MapRunning>>

Working == Phase \ {"idle", "down"}

\* A reconcile under way has a copy.
LEMMA CopyOfType ==
    ASSUME TypeOK, NEW m \in Manager, pc[m] \in Working
    PROVE  /\ CopyOf(m) # None
           /\ \E done \in BOOLEAN :
                /\ done <=> pc[m] = "finish"
                /\ CopyOf(m) = ACopy("api", job[m].deleting, done, job[m].cond)
<1>1. CopyOf(m) = ACopy("api", job[m].deleting, pc[m] = "finish", job[m].cond)
  BY DEF CopyOf, Working, ACopy, StatusOf, Controller
<1>2. CopyOf(m) \in Loop!Copy
  <2>1. job[m].deleting \in BOOLEAN /\ job[m].cond \in Cond
    BY DEF TypeOK, Job
  <2>2. (pc[m] = "finish") \in BOOLEAN
    OBVIOUS
  <2>3. StatusOf("api", job[m].cond) \in Loop!Status
    BY <2>1 DEF StatusOf, Controller, Loop!Status, Loop!Cond, Cond
  <2> QED BY <1>1, <2>1, <2>2, <2>3 DEF Loop!Copy, ACopy
<1>3. CopyOf(m) # None
  BY <1>2, NoCopyAssumption
<1>4. \E done \in BOOLEAN :
         /\ done <=> pc[m] = "finish"
         /\ CopyOf(m) = ACopy("api", job[m].deleting, done, job[m].cond)
  <2> WITNESS (pc[m] = "finish") \in BOOLEAN
  <2> QED BY <1>1, Zenon
<1> QED BY <1>3, <1>4

\* What the loop looks at in that copy.
LEMMA CopyFields ==
    ASSUME TypeOK, NEW m \in Manager, pc[m] \in Working
    PROVE  LET old == MapCopy[m]["api"]
           IN  /\ old # None /\ old = CopyOf(m)
               /\ old.done <=> pc[m] = "finish"
               /\ old.deleting = job[m].deleting
               /\ old.cond = StatusOf("api", job[m].cond)
<1>1. MapCopy[m]["api"] = CopyOf(m)
  BY DEF MapCopy, Controller
<1>2. PICK done \in BOOLEAN :
        /\ done <=> pc[m] = "finish"
        /\ CopyOf(m) = ACopy("api", job[m].deleting, done, job[m].cond)
  BY CopyOfType
<1>3. /\ CopyOf(m).done = done
      /\ CopyOf(m).cond = StatusOf("api", job[m].cond)
  BY <1>2 DEF ACopy
<1>4. CopyOf(m).deleting = job[m].deleting
  <2>1. \A c, deleting, d, cond : ACopy(c, deleting, d, cond).deleting = deleting
    BY DEF ACopy
  <2> QED BY <1>2, <2>1
<1> QED BY <1>1, <1>2, <1>3, <1>4, CopyOfType

\* The copy of a manager is replaced, and that of no other.
LEMMA MapPut ==
    ASSUME NEW m \in Manager, NEW v, CopyOf(m)' = v,
           \A k \in Manager \ {m} : CopyOf(k)' = CopyOf(k)
    PROVE  MapCopy' = [MapCopy EXCEPT ![m]["api"] = v]
BY DEF MapCopy, Controller

\* A step within the handlers is none of the loop's.
LEMMA MoveMap ==
    ASSUME TypeOK, NEW m \in Manager, pc[m] \in Working \ {"finish"},
           NEW phase \in Working \ {"finish"}, Goto(m, phase),
           job'[m].cond = job[m].cond, job'[m].deleting = job[m].deleting,
           \A k \in Manager \ {m} : job'[k] = job[k],
           UNCHANGED <<cr, crCurrent>>
    PROVE  UNCHANGED MapVars
<1>1. \A k \in Manager : CopyOf(k)' = CopyOf(k)
  BY DEF CopyOf, TypeOK, Goto, Working
<1>2. MapRunning' = MapRunning
  BY DEF MapRunning, TypeOK, Goto, Working
<1> QED BY <1>1, <1>2 DEF MapVars, MapCopy, MapRes, MapCurrent

\* OnSuccess, OnError and a wait for the user's secret are the loop's Conclude.
LEMMA ConcludeMap ==
    ASSUME TypeOK, NEW m \in Manager, pc[m] \in Working \ {"finish"},
           NEW outcome \in {"False", "True"}, Goto(m, "finish"),
           job'[m].cond = outcome, job'[m].deleting = job[m].deleting,
           \A k \in Manager \ {m} : job'[k] = job[k],
           UNCHANGED <<cr, crCurrent>>
    PROVE  Loop!Conclude(m, "api", outcome)
<1>1. /\ pc'[m] = "finish" /\ job'[m].cond = outcome
      /\ job'[m].deleting = job[m].deleting
      /\ \A k \in Manager \ {m} : pc'[k] = pc[k] /\ job'[k] = job[k]
  BY DEF Goto, TypeOK
<1> DEFINE yes == TRUE
           new == WithOutcome("api", CopyOf(m), outcome, yes)
<1>2. CopyOf(m)' = new
  <2>1. (pc'[m] = "finish") = yes
    BY <1>1
  <2> HIDE DEF yes
  <2>2. CopyOf(m)' = ACopy("api", job'[m].deleting, pc'[m] = "finish", job'[m].cond)
    BY <1>1 DEF CopyOf, ACopy, StatusOf, Controller
  <2>3. CopyOf(m)' = ACopy("api", job[m].deleting, yes, outcome)
    BY <1>1, <2>1, <2>2, Zenon
  <2>4. PICK done : CopyOf(m) = ACopy("api", job[m].deleting, done, job[m].cond)
    BY CopyOfType
  <2> QED BY <2>3, <2>4, Concluded
<1>3. \A k \in Manager \ {m} : CopyOf(k)' = CopyOf(k)
  BY <1>1 DEF CopyOf
<1>4. MapCopy' = [MapCopy EXCEPT ![m]["api"] = new]
  BY <1>2, <1>3, MapPut
<1>5. MapCopy[m]["api"] = CopyOf(m) /\ CopyOf(m) # None /\ ~CopyOf(m).done
  BY CopyFields
<1>6. m \in MapRunning /\ UNCHANGED <<MapRes, MapCurrent, MapRunning>>
  BY <1>1 DEF MapRunning, MapRes, MapCurrent, Working
<1> QED BY <1>4, <1>5, <1>6
        DEF WithOutcome, Loop!Conclude, Loop!Working, Loop!Put, MapCopy, MapRes, MapCurrent, MapRunning

\* A reconcile begins with the resource as it is stored.
LEMMA StartMap ==
    ASSUME TypeOK, NEW m \in Manager, Start(m)
    PROVE  Loop!Begin(m, "api")
<1> DEFINE cond == IF cr.cond = "unset" THEN "False" ELSE cr.cond
           no == FALSE
           new == ACopy("api", cr.deleting, no, cond)
<1>1. /\ pc[m] = "idle" /\ pc'[m] = "read" /\ cr.exists
      /\ job'[m].cond = cond /\ job'[m].deleting = cr.deleting
      /\ \A k \in Manager \ {m} : pc'[k] = pc[k] /\ job'[k] = job[k]
      /\ cr' = cr /\ crCurrent' = crCurrent \union {m}
  BY DEF Start, Goto, TypeOK
<1>2. CopyOf(m)' = new
  <2>1. (pc'[m] = "finish") = no
    BY <1>1
  <2> HIDE DEF no, cond
  <2>2. CopyOf(m)' = ACopy("api", job'[m].deleting, pc'[m] = "finish", job'[m].cond)
    BY <1>1 DEF CopyOf, ACopy, StatusOf, Controller
  <2> QED BY <1>1, <2>1, <2>2, Zenon
<1>3. \A k \in Manager \ {m} : CopyOf(k)' = CopyOf(k)
  BY <1>1 DEF CopyOf
<1>4. MapCopy' = [MapCopy EXCEPT ![m]["api"] = new]
  BY <1>2, <1>3, MapPut
<1>5. StatusOf("api", cond) = Loop!Configure(MapRes.cond, "api")
  BY DEF Loop!Configure, MapRes, StatusOf, Controller
<1>6. MapCopy[m]["api"] = None /\ m \in MapRunning /\ MapRes.exists
  BY <1>1 DEF MapCopy, CopyOf, Controller, MapRunning, MapRes
<1>7. MapCurrent' = MapCurrent \union {<<m, "api">>}
  BY <1>1 DEF MapCurrent, Controller
<1>8. UNCHANGED <<MapRes, MapRunning>>
  BY <1>1 DEF MapRes, MapRunning
<1>9. new = [deleting |-> MapRes.deleting, done |-> FALSE,
             cond |-> Loop!Configure(MapRes.cond, "api")]
  BY <1>5 DEF ACopy, MapRes
<1> HIDE DEF new
<1> QED BY <1>4, <1>6, <1>7, <1>8, <1>9
        DEF Loop!Begin, Loop!Put, MapCopy, MapRes, MapCurrent, MapRunning

\* A manager drops the copy of a reconcile that ends.
LEMMA IdleMap ==
    ASSUME TypeOK, NEW m \in Manager, pc[m] \in Working, Goto(m, "idle"),
           job' = [job EXCEPT ![m] = NoJob]
    PROVE  /\ MapCopy' = [MapCopy EXCEPT ![m]["api"] = None]
           /\ UNCHANGED MapRunning
<1>1. /\ pc'[m] = "idle" /\ pc[m] # "down"
      /\ \A k \in Manager \ {m} : pc'[k] = pc[k] /\ job'[k] = job[k]
  BY DEF Goto, TypeOK, Working
<1>2. CopyOf(m)' = None /\ \A k \in Manager \ {m} : CopyOf(k)' = CopyOf(k)
  BY <1>1 DEF CopyOf
<1> QED BY <1>1, <1>2, MapPut DEF MapRunning

\* A reconcile that saves or deletes may find its copy to be an old one.
LEMMA StoredMap ==
    ASSUME NEW m \in Manager
    PROVE  /\ Loop!IsStored(m, "api") <=> cr.exists /\ m \in crCurrent
           /\ cr' = cr /\ crCurrent' = crCurrent \ {m} => Loop!GiveUp(m, "api")
<1>1. <<m, "api">> \in MapCurrent <=> m \in crCurrent
  BY DEF MapCurrent, Controller
<1>2. (crCurrent \ {m}) \X Controller = MapCurrent \ {<<m, "api">>}
  BY DEF MapCurrent, Controller
<1> QED BY <1>1, <1>2 DEF Loop!IsStored, Loop!GiveUp, MapCurrent

\* The status is saved as the loop does.
LEMMA FinishMap ==
    ASSUME LoopInv, NEW m \in Manager, Finish(m)
    PROVE  Loop!Save(m, "api")
<1> DEFINE old == MapCopy[m]["api"]
<1>1. TypeOK /\ pc[m] = "finish" /\ pc[m] \in Working /\ LoopLocal(m)
  BY DEF LoopInv, Finish, Working, Phase
<1>2. old # None /\ old.done /\ old.cond = StatusOf("api", job[m].cond)
  BY <1>1, CopyFields
<1>3. MapCopy' = [MapCopy EXCEPT ![m]["api"] = None] /\ UNCHANGED MapRunning
  BY <1>1, IdleMap DEF Finish, Rest
<1>4. old.cond # MapRes.cond <=> job[m].cond # cr.cond
  BY <1>2 DEF MapRes, StatusOf, Controller
<1>5. m \in MapRunning
  BY <1>1 DEF MapRunning
<1>6. IF Loop!IsStored(m, "api") /\ old.cond # MapRes.cond
        THEN MapRes' = [MapRes EXCEPT !.cond = old.cond] /\ MapCurrent' = {}
        ELSE Loop!GiveUp(m, "api")
  <2>1. CASE job[m].cond # job[m].was /\ cr.exists /\ m \in crCurrent
    <3>1. cr' = [cr EXCEPT !.cond = job[m].cond] /\ crCurrent' = {}
      BY <2>1 DEF Finish, StoreResource
    <3>2. MapRes' = WithCond("api", MapRes, job[m].cond)
      <4>1. /\ cr'.exists = cr.exists /\ cr'.deleting = cr.deleting
            /\ cr'.cond = job[m].cond
        BY <1>1, <3>1 DEF TypeOK, Resource
      <4>2. /\ MapRes = ARes("api", cr.exists, cr.deleting, MapRes.finalizers, cr.cond)
            /\ MapRes' = ARes("api", cr.exists, cr.deleting, MapRes.finalizers, job[m].cond)
        BY <4>1, Zenon DEF MapRes, ARes, StatusOf, Controller
      <4> QED BY <4>2, ResEdits
    <3>3. MapCurrent' = {}
      BY <3>1 DEF MapCurrent
    <3> QED BY <1>1, <1>2, <1>4, <2>1, <3>2, <3>3, StoredMap DEF LoopLocal, WithCond
  <2>2. CASE ~(job[m].cond # job[m].was /\ cr.exists /\ m \in crCurrent)
    BY <1>1, <1>4, <2>2, StoredMap DEF Finish, LoopLocal
  <2> QED BY <2>1, <2>2
<1> QED BY <1>2, <1>3, <1>5, <1>6
        DEF Loop!Save, Loop!Working, Loop!StoreLoop, Loop!Put, MapCopy, MapRes,
            MapCurrent, MapRunning

\* Delete ends with the finalizer of the only controller there is.
LEMMA DeleteMap ==
    ASSUME LoopInv, NEW m \in Manager, Delete(m)
    PROVE  Loop!Finalize(m, "api")
<1> DEFINE old == MapCopy[m]["api"]
           rest == MapRes.finalizers \ {"api"}
<1>1. TypeOK /\ pc[m] = "delete" /\ pc[m] \in Working /\ LoopLocal(m)
  BY DEF LoopInv, Delete, Working, Phase
<1>2. old # None /\ ~old.done /\ old.deleting
  BY <1>1, CopyFields DEF LoopLocal
<1>3. MapCopy' = [MapCopy EXCEPT ![m]["api"] = None] /\ UNCHANGED MapRunning
  BY <1>1, IdleMap DEF Delete, Rest
<1>4. m \in MapRunning
  BY <1>1 DEF MapRunning
<1>5. IF Loop!IsStored(m, "api") /\ "api" \in MapRes.finalizers
        THEN /\ MapRes' = [MapRes EXCEPT !.finalizers = rest, !.exists = rest # {}]
             /\ MapCurrent' = {}
        ELSE Loop!GiveUp(m, "api")
  <2>1. CASE cr.exists /\ m \in crCurrent
    <3>1. cr' = [cr EXCEPT !.exists = FALSE] /\ crCurrent' = {}
      BY <2>1 DEF Delete, StoreResource
    <3>2. rest = {} /\ "api" \in MapRes.finalizers
      BY <2>1 DEF MapRes, Controller
    <3>3. MapRes' = WithFinalizers(MapRes, rest, rest # {})
      <4>1. /\ cr'.exists = FALSE /\ cr'.deleting = cr.deleting
            /\ cr'.cond = cr.cond
        BY <1>1, <3>1 DEF TypeOK, Resource
      <4>2. (rest # {}) = FALSE
        BY <3>2
      <4>3. /\ MapRes = ARes("api", cr.exists, cr.deleting, MapRes.finalizers, cr.cond)
            /\ MapRes' = ARes("api", rest # {}, cr.deleting, rest, cr.cond)
        BY <3>2, <4>1, <4>2, Zenon DEF MapRes, ARes, StatusOf, Controller
      <4> QED BY <4>3, ResEdits
    <3>4. MapCurrent' = {}
      BY <3>1 DEF MapCurrent
    <3> QED BY <2>1, <3>2, <3>3, <3>4, StoredMap DEF WithFinalizers
  <2>2. CASE ~(cr.exists /\ m \in crCurrent)
    BY <2>2, StoredMap DEF Delete
  <2> QED BY <2>1, <2>2
<1> QED BY <1>2, <1>3, <1>4, <1>5
        DEF Loop!Finalize, Loop!Working, Loop!StoreLoop, Loop!Put, MapCopy, MapRes,
            MapCurrent, MapRunning

\* A process ends, and one is started.
LEMMA DieMap ==
    ASSUME TypeOK, NEW m \in Manager, pc[m] # "down", Die(m), cr' = cr
    PROVE  Loop!Exit(m)
<1>1. /\ pc'[m] = "down" /\ crCurrent' = crCurrent \ {m}
      /\ \A k \in Manager \ {m} : pc'[k] = pc[k] /\ job'[k] = job[k]
  BY DEF Die, Rest, Goto, TypeOK
<1>2. CopyOf(m)' = None /\ \A k \in Manager \ {m} : CopyOf(k)' = CopyOf(k)
  BY <1>1 DEF CopyOf
<1>3. MapCopy' = [MapCopy EXCEPT ![m] = [c \in Controller |-> None]]
  BY <1>2 DEF MapCopy
<1>4. MapCurrent' = {x \in MapCurrent : x[1] # m}
  BY <1>1 DEF MapCurrent
<1>5. m \in MapRunning /\ MapRunning' = MapRunning \ {m} /\ UNCHANGED MapRes
  BY <1>1 DEF MapRunning, MapRes
<1> QED BY <1>3, <1>4, <1>5
        DEF Loop!Exit, Loop!NoCopies, MapCopy, MapRes, MapCurrent, MapRunning

LEMMA RestartMap ==
    ASSUME TypeOK, NEW m \in Manager, Restart(m)
    PROVE  Loop!Launch(m)
<1>1. /\ pc[m] = "down" /\ pc'[m] = "idle" /\ UNCHANGED <<job, cr, crCurrent>>
      /\ \A k \in Manager \ {m} : pc'[k] = pc[k]
  BY DEF Restart, Goto, TypeOK
<1>2. \A k \in Manager : CopyOf(k)' = CopyOf(k)
  BY <1>1 DEF CopyOf
<1>3. UNCHANGED <<MapRes, MapCopy, MapCurrent>>
  BY <1>1, <1>2 DEF MapRes, MapCopy, MapCurrent
<1>4. m \notin MapRunning /\ MapRunning' = MapRunning \union {m}
  BY <1>1 DEF MapRunning
<1> QED BY <1>3, <1>4 DEF Loop!Launch, MapCopy, MapRes, MapCurrent, MapRunning

\* What the user does to the resource.
LEMMA UserMap ==
    ASSUME TypeOK, UNCHANGED <<pc, job>>
    PROVE  /\ Edit => Loop!EditResource
           /\ DeleteResource => Loop!Condemn
<1>1. UNCHANGED <<MapCopy, MapRunning>>
  BY DEF MapCopy, CopyOf, MapRunning
<1>2. crCurrent' = {} => MapCurrent' = {}
  BY DEF MapCurrent
<1>3. ASSUME Edit PROVE Loop!EditResource
  <2>1. PICK e : cr' = [cr EXCEPT !.endpoint = e] /\ crCurrent' = {} /\ cr.exists
    BY <1>3 DEF Edit, StoreResource
  <2>2. cr'.exists = cr.exists /\ cr'.deleting = cr.deleting /\ cr'.cond = cr.cond
    BY <2>1 DEF TypeOK, Resource
  <2>3. MapRes' = MapRes /\ MapRes.exists
    BY <2>1, <2>2 DEF MapRes
  <2> QED BY <1>1, <1>2, <2>1, <2>3
          DEF Loop!EditResource, Loop!StoreLoop, MapCopy, MapRes, MapCurrent, MapRunning
<1>4. ASSUME DeleteResource PROVE Loop!Condemn
  <2> DEFINE yes == TRUE
  <2>1. /\ cr' = [cr EXCEPT !.deleting = TRUE] /\ crCurrent' = {}
        /\ cr.exists /\ ~cr.deleting
    BY <1>4 DEF DeleteResource, StoreResource
  <2>2. cr'.exists = cr.exists /\ cr'.deleting = yes /\ cr'.cond = cr.cond
    BY <2>1 DEF TypeOK, Resource
  <2>3. MapRes.exists /\ ~MapRes.deleting
    BY <2>1 DEF MapRes
  <2> HIDE DEF yes
  <2>4. /\ MapRes = ARes("api", cr.exists, cr.deleting, MapRes.finalizers, cr.cond)
        /\ MapRes' = ARes("api", cr.exists, yes, MapRes.finalizers, cr.cond)
    BY <2>2, Zenon DEF MapRes, ARes, StatusOf, Controller
  <2>5. MapRes' = WithDeleting(MapRes, yes)
    BY <2>4, ResEdits
  <2> QED BY <1>1, <1>2, <2>1, <2>3, <2>5
          DEF Loop!Condemn, Loop!StoreLoop, WithDeleting, yes, MapCopy, MapRes,
              MapCurrent, MapRunning
<1> QED BY <1>3, <1>4

-----------------------------------------------------------------------------
(* The invariant is kept.                                                  *)

LEMMA InitLoopInv == Init => LoopInv
<1> SUFFICES ASSUME Init PROVE \A m \in Manager : LoopLocal(m)
  BY InitType, InitReady DEF LoopInv
<1> QED BY DEF Init, LoopLocal

\* A step of one manager does not make the copies of the others current.
LEMMA OthersLocal ==
    ASSUME LoopInv, NEW m \in Manager, LoopLocal(m)',
           \A k \in Manager \ {m} : pc'[k] = pc[k] /\ job'[k] = job[k],
           crCurrent' \subseteq crCurrent \union {m},
           cr' = cr \/ crCurrent' = {}
    PROVE  \A k \in Manager : LoopLocal(k)'
BY DEF LoopInv, LoopLocal

\* A step of a reconcile that is under way, and stays so or has concluded.
LEMMA UnderWay ==
    ASSUME LoopInv, NEW m \in Manager, pc[m] \notin {"idle", "down"},
           NEW phase \in Phase \ {"idle", "down"}, Goto(m, phase),
           job'[m].was = job[m].was, job'[m].cond # "unset",
           phase = "delete" => job'[m].deleting,
           \A k \in Manager \ {m} : job'[k] = job[k],
           UNCHANGED <<cr, crCurrent>>
    PROVE  \A k \in Manager : LoopLocal(k)'
<1>1. pc'[m] = phase /\ \A k \in Manager \ {m} : pc'[k] = pc[k]
  BY DEF LoopInv, TypeOK, Goto
<1>2. LoopLocal(m)'
  BY <1>1 DEF LoopInv, LoopLocal
<1> QED BY <1>1, <1>2, OthersLocal

\* A reconcile ends, or its process.
LEMMA AtRest ==
    ASSUME LoopInv, NEW m \in Manager,
           Goto(m, "idle") \/ Goto(m, "down"),
           \A k \in Manager \ {m} : job'[k] = job[k],
           m \notin crCurrent', crCurrent' \subseteq crCurrent,
           cr' = cr \/ crCurrent' = {}
    PROVE  \A k \in Manager : LoopLocal(k)'
<1>1. pc'[m] \in {"idle", "down"} /\ \A k \in Manager \ {m} : pc'[k] = pc[k]
  BY DEF LoopInv, TypeOK, Goto
<1>2. LoopLocal(m)'
  BY <1>1 DEF LoopLocal
<1> QED BY <1>1, <1>2, OthersLocal

-----------------------------------------------------------------------------
(* Each action keeps the invariant and is a step of the loop, or of the    *)
(* handlers alone.                                                         *)

OfLoop(m) == Loop!Exit(m) \/ Loop!Launch(m) \/ Loop!LoopStep(m, "api")

Kept(m) ==
    /\ \A k \in Manager : LoopLocal(k)'
    /\ OfLoop(m) \/ UNCHANGED MapVars

LEMMA DieKept ==
    ASSUME LoopInv, NEW m \in Manager, pc[m] # "down", Die(m), cr' = cr
    PROVE  Kept(m)
<1>1. /\ \A k \in Manager \ {m} : job'[k] = job[k]
      /\ Goto(m, "down") /\ crCurrent' = crCurrent \ {m}
  BY DEF Die, Rest, LoopInv, TypeOK
<1>2. \A k \in Manager : LoopLocal(k)'
  BY <1>1, AtRest
<1> QED BY <1>2, DieMap DEF Kept, OfLoop, LoopInv

LEMMA ConcludeKept ==
    ASSUME LoopInv, NEW m \in Manager, pc[m] \in Working \ {"finish"},
           OnSuccess(m) \/ OnError(m) \/ Requeue(m),
           UNCHANGED <<cr, crCurrent>>
    PROVE  Kept(m)
<1> DEFINE outcome == job'[m].cond
<1>1. /\ Goto(m, "finish") /\ job'[m].was = job[m].was
      /\ job'[m].deleting = job[m].deleting
      /\ outcome \in {"False", "True"}
      /\ \A k \in Manager \ {m} : job'[k] = job[k]
  BY DEF OnSuccess, OnError, Requeue, Conclude, LoopInv, LoopLocal, TypeOK, Job, Cond,
         Working
<1>2. \A k \in Manager : LoopLocal(k)'
  BY <1>1, UnderWay DEF Working, Phase
<1> HIDE DEF outcome
<1>3. Loop!Conclude(m, "api", outcome)
  BY <1>1, ConcludeMap DEF LoopInv, outcome
<1> QED BY <1>1, <1>2, <1>3 DEF Kept, OfLoop, Loop!LoopStep

\* A move that edits no more of the job than its progress.
LEMMA MoveKept ==
    ASSUME LoopInv, NEW m \in Manager, pc[m] \in Working \ {"finish"},
           NEW phase \in Working \ {"finish"}, Goto(m, phase),
           job'[m].cond = job[m].cond, job'[m].deleting = job[m].deleting,
           job'[m].was = job[m].was, phase = "delete" => job[m].deleting,
           \A k \in Manager \ {m} : job'[k] = job[k],
           UNCHANGED <<cr, crCurrent>>
    PROVE  Kept(m)
<1>1. \A k \in Manager : LoopLocal(k)'
  BY UnderWay DEF LoopInv, LoopLocal, Working, Phase
<1>2. UNCHANGED MapVars
  BY MoveMap DEF LoopInv
<1> QED BY <1>1, <1>2 DEF Kept

LEMMA StartKept ==
    ASSUME LoopInv, NEW m \in Manager, Start(m)
    PROVE  Kept(m)
<1>1. /\ pc'[m] = "read" /\ job'[m].was = cr.cond /\ job'[m].cond # "unset"
      /\ \A k \in Manager \ {m} : pc'[k] = pc[k] /\ job'[k] = job[k]
      /\ crCurrent' = crCurrent \union {m} /\ cr' = cr
  BY DEF Start, Goto, LoopInv, TypeOK
<1>2. LoopLocal(m)'
  BY <1>1 DEF LoopLocal
<1> QED BY <1>1, <1>2, OthersLocal, StartMap
        DEF Kept, OfLoop, Loop!LoopStep, LoopInv

LEMMA ReadKept ==
    ASSUME LoopInv, NEW m \in Manager, Read(m) \/ ReadFails(m)
    PROVE  Kept(m)
<1>1. pc[m] \in Working \ {"finish"} /\ UNCHANGED <<cr, crCurrent>>
  BY DEF Read, ReadFails, Working, Phase
<1>2. CASE OnError(m) \/ Requeue(m)
  BY <1>1, <1>2, ConcludeKept
<1>3. CASE Goto(m, AfterRead(m)) /\ job' = job
  <2>1. /\ AfterRead(m) \in Working \ {"finish"}
        /\ AfterRead(m) = "delete" => job[m].deleting
    BY DEF AfterRead, Working, Phase
  <2> QED BY <1>1, <1>3, <2>1, MoveKept
<1> QED BY <1>2, <1>3 DEF Read, ReadFails, ReadOwn, ReadExternal

LEMMA DiffKept ==
    ASSUME LoopInv, NEW m \in Manager, Diff(m)
    PROVE  Kept(m)
<1>1. pc[m] \in Working \ {"finish"} /\ pc[m] # "down" /\ cr' = cr
  BY DEF Diff, Working, Phase
<1>2. CASE (OnSuccess(m) \/ OnError(m)) /\ crCurrent' = crCurrent
  BY <1>1, <1>2, ConcludeKept
<1>3. CASE Die(m)
  BY <1>1, <1>3, DieKept
<1>4. CASE Goto(m, "write") /\ UNCHANGED <<job, crCurrent>>
  BY <1>1, <1>4, MoveKept DEF Working, Phase
<1> QED BY <1>2, <1>3, <1>4 DEF Diff, Regenerate

LEMMA WriteKept ==
    ASSUME LoopInv, NEW m \in Manager, Write(m) \/ WriteFails(m)
    PROVE  Kept(m)
<1>1. /\ pc[m] \in Working \ {"finish"} /\ UNCHANGED <<cr, crCurrent>>
      /\ OnSuccess(m) \/ OnError(m)
  BY DEF Write, WriteFails, Working, Phase
<1> QED BY <1>1, ConcludeKept

LEMMA EndKept ==
    ASSUME LoopInv, NEW m \in Manager, Finish(m) \/ Delete(m)
    PROVE  Kept(m)
<1>1. /\ Goto(m, "idle") /\ \A k \in Manager \ {m} : job'[k] = job[k]
      /\ m \notin crCurrent' /\ crCurrent' \subseteq crCurrent
      /\ cr' = cr \/ crCurrent' = {}
  BY DEF Finish, Delete, Rest, StoreResource, LoopInv, TypeOK
<1>2. \A k \in Manager : LoopLocal(k)'
  BY <1>1, AtRest
<1>3. Loop!Save(m, "api") \/ Loop!Finalize(m, "api")
  BY FinishMap, DeleteMap
<1> QED BY <1>2, <1>3 DEF Kept, OfLoop, Loop!LoopStep

LEMMA ProcessKept ==
    ASSUME LoopInv, NEW m \in Manager, Crash(m) \/ Restart(m) \/ Sync(m)
    PROVE  Kept(m)
<1>1. CASE Crash(m)
  BY <1>1, DieKept DEF Crash
<1>2. CASE Restart(m)
  <2>1. /\ Goto(m, "idle") /\ pc[m] = "down" /\ UNCHANGED <<job, cr, crCurrent>>
    BY <1>2 DEF Restart
  <2>2. m \notin crCurrent
    BY <2>1 DEF LoopInv, LoopLocal
  <2>3. \A k \in Manager : LoopLocal(k)'
    BY <2>1, <2>2, AtRest
  <2> QED BY <1>2, <2>3, RestartMap DEF Kept, OfLoop, LoopInv
<1>3. CASE Sync(m)
  <2>1. UNCHANGED <<pc, job, cr, crCurrent>>
    BY <1>3 DEF Sync
  <2>2. UNCHANGED MapVars
    BY <2>1 DEF MapVars, MapRes, MapCopy, MapCurrent, MapRunning, CopyOf
  <2> QED BY <2>1, <2>2 DEF Kept, LoopInv, LoopLocal
<1> QED BY <1>1, <1>2, <1>3

\* What happens around the managers is an edit of the resource, or nothing to
\* the loop.
LEMMA AroundKept ==
    ASSUME LoopInv, Environment \/ UNCHANGED vars
    PROVE  /\ \A k \in Manager : LoopLocal(k)'
           /\ Loop!EditResource \/ Loop!Condemn \/ UNCHANGED MapVars
<1>1. /\ UNCHANGED <<pc, job>> /\ crCurrent' \subseteq crCurrent
      /\ cr' = cr \/ crCurrent' = {}
  BY DEF Environment, Tick, Edit, DeleteResource, Provision, Provide, Remove,
         StoreResource, Reconciles, vars
<1>2. \A k \in Manager : LoopLocal(k)'
  BY <1>1 DEF LoopInv, LoopLocal
<1>3. CASE Edit \/ DeleteResource
  BY <1>1, <1>2, <1>3, UserMap DEF LoopInv
<1>4. CASE Tick \/ Provision \/ Provide \/ Remove \/ UNCHANGED vars
  <2>1. UNCHANGED <<cr, crCurrent>>
    BY <1>4 DEF Tick, Provision, Provide, Remove, vars
  <2>2. UNCHANGED MapVars
    BY <1>1, <2>1 DEF MapVars, MapRes, MapCopy, MapCurrent, MapRunning, CopyOf
  <2> QED BY <1>2, <2>2
<1> QED BY <1>3, <1>4 DEF Environment

LEMMA NextKept ==
    ASSUME LoopInv, [Next]_vars
    PROVE  LoopInv' /\ [Loop!LoopNext]_MapVars
<1>1. ASSUME NEW m \in Manager, Reconcile(m) \/ Failure(m) \/ Restart(m) \/ Sync(m)
      PROVE  Kept(m)
  BY <1>1, StartKept, ReadKept, DiffKept, WriteKept, EndKept, ProcessKept
     DEF Reconcile, Failure
<1>2. ASSUME NEW m \in Manager, OfLoop(m)
      PROVE  Loop!LoopNext
  BY <1>2 DEF OfLoop, Loop!LoopNext, Controller
<1>3. Loop!EditResource \/ Loop!Condemn => Loop!LoopNext
  BY DEF Loop!LoopNext
<1>4. TypeOK' /\ AllReady'
  BY NextType, NextReady DEF LoopInv
<1>5. CASE \E m \in Manager : Reconcile(m) \/ Failure(m) \/ Restart(m) \/ Sync(m)
  BY <1>1, <1>2, <1>4, <1>5 DEF Kept, LoopInv
<1>6. CASE Environment \/ UNCHANGED vars
  BY <1>3, <1>4, <1>6, AroundKept DEF LoopInv
<1> QED BY <1>5, <1>6 DEF Next

\* The handlers touch the shared resource as the loop does, those that wait
\* for the user's secret and end the reconcile with neither OnSuccess nor
\* OnError included: the condition they then save is never unset, since
\* Configure ran before them.
THEOREM LoopImplemented == Spec => LoopKept
<1>1. Init => Loop!LoopInit
  <2> SUFFICES ASSUME Init PROVE Loop!LoopInit
    OBVIOUS
  <2>1. MapCopy = [m \in Manager |-> [c \in Controller |-> None]]
    BY DEF Init, MapCopy, CopyOf
  <2>2. MapRunning = Manager /\ MapCurrent = {}
    BY DEF Init, MapRunning, MapCurrent
  <2>3. MapRes = [exists |-> TRUE, deleting |-> FALSE, finalizers |-> Controller,
                  cond |-> [c \in Controller |-> "unset"]]
    BY DEF Init, MapRes
  <2> QED BY <2>1, <2>2, <2>3
          DEF Loop!LoopInit, Loop!NoCopies, MapRes, MapCopy, MapCurrent, MapRunning
<1>2. LoopInv /\ [Next]_vars => LoopInv' /\ [Loop!LoopNext]_MapVars
  BY NextKept
<1> QED BY <1>1, <1>2, InitLoopInv, PTL
        DEF Spec, LoopKept, Loop!LoopSpec, Loop!loopVars, MapVars, MapRes, MapCopy,
            MapCurrent, MapRunning
=============================================================================
