---------------------- MODULE TransportTlsLineageProofs ----------------------
(***************************************************************************)
(* TransportTls implements PkiLineage, and no success it reports is undone *)
(* under the same CA, for any number of nodes and managers, whatever they  *)
(* read from however old a cache.                                          *)
(*                                                                         *)
(* The argument is about ancestry.  What a cache holds is an earlier state *)
(* of what is stored, as long as the CA is the same; what a reconcile      *)
(* holds with the stored version's resourceVersion is a later one; and     *)
(* what it holds without a resourceVersion has a CA nobody else has.       *)
(***************************************************************************)
EXTENDS TransportTlsProofs

-----------------------------------------------------------------------------
(* The invariant.                                                          *)

Real(s) == s \notin {None, Malformed}

\* t has every certificate of s, if they have the same CA.
Within(s, t) ==
    Real(s) /\ Real(t) /\ s.ca.id = t.ca.id =>
        \A n \in Node : s.crt[n] # None => t.crt[n] = s.crt[n]

\* A cache holds an earlier state of the secret; once synced, the present one.
CacheTrails(m) ==
    /\ m \in synced => cache[m] = secret
    /\ Within(cache[m], secret)

\* What was read at the stored version has been added to at most.
LiveKeeps(m) ==
    rv[m] = "live" =>
        /\ Real(secret) /\ obj[m] # None
        /\ obj[m].ca = secret.ca
        /\ Within(secret, obj[m])

\* What was just generated, and is yet to be written, has a CA of its own.
Pending(m) == pc[m] = "write" /\ rv[m] = "unset"

FreshApart(m) ==
    Pending(m) =>
        /\ Real(secret) => secret.ca.id # obj[m].ca.id
        /\ \A k \in Manager :
             /\ Real(cache[k]) => cache[k].ca.id # obj[m].ca.id
             /\ k # m /\ obj[k] # None => obj[k].ca.id # obj[m].ca.id

\* Nothing is held between reconciles; what Diff checks was read.
Versions(m) ==
    /\ pc[m] \in {"idle", "read", "down"} => obj[m] = None /\ rv[m] = "unset"
    /\ pc[m] \in {"ca", "nodes", "admin"} /\ obj[m] # None => rv[m] # "unset"
    /\ pc[m] \in {"read", "ca"} => ~job[m].dirty

Reported(m) == pc[m] = "finish" /\ job[m].cond = "True"

Unedited(m) == pc[m] \in {"ca", "nodes", "admin"} /\ ~job[m].dirty

\* What Diff has not edited, and what a success is reported of, is an earlier
\* state of the secret.
HeldTrails(m) == Unedited(m) \/ Reported(m) => Within(obj[m], secret)

Certified(m, nodes) == obj[m] # None /\ \A n \in nodes : obj[m].crt[n] # None

\* The loop over the nodes leaves none of those it has visited without a
\* certificate.
Progress(m) ==
    /\ pc[m] = "ca" /\ obj[m] # None => job[m].todo = job[m].nodes
    /\ pc[m] = "nodes" => Certified(m, job[m].nodes \ job[m].todo)
    /\ pc[m] \in {"admin", "write"} \/ Reported(m) => Certified(m, job[m].nodes)

Local(m) ==
    CacheTrails(m) /\ LiveKeeps(m) /\ FreshApart(m) /\ Versions(m)
        /\ HeldTrails(m) /\ Progress(m)

Ancestry == \A m \in Manager : Local(m)

LInv == IInv /\ Ancestry

-----------------------------------------------------------------------------
(* Steps of one manager that leave the secret and the caches alone.        *)

\* What the other managers know of m.
ApartFromPending(m) ==
    \A k \in Manager \ {m} :
        Pending(k) /\ obj'[m] # None => obj'[m].ca.id # obj[k].ca.id

LEMMA OwnStep ==
    ASSUME Ancestry, TypeOK, NEW m \in Manager,
           UNCHANGED <<secret, cache, synced>>,
           \A k \in Manager \ {m} :
               /\ pc'[k] = pc[k] /\ job'[k] = job[k]
               /\ obj'[k] = obj[k] /\ rv'[k] = rv[k],
           ApartFromPending(m),
           LiveKeeps(m)', FreshApart(m)', Versions(m)', HeldTrails(m)', Progress(m)'
    PROVE  Ancestry'
<1> SUFFICES ASSUME NEW k \in Manager PROVE Local(k)'
  BY DEF Ancestry
<1>1. Local(k) /\ Local(m)
  BY DEF Ancestry
<1>2. CacheTrails(k)'
  BY <1>1 DEF Local, CacheTrails, Within, Real
<1>3. CASE k = m
  BY <1>2, <1>3 DEF Local
<1>4. CASE k # m
  <2>1. pc'[k] = pc[k] /\ job'[k] = job[k] /\ obj'[k] = obj[k] /\ rv'[k] = rv[k]
    BY <1>4
  <2>2. LiveKeeps(k)' /\ Versions(k)'
    BY <1>1, <2>1 DEF Local, LiveKeeps, Versions, Within, Real
  <2>3. FreshApart(k)'
    BY <1>1, <1>4, <2>1 DEF Local, FreshApart, Pending, Real, ApartFromPending
  <2>4. HeldTrails(k)' /\ Progress(k)'
    BY <1>1, <2>1 DEF Local, HeldTrails, Progress, Within, Real, Unedited, Reported, Certified
  <2> QED BY <1>2, <2>2, <2>3, <2>4 DEF Local
<1> QED BY <1>3, <1>4

\* What m holds is what it held, or has that one's CA: the others knew.
LEMMA KeepsApart ==
    ASSUME Ancestry, TypeOK, NEW m \in Manager,
           obj'[m] # None => obj[m] # None /\ obj'[m].ca = obj[m].ca
    PROVE  ApartFromPending(m)
BY DEF Ancestry, Local, FreshApart, ApartFromPending

\* A serial that is fresh is that of no CA around.
LEMMA FreshCA ==
    ASSUME TypeOK, NEW s, IsFresh(s, CAIds)
    PROVE  /\ Real(secret) => secret.ca.id # s
           /\ \A k \in Manager :
                /\ Real(cache[k]) => cache[k].ca.id # s
                /\ obj[k] # None => obj[k].ca.id # s
<1>1. ASSUME NEW c \in Copies PROVE c.ca.id # s
  <2>1. c.ca \in UNION {CAsOf(x) : x \in Copies}
    BY DEF CAsOf
  <2> QED BY <2>1 DEF CAIds, IsFresh
<1>2. Real(secret) => secret \in Copies
  BY DEF Real, Copies
<1>3. ASSUME NEW k \in Manager
      PROVE  /\ Real(cache[k]) => cache[k] \in Copies
             /\ obj[k] # None => obj[k] \in Copies
  BY NoSecretAssumption DEF Real, Copies, TypeOK
<1> QED BY <1>1, <1>2, <1>3

\* m comes to hold a secret just generated, with a fresh serial.
LEMMA FreshStep ==
    ASSUME LInv, NEW m \in Manager, NEW s, IsFresh(s, CAIds),
           NEW c \in Contents, c.ca.id = s,
           \A n \in job[m].nodes : c.crt[n] # None,
           Hold(m, c, "unset"), Goto(m, "write"), job' = job,
           UNCHANGED <<secret, cache, synced>>
    PROVE  Ancestry'
<1> USE DEF LInv, IInv
<1>1. /\ \A k \in Manager \ {m} :
            pc'[k] = pc[k] /\ job'[k] = job[k] /\ obj'[k] = obj[k] /\ rv'[k] = rv[k]
      /\ pc'[m] = "write" /\ obj'[m] = c /\ rv'[m] = "unset" /\ job'[m] = job[m]
  BY DEF TypeOK, Hold, Goto
<1>2. ApartFromPending(m) /\ FreshApart(m)'
  <2>1. c # None
    BY NoSecretAssumption
  <2>2. ApartFromPending(m)
    <3> SUFFICES ASSUME NEW k \in Manager \ {m}, Pending(k)
                 PROVE  obj'[m].ca.id # obj[k].ca.id
      BY DEF ApartFromPending
    <3>1. obj[k] # None
      BY DEF Ancestry, Local, Progress, Certified, Pending
    <3> QED BY <1>1, <3>1, FreshCA
  <2> QED BY <1>1, <2>2, FreshCA DEF FreshApart, Real
<1>3. LiveKeeps(m)' /\ Versions(m)' /\ HeldTrails(m)' /\ Progress(m)'
  BY <1>1, NoSecretAssumption
     DEF LiveKeeps, Versions, HeldTrails, Progress, Unedited, Reported, Certified
<1> QED BY <1>1, <1>2, <1>3, OwnStep

\* A reconcile ends with an error.
LEMMA ErrorStep ==
    ASSUME LInv, NEW m \in Manager, OnError(m), UNCHANGED <<secret, cache, synced, obj, rv>>
    PROVE  Ancestry'
<1> USE DEF LInv, IInv
<1>1. /\ \A k \in Manager \ {m} : pc'[k] = pc[k] /\ job'[k] = job[k]
      /\ pc'[m] = "finish" /\ job'[m].cond = "False"
  BY DEF TypeOK, OnError, Conclude, Goto, Job
<1>2. LiveKeeps(m)' /\ FreshApart(m)' /\ Versions(m)' /\ HeldTrails(m)' /\ Progress(m)'
  BY <1>1 DEF Ancestry, Local, LiveKeeps, FreshApart, Versions, HeldTrails, Progress,
              Within, Real, Pending, Unedited, Reported, Certified
<1> QED BY <1>1, <1>2, KeepsApart, OwnStep

\* A reconcile ends, or its process: nothing is held any more.
LEMMA RestStep ==
    ASSUME LInv, NEW m \in Manager, Hold(m, None, "unset"),
           pc' = [pc EXCEPT ![m] = "idle"] \/ pc' = [pc EXCEPT ![m] = "down"],
           job' = [job EXCEPT ![m] = NoJob], secret' = secret,
           \/ UNCHANGED <<cache, synced>>
           \/ cache' = [cache EXCEPT ![m] = None] /\ synced' = synced \ {m}
    PROVE  Ancestry'
<1> USE DEF LInv, IInv
<1> SUFFICES ASSUME NEW k \in Manager PROVE Local(k)'
  BY DEF Ancestry
<1>1. Local(k)
  BY DEF Ancestry
<1>2. CacheTrails(k)'
  BY <1>1 DEF TypeOK, Local, CacheTrails, Within, Real
<1>3. CASE k = m
  <2>1. pc'[k] \in {"idle", "down"} /\ obj'[k] = None /\ rv'[k] = "unset"
    BY <1>3 DEF TypeOK, Hold
  <2> QED BY <1>2, <2>1
          DEF Local, LiveKeeps, FreshApart, Versions, HeldTrails, Progress, Pending,
              Unedited, Reported
<1>4. CASE k # m
  <2>1. pc'[k] = pc[k] /\ job'[k] = job[k] /\ obj'[k] = obj[k] /\ rv'[k] = rv[k]
    BY <1>4 DEF TypeOK, Hold
  <2>2. LiveKeeps(k)' /\ Versions(k)'
    BY <1>1, <2>1 DEF Local, LiveKeeps, Versions, Within, Real
  <2>3. FreshApart(k)'
    BY <1>1, <1>4, <2>1 DEF TypeOK, Hold, Local, FreshApart, Pending, Real
  <2>4. HeldTrails(k)' /\ Progress(k)'
    BY <1>1, <2>1 DEF Local, HeldTrails, Progress, Within, Real, Unedited, Reported, Certified
  <2> QED BY <1>2, <2>2, <2>3, <2>4 DEF Local
<1> QED BY <1>3, <1>4

-----------------------------------------------------------------------------
(* Steps that store a secret, and steps that fill a cache.                 *)

\* A stored secret has at least what the one before it had, or a CA that no
\* copy but the one it was stored from has.
Succeeds(s, Writers) ==
    \/ ~Real(s)
    \/ Real(secret) /\ s.ca = secret.ca /\ Within(secret, s)
    \/ /\ Real(secret) => secret.ca.id # s.ca.id
       /\ \A k \in Manager :
            /\ Real(cache[k]) => cache[k].ca.id # s.ca.id
            /\ k \notin Writers /\ obj[k] # None => obj[k].ca.id # s.ca.id

\* Nobody but the writers moves on, and these report what they stored.
LEMMA StoreAncestry ==
    ASSUME LInv, NEW s \in Stored, NEW Writers \in SUBSET Manager,
           Succeeds(s, Writers), Store(s), UNCHANGED <<cache, obj>>,
           \A k \in Manager \ Writers : pc'[k] = pc[k] /\ job'[k] = job[k],
           \A k \in Writers :
               /\ obj[k] = s /\ pc[k] = "write" /\ pc'[k] = "finish"
               /\ job'[k].nodes = job[k].nodes
    PROVE  Ancestry'
<1> USE DEF LInv, IInv
<1> SUFFICES ASSUME NEW k \in Manager PROVE Local(k)'
  BY DEF Ancestry
<1>1. Local(k)
  BY DEF Ancestry
<1>2. /\ secret' = s /\ synced' = {} /\ cache' = cache /\ obj' = obj
      /\ rv'[k] # "live" /\ (rv'[k] = "unset" <=> rv[k] = "unset")
  BY DEF TypeOK, Store
<1>3. ASSUME NEW c, Within(c, secret), Real(s), Real(c),
             \/ c.ca.id # s.ca.id
             \/ Real(secret) /\ s.ca = secret.ca /\ Within(secret, s)
      PROVE  Within(c, s)
  BY <1>3 DEF Within
<1>4. CacheTrails(k)'
  <2>1. Within(cache[k], s)
    BY <1>1, <1>3 DEF Local, CacheTrails, Succeeds, Within
  <2> QED BY <1>2, <2>1 DEF CacheTrails, Within, Real
<1>5. LiveKeeps(k)'
  BY <1>2 DEF LiveKeeps
<1>6. CASE k \in Writers
  <2>1. obj[k] = s /\ pc[k] = "write" /\ pc'[k] = "finish" /\ job'[k].nodes = job[k].nodes
    BY <1>6
  <2>2. FreshApart(k)' /\ Versions(k)'
    BY <2>1 DEF FreshApart, Versions, Pending
  <2>3. HeldTrails(k)'
    BY <1>2, <2>1 DEF HeldTrails, Within
  <2>4. Progress(k)'
    BY <1>1, <1>2, <2>1 DEF Local, Progress, Certified, Reported
  <2> QED BY <1>4, <1>5, <2>2, <2>3, <2>4 DEF Local
<1>7. CASE k \notin Writers
  <2>1. pc'[k] = pc[k] /\ job'[k] = job[k]
    BY <1>7
  <2>2. FreshApart(k)'
    <3> SUFFICES ASSUME Pending(k), Real(s) PROVE s.ca.id # obj[k].ca.id
      BY <1>1, <1>2, <2>1 DEF Local, FreshApart, Pending, Real
    <3>1. obj[k] # None
      BY <1>1 DEF Local, Progress, Certified, Pending
    <3> QED BY <1>1, <1>7, <3>1 DEF Local, FreshApart, Succeeds
  <2>3. Versions(k)' /\ Progress(k)'
    BY <1>1, <1>2, <2>1 DEF Local, Versions, Progress, Certified, Reported
  <2>4. HeldTrails(k)'
    <3> SUFFICES ASSUME Unedited(k) \/ Reported(k), Real(obj[k]), Real(s)
                 PROVE  Within(obj[k], s)
      BY <1>2, <2>1 DEF HeldTrails, Unedited, Reported, Within, Real
    <3>1. Within(obj[k], secret) /\ obj[k] # None
      BY <1>1 DEF Local, HeldTrails, Real
    <3> QED BY <1>3, <1>7, <3>1 DEF Succeeds
  <2> QED BY <1>4, <1>5, <2>2, <2>3, <2>4 DEF Local
<1> QED BY <1>6, <1>7

\* A cache is filled with what is stored.
LEMMA FillStep ==
    ASSUME LInv, NEW m \in Manager, cache' = [cache EXCEPT ![m] = secret],
           synced' = synced \union {m}, UNCHANGED <<secret, job, obj, rv>>,
           pc' = pc \/ (pc[m] = "down" /\ Goto(m, "idle"))
    PROVE  Ancestry'
<1> USE DEF LInv, IInv
<1> SUFFICES ASSUME NEW k \in Manager PROVE Local(k)'
  BY DEF Ancestry
<1>1. Local(k)
  BY DEF Ancestry
<1>2. pc'[k] = pc[k] \/ (pc[k] = "down" /\ pc'[k] = "idle")
  BY DEF Goto, TypeOK
<1>3. CacheTrails(k)'
  BY <1>1 DEF TypeOK, Local, CacheTrails, Within, Real
<1>4. LiveKeeps(k)' /\ Versions(k)'
  BY <1>1, <1>2 DEF Local, LiveKeeps, Versions, Within, Real
<1>5. FreshApart(k)'
  BY <1>1, <1>2 DEF TypeOK, Local, FreshApart, Pending, Real
<1>6. HeldTrails(k)' /\ Progress(k)'
  BY <1>1, <1>2 DEF Local, HeldTrails, Progress, Within, Real, Unedited, Reported, Certified
<1> QED BY <1>3, <1>4, <1>5, <1>6 DEF Local

-----------------------------------------------------------------------------
(* The actions.                                                            *)

LEMMA StartAncestry ==
    ASSUME LInv, NEW m \in Manager, Start(m)
    PROVE  Ancestry'
<1> USE DEF LInv, IInv
<1>1. /\ \A k \in Manager \ {m} : pc'[k] = pc[k] /\ job'[k] = job[k]
      /\ pc'[m] = "read" /\ ~job'[m].dirty
  BY DEF TypeOK, Start, Goto
<1>2. obj[m] = None /\ rv[m] = "unset"
  BY DEF Start, Ancestry, Local, Versions
<1>3. LiveKeeps(m)' /\ FreshApart(m)' /\ Versions(m)' /\ HeldTrails(m)' /\ Progress(m)'
  BY <1>1, <1>2 DEF Start, LiveKeeps, FreshApart, Versions, HeldTrails, Progress,
                    Pending, Unedited, Reported
<1> QED BY <1>1, <1>3, KeepsApart, OwnStep DEF Start, Outside

LEMMA ReadAncestry ==
    ASSUME LInv, NEW m \in Manager, Read(m)
    PROVE  Ancestry'
<1> USE DEF LInv, IInv
<1>0. UNCHANGED <<secret, cache, synced>>
  BY DEF Read, Outside, Process
<1>1. AfterRead(m) \in {"delete", "ca"} /\ ~job[m].dirty
      /\ obj[m] = None /\ rv[m] = "unset"
  BY DEF AfterRead, Read, Ancestry, Local, Versions
<1>2. CASE cache[m] = None /\ Goto(m, AfterRead(m)) /\ UNCHANGED <<job, obj, rv>>
  <2>1. /\ \A k \in Manager \ {m} : pc'[k] = pc[k]
        /\ pc'[m] \in {"delete", "ca"}
    BY <1>1, <1>2 DEF TypeOK, Goto
  <2>2. LiveKeeps(m)' /\ FreshApart(m)' /\ Versions(m)' /\ HeldTrails(m)' /\ Progress(m)'
    BY <1>1, <1>2, <2>1 DEF LiveKeeps, FreshApart, Versions, HeldTrails, Progress,
                            Pending, Unedited, Reported, Within, Real
  <2> QED BY <1>0, <1>2, <2>1, <2>2, KeepsApart, OwnStep
<1>3. CASE OnError(m) /\ UNCHANGED <<obj, rv>>
  BY <1>0, <1>3, ErrorStep
<1>4. CASE /\ cache[m] \notin {None, Malformed}
           /\ Hold(m, cache[m], IF m \in synced THEN "live" ELSE "stale")
           /\ job' = [job EXCEPT ![m].todo = job[m].nodes]
           /\ Goto(m, AfterRead(m))
  <2>1. /\ \A k \in Manager \ {m} :
              pc'[k] = pc[k] /\ job'[k] = job[k] /\ obj'[k] = obj[k] /\ rv'[k] = rv[k]
        /\ pc'[m] \in {"delete", "ca"} /\ obj'[m] = cache[m]
        /\ rv'[m] = (IF m \in synced THEN "live" ELSE "stale")
        /\ job'[m].dirty = job[m].dirty /\ job'[m].todo = job'[m].nodes
    BY <1>1, <1>4 DEF TypeOK, Hold, Goto, Job
  <2>2. CacheTrails(m)
    BY DEF Ancestry, Local
  <2>3. ApartFromPending(m)
    BY <1>4, <2>1 DEF Ancestry, Local, FreshApart, ApartFromPending, Real
  <2>4. LiveKeeps(m)' /\ FreshApart(m)' /\ Versions(m)' /\ HeldTrails(m)' /\ Progress(m)'
    BY <1>0, <1>1, <1>4, <2>1, <2>2
       DEF CacheTrails, LiveKeeps, FreshApart, Versions, HeldTrails, Progress,
           Pending, Unedited, Reported, Within, Real
  <2> QED BY <1>0, <2>1, <2>3, <2>4, OwnStep
<1> QED BY <1>2, <1>3, <1>4 DEF Read

\* A renewal ends in an error, in the end of the process, or in a secret with
\* a CA of its own that has a certificate for every node.
LEMMA RenewAncestry ==
    ASSUME LInv, NEW m \in Manager, obj[m] \in Contents, Renew(m), UNCHANGED Outside
    PROVE  Ancestry'
<1> USE DEF LInv, IInv
<1>1. CASE OnError(m) /\ UNCHANGED <<obj, rv, Process>>
  BY <1>1, ErrorStep DEF Outside, Process
<1>2. CASE Die(m)
  BY <1>2, RestStep DEF Die, Goto, Outside
<1>3. ASSUME NEW s \in Serial, IsFresh(s, CAIds), obj[m].adminPfx # None,
             Hold(m, renewSecret(job[m].nodes, obj[m].adminPfx, s, now), "unset"),
             Goto(m, "write"), UNCHANGED <<job, Process>>
      PROVE  Ancestry'
  <2> DEFINE r == renewSecret(job[m].nodes, obj[m].adminPfx, s, now)
  <2>1. job[m].nodes \in SUBSET Node /\ now \in Nat /\ obj[m].adminPfx \in Pkcs12
    BY <1>3 DEF TypeOK, Job, Contents
  <2>2. r \in Contents
    BY <2>1, RenewSecretSound
  <2>3. r.ca.id = s /\ \A n \in job[m].nodes : r.crt[n] # None
    <3>1. IssueCertificate(NewRootCA(s, now), s, now) # None
      BY <2>1, NewRootCAType, IssueCertificateType, NoneAssumption
    <3> QED BY <2>1, <3>1 DEF renewSecret, Assemble, NewRootCA
  <2> HIDE DEF r
  <2>4. Hold(m, r, "unset")
    BY <1>3 DEF r
  <2> QED BY <1>3, <2>2, <2>3, <2>4, FreshStep DEF Outside, Process
<1> QED BY <1>1, <1>2, <1>3 DEF Renew

LEMMA CheckCAAncestry ==
    ASSUME LInv, NEW m \in Manager, CheckCA(m)
    PROVE  Ancestry'
<1> USE DEF LInv, IInv
<1>1. CASE Die(m)
  BY <1>1, RestStep DEF CheckCA, Die, Goto, Outside
<1>2. ASSUME NEW s \in Serial, IsFresh(s, CAIds),
             Hold(m, generateSecret(job[m].nodes, s, now), "unset"),
             Goto(m, "write"), UNCHANGED <<job, Process>>
      PROVE  Ancestry'
  <2> DEFINE r == generateSecret(job[m].nodes, s, now)
  <2>1. job[m].nodes \in SUBSET Node /\ now \in Nat
    BY DEF TypeOK, Job
  <2>2. r \in Contents
    BY <2>1, GenerateSecretSound
  <2>3. r.ca.id = s /\ \A n \in job[m].nodes : r.crt[n] # None
    <3>1. IssueCertificate(NewRootCA(s, now), s, now) # None
      BY <2>1, NewRootCAType, IssueCertificateType, NoneAssumption
    <3> QED BY <2>1, <3>1 DEF generateSecret, Assemble, NewRootCA
  <2> HIDE DEF r
  <2>4. Hold(m, r, "unset")
    BY <1>2 DEF r
  <2> QED BY <1>2, <2>2, <2>3, <2>4, FreshStep DEF CheckCA, Outside, Process
<1>3. CASE obj[m] # None /\ Renew(m)
  <2>1. obj[m] \in Contents
    BY <1>3 DEF TypeOK
  <2> QED BY <1>3, <2>1, RenewAncestry DEF CheckCA
<1>4. CASE /\ obj[m] # None
           /\ Goto(m, IF job[m].todo = {} THEN "admin" ELSE "nodes")
           /\ UNCHANGED <<job, obj, rv, Process>>
  <2>1. /\ \A k \in Manager \ {m} : pc'[k] = pc[k]
        /\ pc'[m] = (IF job[m].todo = {} THEN "admin" ELSE "nodes")
    BY <1>4 DEF TypeOK, Goto
  <2>2. pc[m] = "ca" /\ Local(m) /\ secret' = secret
    BY DEF CheckCA, Outside, Ancestry
  <2>3. LiveKeeps(m)' /\ FreshApart(m)'
    BY <1>4, <2>1, <2>2 DEF Local, LiveKeeps, FreshApart, Pending, Within, Real
  <2>4. Versions(m)' /\ HeldTrails(m)' /\ Progress(m)'
    BY <1>4, <2>1, <2>2 DEF Local, Versions, HeldTrails, Progress, Unedited, Reported,
                            Certified, Within, Real
  <2> QED BY <1>4, <2>1, <2>3, <2>4, KeepsApart, OwnStep DEF CheckCA, Outside, Process
<1> QED BY <1>1, <1>2, <1>3, <1>4 DEF CheckCA

\* The node that is checked gets a certificate, or has one.
LEMMA CheckNodeAncestry ==
    ASSUME LInv, NEW m \in Manager, NEW n \in Node, CheckNode(m, n)
    PROVE  Ancestry'
<1> USE DEF LInv, IInv
<1>1. pc[m] = "nodes" /\ obj[m] \in Contents /\ UNCHANGED Outside
  BY DEF CheckNode, Holding
<1>2. Local(m)
  BY DEF Ancestry
<1>3. ASSUME NEW dirty \in BOOLEAN, Checked(m, n, dirty)
      PROVE  /\ \A k \in Manager \ {m} : pc'[k] = pc[k] /\ job'[k] = job[k]
             /\ job'[m].nodes = job[m].nodes /\ job'[m].todo = job[m].todo \ {n}
             /\ dirty => job'[m].dirty
             /\ ~dirty => job'[m].dirty = job[m].dirty
             /\ pc'[m] = (IF job[m].todo \ {n} = {} THEN "admin" ELSE "nodes")
  <2> DEFINE edited == job[m].dirty \/ dirty
             j == [job[m] EXCEPT !.todo = job[m].todo \ {n}, !.dirty = edited]
  <2>1. job[m] \in Job /\ job \in [Manager -> Job] /\ pc \in [Manager -> Phase]
    BY DEF TypeOK
  <2>2. (dirty => edited) /\ (~dirty => edited = job[m].dirty)
    <3>1. job[m].dirty \in BOOLEAN
      BY <2>1 DEF Job
    <3> QED BY <1>3, <3>1, Zenon
  <2>3. job' = [job EXCEPT ![m] = j]
    BY <1>3 DEF Checked
  <2> HIDE DEF edited
  <2>4. j.nodes = job[m].nodes /\ j.todo = job[m].todo \ {n} /\ j.dirty = edited
    <3> HIDE DEF j
    <3>1. ASSUME NEW r \in Job, NEW t, NEW d
          PROVE  LET k == [r EXCEPT !.todo = t, !.dirty = d]
                 IN  k.nodes = r.nodes /\ k.todo = t /\ k.dirty = d
      BY DEF Job
    <3> QED BY <2>1, <3>1 DEF j
  <2> HIDE DEF j
  <2>5. job'[m] = j /\ \A k \in Manager \ {m} : job'[k] = job[k]
    BY <2>1, <2>3
  <2>6. /\ \A k \in Manager \ {m} : pc'[k] = pc[k]
        /\ pc'[m] = (IF job[m].todo \ {n} = {} THEN "admin" ELSE "nodes")
    BY <1>3, <2>1 DEF Checked, Goto
  <2>7. (dirty => job'[m].dirty) /\ (~dirty => job'[m].dirty = job[m].dirty)
    BY <2>2, <2>4, <2>5
  <2> QED BY <2>4, <2>5, <2>6, <2>7
<1>4. ASSUME NEW s \in Serial, obj[m].crt[n] = None, Checked(m, n, TRUE),
             obj' = [obj EXCEPT ![m] = WithNode(obj[m], n, s, now)],
             UNCHANGED <<rv, Process>>
      PROVE  Ancestry'
  <2> DEFINE new == IssueCertificate(obj[m].ca, s, now)
  <2>1. new # None
    BY <1>1, IssueCertificateType, NoneAssumption DEF TypeOK, Contents
  <2> HIDE DEF new
  <2>2. WithNode(obj[m], n, s, now) = [obj[m] EXCEPT !.crt[n] = new]
    BY DEF WithNode, new
  <2>3. /\ obj'[m].ca = obj[m].ca
        /\ obj'[m].crt = [obj[m].crt EXCEPT ![n] = new]
        /\ \A k \in Manager \ {m} : obj'[k] = obj[k]
    BY <1>1, <1>4, <2>2 DEF TypeOK, Contents
  <2>4. \A k \in Node : obj'[m].crt[k] = IF k = n THEN new ELSE obj[m].crt[k]
    BY <1>1, <2>3 DEF Contents
  <2>5. obj[m] # None /\ obj'[m] # None /\ Real(obj[m])
    <3>1. obj'[m] \in Contents
      BY <1>1, <1>4, WithNodeSound DEF TypeOK, Holding
    <3> QED BY <1>1, <3>1, NoSecretAssumption DEF Real
  <2>6. LiveKeeps(m)'
    BY <1>1, <1>2, <1>4, <2>3, <2>4, <2>5
       DEF Outside, Process, Local, LiveKeeps, Within, Real
  <2>7. FreshApart(m)' /\ Versions(m)' /\ HeldTrails(m)'
    BY <1>1, <1>2, <1>3, <1>4, <2>5
       DEF Local, FreshApart, Versions, HeldTrails, Pending, Unedited, Reported
  <2>8. Progress(m)'
    <3>1. \A k \in (job[m].nodes \ job[m].todo) \union {n} : obj'[m].crt[k] # None
      <4>1. Certified(m, job[m].nodes \ job[m].todo)
        BY <1>1, <1>2 DEF Local, Progress
      <4>2. job[m].nodes \subseteq Node
        BY DEF TypeOK, Job
      <4> QED BY <2>1, <2>4, <4>1, <4>2 DEF Certified
    <3>2. /\ job'[m].nodes = job[m].nodes /\ job'[m].todo = job[m].todo \ {n}
          /\ pc'[m] = (IF job[m].todo \ {n} = {} THEN "admin" ELSE "nodes")
      BY <1>3, <1>4
    <3>3. Certified(m, job[m].nodes \ job[m].todo)'
      BY <2>5, <3>1, <3>2 DEF Certified
    <3>4. pc'[m] = "admin" => Certified(m, job[m].nodes)'
      BY <3>2, <3>3 DEF Certified
    <3> QED BY <3>2, <3>3, <3>4 DEF Progress, Reported
  <2> QED BY <1>1, <1>3, <1>4, <2>3, <2>5, <2>6, <2>7, <2>8, KeepsApart, OwnStep
          DEF Outside, Process
<1>5. CASE Renew(m)
  BY <1>1, <1>5, RenewAncestry
<1>6. CASE obj[m].crt[n] # None /\ Checked(m, n, FALSE) /\ UNCHANGED <<obj, rv, Process>>
  <2>1. LiveKeeps(m)' /\ FreshApart(m)' /\ Versions(m)'
    BY <1>1, <1>2, <1>3, <1>6
       DEF Local, LiveKeeps, FreshApart, Versions, Pending, Within, Real, Outside
  <2>2. HeldTrails(m)' /\ Progress(m)'
    BY <1>1, <1>2, <1>3, <1>6
       DEF Local, HeldTrails, Progress, Certified, Unedited, Reported, Within, Real, Outside
  <2> QED BY <1>1, <1>3, <1>6, <2>1, <2>2, KeepsApart, OwnStep DEF Outside, Process
<1> QED BY <1>4, <1>5, <1>6 DEF CheckNode

\* A reconcile moves from its last check to the write or to its end; what it
\* holds keeps its CA and its nodes' certificates.
LEMMA CheckAdminAncestry ==
    ASSUME LInv, NEW m \in Manager, CheckAdmin(m)
    PROVE  Ancestry'
<1> USE DEF LInv, IInv
<1>1. pc[m] = "admin" /\ obj[m] \in Contents /\ UNCHANGED <<Outside, Process, rv>>
  BY DEF CheckAdmin, Holding
<1>2. Local(m) /\ rv[m] # "unset" /\ Real(obj[m])
  BY <1>1, NoSecretAssumption DEF Ancestry, Local, Versions, Real
<1>3. ASSUME obj'[m] \in Contents, obj'[m].ca = obj[m].ca, obj'[m].crt = obj[m].crt,
             \A k \in Manager \ {m} : obj'[k] = obj[k],
             \/ Goto(m, "write") /\ job' = job
             \/ OnSuccess(m) /\ ~job[m].dirty
      PROVE  Ancestry'
  <2>1. /\ \A k \in Manager \ {m} : pc'[k] = pc[k] /\ job'[k] = job[k]
        /\ job'[m].nodes = job[m].nodes
        /\ pc'[m] = "write" \/ (pc'[m] = "finish" /\ ~job[m].dirty)
    BY <1>3 DEF TypeOK, Goto, OnSuccess, Conclude, Job
  <2>2. obj[m] # None /\ obj'[m] # None /\ Real(obj'[m])
    BY <1>1, <1>3, NoSecretAssumption DEF Real
  <2>3. LiveKeeps(m)' /\ FreshApart(m)' /\ Versions(m)'
    BY <1>1, <1>2, <1>3, <2>1, <2>2
       DEF Local, LiveKeeps, FreshApart, Versions, Pending, Within, Real, Outside
  <2>4. HeldTrails(m)' /\ Progress(m)'
    BY <1>1, <1>2, <1>3, <2>1, <2>2
       DEF Local, HeldTrails, Progress, Certified, Unedited, Reported, Within, Real, Outside
  <2> QED BY <1>1, <1>3, <2>1, <2>2, <2>3, <2>4, KeepsApart, OwnStep DEF Outside, Process
<1>4. ASSUME NEW s \in Serial, obj' = [obj EXCEPT ![m] = WithAdmin(obj[m], s, now)],
             Goto(m, "write"), job' = job
      PROVE  Ancestry'
  <2>1. WithAdmin(obj[m], s, now) \in Contents
    BY <1>1, WithAdminSound DEF TypeOK, Holding
  <2>2. /\ WithAdmin(obj[m], s, now).ca = obj[m].ca
        /\ WithAdmin(obj[m], s, now).crt = obj[m].crt
    BY <1>1 DEF WithAdmin, Contents
  <2> QED BY <1>3, <1>4, <2>1, <2>2 DEF TypeOK
<1>5. CASE obj' = obj /\ \/ Goto(m, "write") /\ job' = job
                         \/ OnSuccess(m) /\ ~job[m].dirty
  BY <1>1, <1>3, <1>5
<1> QED BY <1>4, <1>5 DEF CheckAdmin

\* What a write that is accepted stores succeeds what was stored.
LEMMA AcceptedSucceeds ==
    ASSUME LInv, NEW m \in Manager, pc[m] = "write", Accepted(m)
    PROVE  obj[m] \in Contents /\ Succeeds(obj[m], {m})
<1>1. obj[m] \in Contents /\ Local(m) /\ rv[m] \in {"unset", "live"}
  BY DEF LInv, IInv, TypeOK, Holding, Ancestry, Accepted
<1>2. CASE rv[m] = "live"
  BY <1>1, <1>2 DEF Local, LiveKeeps, Succeeds
<1>3. CASE rv[m] = "unset"
  BY <1>1, <1>3 DEF Local, FreshApart, Pending, Succeeds
<1> QED BY <1>1, <1>2, <1>3

\* A write that is accepted, whatever its answer, or one that is not.
LEMMA WriteAncestry ==
    ASSUME LInv, NEW m \in Manager, Write(m) \/ WriteFails(m)
    PROVE  Ancestry'
<1>1. pc[m] = "write" /\ UNCHANGED <<cache, obj>>
  BY DEF Write, WriteFails
<1>2. CASE Accepted(m) /\ Store(obj[m])
  <2>1. obj[m] \in Stored /\ Succeeds(obj[m], {m})
    BY <1>1, <1>2, AcceptedSucceeds DEF Stored
  <2>2. /\ \A k \in Manager \ {m} : pc'[k] = pc[k] /\ job'[k] = job[k]
        /\ pc'[m] = "finish" /\ job'[m].nodes = job[m].nodes
    BY DEF LInv, IInv, TypeOK, Write, WriteFails, OnSuccess, OnError, Conclude, Goto, Job
  <2> QED BY <1>1, <1>2, <2>1, <2>2, StoreAncestry
<1>3. CASE OnError(m) /\ UNCHANGED <<secret, synced, rv>>
  BY <1>1, <1>3, ErrorStep
<1> QED BY <1>2, <1>3 DEF Write, WriteFails

\* What others store succeeds what was stored.
LEMMA OutsideSucceeds ==
    ASSUME LInv, Provision \/ Remove
    PROVE  \E s \in Stored : Succeeds(s, {}) /\ Store(s)
<1> USE DEF LInv, IInv
<1>1. ASSUME NEW s \in Serial, NEW life \in ForeignLife, IsFresh(s, CAIds),
             Store(Foreign(s, life))
      PROVE  \E t \in Stored : Succeeds(t, {}) /\ Store(t)
  <2>1. Foreign(s, life) \in Stored
    BY ForeignSound DEF Stored
  <2>2. Foreign(s, life).ca.id = s
    BY DEF Foreign, Assemble
  <2>3. Succeeds(Foreign(s, life), {})
    BY <1>1, <2>2, FreshCA DEF Succeeds
  <2> QED BY <1>1, <2>1, <2>3
<1>2. CASE Store(None) \/ Store(Malformed)
  <2>1. /\ None \in Stored /\ Succeeds(None, {})
        /\ Malformed \in Stored /\ Succeeds(Malformed, {})
    BY DEF Stored, Succeeds, Real
  <2> QED BY <1>2, <2>1
<1> QED BY <1>1, <1>2 DEF Provision, Remove

LEMMA OutsideAncestry ==
    ASSUME LInv, Provision \/ Remove
    PROVE  Ancestry'
<1>1. UNCHANGED <<cache, obj, pc, job>>
  BY DEF Provision, Remove, Reconciles
<1> QED BY <1>1, OutsideSucceeds, StoreAncestry

LEMMA InitLInv == Init => LInv
<1> SUFFICES ASSUME Init PROVE Ancestry
  BY InitIInv DEF LInv
<1> QED BY DEF Init, Ancestry, Local, CacheTrails, LiveKeeps, FreshApart, Versions, HeldTrails,
               Progress, Within, Real, Pending, Unedited, Reported

LEMMA NextLInv == LInv /\ [Next]_vars => LInv'
<1> SUFFICES ASSUME LInv, [Next]_vars PROVE Ancestry'
  BY NextIInv DEF LInv
<1>1. ASSUME NEW m \in Manager, Delete(m) \/ Finish(m)
      PROVE  Ancestry'
  BY <1>1, RestStep DEF Delete, Finish, Goto
<1>2. ASSUME NEW m \in Manager, ReadFails(m)
      PROVE  Ancestry'
  BY <1>2, ErrorStep DEF ReadFails, Process
<1>3. ASSUME NEW m \in Manager, Crash(m)
      PROVE  Ancestry'
  BY <1>3, RestStep DEF Crash, Die, Goto
<1>4. ASSUME NEW m \in Manager, Restart(m) \/ Sync(m)
      PROVE  Ancestry'
  BY <1>4, FillStep DEF Restart, Sync, Outside
<1>5. ASSUME UNCHANGED <<secret, cache, synced, pc, job, obj, rv>>
      PROVE  Ancestry'
  BY <1>5 DEF LInv, Ancestry, Local, CacheTrails, LiveKeeps, FreshApart, Versions,
              HeldTrails, Progress, Within, Real, Pending, Unedited, Reported, Certified
<1>6. CASE Tick \/ Scale \/ DeleteResource \/ UNCHANGED vars
  BY <1>5, <1>6 DEF Tick, Scale, DeleteResource, StoreResource, Reconciles, vars
<1>7. ASSUME NEW m \in Manager, Reconcile(m)
      PROVE  Ancestry'
  BY <1>1, <1>7, StartAncestry, ReadAncestry, CheckCAAncestry, CheckNodeAncestry,
     CheckAdminAncestry, WriteAncestry DEF Reconcile
<1> QED BY <1>2, <1>3, <1>4, <1>6, <1>7, WriteAncestry, OutsideAncestry
        DEF Next, Failure, Environment

\* The ancestry of every copy holds of every run.
THEOREM AncestryInvariance == Spec => []LInv
BY InitLInv, NextLInv, PTL DEF Spec

-----------------------------------------------------------------------------
(* What follows from it.                                                   *)

\* A reconcile that reports success leaves every node it was asked for with a
\* certificate, and no write under the same CA takes one away while the report
\* is on its way: what it held is an earlier state of what is stored.
THEOREM SuccessStaysDurable == Spec => []SuccessIsDurable
<1>1. LInv => SuccessIsDurable
  <2> SUFFICES ASSUME LInv, NEW m \in Manager, Reported(m), Real(secret),
                      secret.ca = obj[m].ca, NEW n \in job[m].nodes
               PROVE  secret.crt[n] # None
    BY DEF SuccessIsDurable, Reported, Real
  <2>1. Within(obj[m], secret) /\ Certified(m, job[m].nodes) /\ n \in Node
    BY DEF LInv, IInv, TypeOK, Job, Ancestry, Local, HeldTrails, Progress
  <2>2. Real(obj[m])
    BY <2>1, NoSecretAssumption DEF LInv, IInv, TypeOK, Certified, Real
  <2> QED BY <2>1, <2>2 DEF Within, Certified
<1> QED BY <1>1, AncestryInvariance, PTL

\* Whoever stores a secret, it succeeds the one before.
LEMMA StoredSucceeds ==
    ASSUME LInv, [Next]_vars
    PROVE  secret' = secret \/ \E Writers \in SUBSET Manager : Succeeds(secret', Writers)
<1>1. ASSUME NEW m \in Manager, Write(m) \/ WriteFails(m)
      PROVE  secret' = secret \/ Succeeds(secret', {m})
  BY <1>1, AcceptedSucceeds DEF Write, WriteFails, Store
<1>2. ASSUME Provision \/ Remove
      PROVE  Succeeds(secret', {})
  BY <1>2, OutsideSucceeds DEF Store
<1>3. ASSUME NEW m \in Manager,
             \/ Start(m) \/ Read(m) \/ Delete(m) \/ CheckCA(m) \/ CheckAdmin(m)
             \/ Finish(m) \/ ReadFails(m) \/ Crash(m) \/ Restart(m) \/ Sync(m)
             \/ \E n \in Node : CheckNode(m, n)
      PROVE  secret' = secret
  BY <1>3 DEF Start, Read, Delete, CheckCA, CheckAdmin, Finish, ReadFails, Crash,
              Restart, Sync, CheckNode, Outside
<1>4. Tick \/ Scale \/ DeleteResource \/ UNCHANGED vars => secret' = secret
  BY DEF Tick, Scale, DeleteResource, vars
<1> QED BY <1>1, <1>2, <1>3, <1>4 DEF Next, Reconcile, Failure, Environment

\* Once the resource and its secret are gone, nothing stores another: a write
\* finds no object to update, whatever it holds.
THEOREM DeletedStaysDeleted == Spec => StaysDeleted
<1>1. [Next]_vars => [~cr.exists /\ secret = None => secret' = None]_<<cr, secret>>
  <2> SUFFICES ASSUME [Next]_vars, ~cr.exists, secret = None
               PROVE  secret' = None
    OBVIOUS
  <2>1. ASSUME NEW m \in Manager, Reconcile(m) \/ Failure(m) \/ Restart(m) \/ Sync(m)
        PROVE  secret' = secret
    BY <2>1 DEF Reconcile, Start, Read, Delete, CheckCA, CheckAdmin, Write, Finish,
                CheckNode, Failure, ReadFails, WriteFails, Crash, Restart, Sync,
                Accepted, Outside
  <2>2. Environment \/ UNCHANGED vars => secret' = secret
    BY DEF Environment, Tick, Scale, DeleteResource, Provision, Remove, vars
  <2> QED BY <2>1, <2>2 DEF Next
<1> QED BY <1>1, PTL DEF Spec, StaysDeleted

-----------------------------------------------------------------------------
(* The refinement.                                                         *)

PkiOf(s) == IF s \in {None, Malformed} THEN None ELSE [ca |-> s.ca, crt |-> s.crt]

\* What is stored is a PKI of the lineage, if it is one at all.
LEMMA PkiSound ==
    ASSUME NEW s \in Stored, Sound(s), Real(s)
    PROVE  /\ PkiOf(s) # None /\ PkiOf(s) \in Lineage!Lineage
           /\ Lineage!SignedBy(PkiOf(s))
           /\ PkiOf(s).ca = s.ca /\ PkiOf(s).crt = s.crt
<1>1. s \in Contents /\ Coherent(s)
  BY DEF Stored, Sound, Real
<1>2. PkiOf(s) = [ca |-> s.ca, crt |-> s.crt]
  BY DEF PkiOf, Real
<1>3. PkiOf(s) \in Lineage!Lineage
  BY <1>1, <1>2 DEF Contents, CACert, LeafCert, Lineage!Lineage, Lineage!CACert,
                    Lineage!LeafCert
<1>4. Lineage!SignedBy(PkiOf(s))
  BY <1>1, <1>2 DEF Coherent, Lineage!SignedBy
<1> QED BY <1>2, <1>3, <1>4, NoPkiAssumption

\* Every step of the reconcilers and of their surroundings is one of the
\* lineage: certificates are added, or a CA of its own takes over.
LEMMA LineageStep ==
    ASSUME LInv, LInv', [Next]_vars
    PROVE  [Lineage!Next]_(PkiOf(secret))
<1> SUFFICES ASSUME PkiOf(secret') # PkiOf(secret) PROVE Lineage!Next
  BY DEF PkiOf
<1>1. secret \in Stored /\ Sound(secret) /\ secret' \in Stored /\ Sound(secret')
  BY DEF LInv, IInv, TypeOK, AllSound, Sound, Coherent
<1>2. CASE ~Real(secret')
  <2>1. PkiOf(secret') = None
    BY <1>2 DEF PkiOf, Real
  <2> QED BY <2>1 DEF PkiOf, Lineage!Next, Lineage!Remove
<1>3. CASE Real(secret') /\ ~Real(secret)
  <2>1. PkiOf(secret) = None
    BY <1>3 DEF PkiOf, Real
  <2>2. PkiOf(secret') \in Lineage!Lineage /\ Lineage!SignedBy(PkiOf(secret'))
    BY <1>1, <1>3, PkiSound
  <2> QED BY <2>1, <2>2 DEF PkiOf, Lineage!Next, Lineage!Establish
<1>4. CASE Real(secret') /\ Real(secret)
  <2>1. /\ PkiOf(secret) # None /\ PkiOf(secret') # None
        /\ PkiOf(secret') \in Lineage!Lineage /\ Lineage!SignedBy(PkiOf(secret'))
        /\ PkiOf(secret).ca = secret.ca /\ PkiOf(secret').ca = secret'.ca
        /\ PkiOf(secret).crt = secret.crt /\ PkiOf(secret').crt = secret'.crt
    BY <1>1, <1>4, PkiSound
  <2>2. PICK Writers \in SUBSET Manager : Succeeds(secret', Writers)
    BY StoredSucceeds
  <2>3. CASE secret'.ca = secret.ca /\ Within(secret, secret')
    <3>1. \A n \in Node : secret.crt[n] # None => secret'.crt[n] = secret.crt[n]
      BY <1>4, <2>3 DEF Within
    <3> QED BY <2>1, <2>3, <3>1 DEF PkiOf, Lineage!Next, Lineage!Extend
  <2>4. CASE secret'.ca.id # secret.ca.id
    BY <2>1, <2>4 DEF PkiOf, Lineage!Next, Lineage!Replace
  <2> QED BY <1>4, <2>2, <2>3, <2>4 DEF Succeeds
<1> QED BY <1>2, <1>3, <1>4

\* Under one CA the nodes' certificates are only added to, and a CA that takes
\* over has a key and certificates of its own: the detailed specification, with
\* its old caches, lost answers and writes that are compared with nothing,
\* implements the abstract one.
THEOREM LineageImplemented == Spec => LineageKept
<1>1. Init => Lineage!Init
  BY DEF Init, Lineage!Init
<1>2. LInv /\ LInv' /\ [Next]_vars => [Lineage!Next]_(PkiOf(secret))
  BY LineageStep
<1> QED BY <1>1, <1>2, AncestryInvariance, PTL DEF Spec, LineageKept, Lineage!Spec, PkiOf
=============================================================================
