------------------------ MODULE TransportTlsLoopProofs ------------------------
(***************************************************************************)
(* TransportTls implements ReconcileLoop: whatever way a reconcile takes   *)
(* through its handlers, it touches the shared resource as the loop does,  *)
(* for any number of nodes and managers.                                   *)
(***************************************************************************)
EXTENDS TransportTlsProofs, LoopMappings

-----------------------------------------------------------------------------
(* The invariant.                                                          *)

\* A copy of the resource that is the stored one is that of a reconcile under
\* way, which remembers the status it got; and Delete is for a resource that
\* was being deleted when the reconcile got it.
LoopLocal(m) ==
    /\ m \in crCurrent => pc[m] \notin {"idle", "down"} /\ job[m].was = cr.cond
    /\ pc[m] = "delete" => job[m].deleting

LoopInv == IInv /\ \A m \in Manager : LoopLocal(m)

-----------------------------------------------------------------------------
(* The refinement mapping.                                                 *)

MapRes == [exists |-> cr.exists, deleting |-> cr.deleting,
           finalizers |-> IF cr.exists THEN Controller ELSE {},
           cond |-> [c \in Controller |-> cr.cond]]
MapCopy == [m \in Manager |-> [c \in Controller |-> CopyOf(m)]]
MapCurrent == crCurrent \X Controller
MapRunning == {m \in Manager : pc[m] # "down"}
MapVars == <<MapRes, MapCopy, MapCurrent, MapRunning>>

Working == Phase \ {"idle", "down"}

\* A reconcile under way has a copy.
LEMMA CopyOfType ==
    ASSUME TypeOK, NEW m \in Manager, pc[m] \in Working
    PROVE  /\ CopyOf(m) # None
           /\ \E done \in BOOLEAN :
                /\ done <=> pc[m] = "finish"
                /\ CopyOf(m) = ACopy("transport", job[m].deleting, done, job[m].cond)
<1>1. CopyOf(m) = ACopy("transport", job[m].deleting, pc[m] = "finish", job[m].cond)
  BY DEF CopyOf, Working, ACopy, StatusOf, Controller
<1>2. CopyOf(m) \in Loop!Copy
  <2>1. job[m].deleting \in BOOLEAN /\ job[m].cond \in Cond
    BY DEF TypeOK, Job
  <2>2. (pc[m] = "finish") \in BOOLEAN
    OBVIOUS
  <2>3. StatusOf("transport", job[m].cond) \in Loop!Status
    BY <2>1 DEF StatusOf, Controller, Loop!Status, Loop!Cond, Cond
  <2> QED BY <1>1, <2>1, <2>2, <2>3 DEF Loop!Copy, ACopy
<1>3. CopyOf(m) # None
  BY <1>2, NoCopyAssumption
<1>4. \E done \in BOOLEAN :
         /\ done <=> pc[m] = "finish"
         /\ CopyOf(m) = ACopy("transport", job[m].deleting, done, job[m].cond)
  <2> WITNESS (pc[m] = "finish") \in BOOLEAN
  <2> QED BY <1>1, Zenon
<1> QED BY <1>3, <1>4

\* What the loop looks at in that copy.
LEMMA CopyFields ==
    ASSUME TypeOK, NEW m \in Manager, pc[m] \in Working
    PROVE  LET old == MapCopy[m]["transport"]
           IN  /\ old # None /\ old = CopyOf(m)
               /\ old.done <=> pc[m] = "finish"
               /\ old.deleting = job[m].deleting
               /\ old.cond = StatusOf("transport", job[m].cond)
<1>1. MapCopy[m]["transport"] = CopyOf(m)
  BY DEF MapCopy, Controller
<1>2. PICK done \in BOOLEAN :
        /\ done <=> pc[m] = "finish"
        /\ CopyOf(m) = ACopy("transport", job[m].deleting, done, job[m].cond)
  BY CopyOfType
<1>3. /\ CopyOf(m).done = done
      /\ CopyOf(m).cond = StatusOf("transport", job[m].cond)
  BY <1>2 DEF ACopy
<1>4. CopyOf(m).deleting = job[m].deleting
  <2>1. \A c, deleting, d, cond : ACopy(c, deleting, d, cond).deleting = deleting
    BY DEF ACopy
  <2> QED BY <1>2, <2>1
<1> QED BY <1>1, <1>2, <1>3, <1>4, CopyOfType

\* The copy of a manager is replaced, and that of no other.
LEMMA MapPut ==
    ASSUME NEW m \in Manager, NEW v, CopyOf(m)' = v,
           \A k \in Manager \ {m} : CopyOf(k)' = CopyOf(k)
    PROVE  MapCopy' = [MapCopy EXCEPT ![m]["transport"] = v]
BY DEF MapCopy, Controller

\* A step within the handlers is none of the loop's.
LEMMA MoveMap ==
    ASSUME TypeOK, NEW m \in Manager, pc[m] \in Working \ {"finish"},
           NEW phase \in Working \ {"finish"}, Goto(m, phase),
           job'[m].cond = job[m].cond, job'[m].deleting = job[m].deleting,
           \A k \in Manager \ {m} : job'[k] = job[k],
           UNCHANGED <<cr, crCurrent>>
    PROVE  UNCHANGED MapVars
<1>1. \A k \in Manager : CopyOf(k)' = CopyOf(k)
  BY DEF CopyOf, TypeOK, Goto, Working
<1>2. MapRunning' = MapRunning
  BY DEF MapRunning, TypeOK, Goto, Working
<1> QED BY <1>1, <1>2 DEF MapVars, MapCopy, MapRes, MapCurrent

\* OnSuccess and OnError are the loop's.
LEMMA ConcludeMap ==
    ASSUME TypeOK, NEW m \in Manager, pc[m] \in Working \ {"finish"},
           NEW outcome \in {"False", "True"}, Conclude(m, outcome),
           UNCHANGED <<cr, crCurrent>>
    PROVE  Loop!Conclude(m, "transport", outcome)
<1>1. /\ pc'[m] = "finish" /\ job'[m].cond = outcome
      /\ job'[m].deleting = job[m].deleting
      /\ \A k \in Manager \ {m} : pc'[k] = pc[k] /\ job'[k] = job[k]
  BY DEF Conclude, Goto, TypeOK, Job
<1> DEFINE yes == TRUE
           new == WithOutcome("transport", CopyOf(m), outcome, yes)
<1>2. CopyOf(m)' = new
  <2>1. (pc'[m] = "finish") = yes
    BY <1>1
  <2> HIDE DEF yes
  <2>2. CopyOf(m)' = ACopy("transport", job'[m].deleting, pc'[m] = "finish", job'[m].cond)
    BY <1>1 DEF CopyOf, ACopy, StatusOf, Controller
  <2>3. CopyOf(m)' = ACopy("transport", job[m].deleting, yes, outcome)
    BY <1>1, <2>1, <2>2, Zenon
  <2>4. PICK done : CopyOf(m) = ACopy("transport", job[m].deleting, done, job[m].cond)
    BY CopyOfType
  <2> QED BY <2>3, <2>4, Concluded
<1>3. \A k \in Manager \ {m} : CopyOf(k)' = CopyOf(k)
  BY <1>1 DEF CopyOf
<1>4. MapCopy' = [MapCopy EXCEPT ![m]["transport"] = new]
  BY <1>2, <1>3, MapPut
<1>5. MapCopy[m]["transport"] = CopyOf(m) /\ CopyOf(m) # None /\ ~CopyOf(m).done
  BY CopyFields
<1>6. m \in MapRunning /\ UNCHANGED <<MapRes, MapCurrent, MapRunning>>
  BY <1>1 DEF MapRunning, MapRes, MapCurrent, Working
<1> QED BY <1>4, <1>5, <1>6
        DEF WithOutcome, Loop!Conclude, Loop!Working, Loop!Put, MapCopy, MapRes, MapCurrent, MapRunning

\* A reconcile begins with the resource as it is stored.
LEMMA StartMap ==
    ASSUME TypeOK, NEW m \in Manager, Start(m)
    PROVE  Loop!Begin(m, "transport")
<1> DEFINE cond == IF cr.cond = "unset" THEN "False" ELSE cr.cond
           no == FALSE
           new == ACopy("transport", cr.deleting, no, cond)
<1>1. /\ pc[m] = "idle" /\ pc'[m] = "read" /\ cr.exists
      /\ job'[m].cond = cond /\ job'[m].deleting = cr.deleting
      /\ \A k \in Manager \ {m} : pc'[k] = pc[k] /\ job'[k] = job[k]
      /\ cr' = cr /\ crCurrent' = crCurrent \union {m}
  BY DEF Start, Goto, TypeOK, Outside
<1>2. CopyOf(m)' = new
  <2>1. (pc'[m] = "finish") = no
    BY <1>1
  <2> HIDE DEF no, cond
  <2>2. CopyOf(m)' = ACopy("transport", job'[m].deleting, pc'[m] = "finish", job'[m].cond)
    BY <1>1 DEF CopyOf, ACopy, StatusOf, Controller
  <2> QED BY <1>1, <2>1, <2>2, Zenon
<1>3. \A k \in Manager \ {m} : CopyOf(k)' = CopyOf(k)
  BY <1>1 DEF CopyOf
<1>4. MapCopy' = [MapCopy EXCEPT ![m]["transport"] = new]
  BY <1>2, <1>3, MapPut
<1>5. StatusOf("transport", cond) = Loop!Configure(MapRes.cond, "transport")
  BY DEF Loop!Configure, MapRes, StatusOf, Controller
<1>6. MapCopy[m]["transport"] = None /\ m \in MapRunning /\ MapRes.exists
  BY <1>1 DEF MapCopy, CopyOf, Controller, MapRunning, MapRes
<1>7. MapCurrent' = MapCurrent \union {<<m, "transport">>}
  BY <1>1 DEF MapCurrent, Controller
<1>8. UNCHANGED <<MapRes, MapRunning>>
  BY <1>1 DEF MapRes, MapRunning
<1>9. new = [deleting |-> MapRes.deleting, done |-> FALSE,
             cond |-> Loop!Configure(MapRes.cond, "transport")]
  BY <1>5 DEF ACopy, MapRes
<1> HIDE DEF new
<1> QED BY <1>4, <1>6, <1>7, <1>8, <1>9
        DEF Loop!Begin, Loop!Put, MapCopy, MapRes, MapCurrent, MapRunning

\* A manager drops the copy of a reconcile that ends.
LEMMA IdleMap ==
    ASSUME TypeOK, NEW m \in Manager, pc[m] \in Working, Goto(m, "idle"),
           job' = [job EXCEPT ![m] = NoJob]
    PROVE  /\ MapCopy' = [MapCopy EXCEPT ![m]["transport"] = None]
           /\ UNCHANGED MapRunning
<1>1. /\ pc'[m] = "idle" /\ pc[m] # "down"
      /\ \A k \in Manager \ {m} : pc'[k] = pc[k] /\ job'[k] = job[k]
  BY DEF Goto, TypeOK, Working
<1>2. CopyOf(m)' = None /\ \A k \in Manager \ {m} : CopyOf(k)' = CopyOf(k)
  BY <1>1 DEF CopyOf
<1> QED BY <1>1, <1>2, MapPut DEF MapRunning

\* A reconcile that saves or deletes may find its copy to be an old one.
LEMMA StoredMap ==
    ASSUME NEW m \in Manager
    PROVE  /\ Loop!IsStored(m, "transport") <=> cr.exists /\ m \in crCurrent
           /\ cr' = cr /\ crCurrent' = crCurrent \ {m} => Loop!GiveUp(m, "transport")
<1>1. <<m, "transport">> \in MapCurrent <=> m \in crCurrent
  BY DEF MapCurrent, Controller
<1>2. (crCurrent \ {m}) \X Controller = MapCurrent \ {<<m, "transport">>}
  BY DEF MapCurrent, Controller
<1> QED BY <1>1, <1>2 DEF Loop!IsStored, Loop!GiveUp, MapCurrent

\* The status is saved as the loop does.
LEMMA FinishMap ==
    ASSUME LoopInv, NEW m \in Manager, Finish(m)
    PROVE  Loop!Save(m, "transport")
<1> DEFINE old == MapCopy[m]["transport"]
<1>1. TypeOK /\ pc[m] = "finish" /\ pc[m] \in Working /\ LoopLocal(m)
  BY DEF LoopInv, IInv, Finish, Working, Phase
<1>2. old # None /\ old.done /\ old.cond = StatusOf("transport", job[m].cond)
  BY <1>1, CopyFields
<1>3. MapCopy' = [MapCopy EXCEPT ![m]["transport"] = None] /\ UNCHANGED MapRunning
  BY <1>1, IdleMap DEF Finish
<1>4. old.cond # MapRes.cond <=> job[m].cond # cr.cond
  BY <1>2 DEF MapRes, StatusOf, Controller
<1>5. m \in MapRunning
  BY <1>1 DEF MapRunning
<1>6. IF Loop!IsStored(m, "transport") /\ old.cond # MapRes.cond
        THEN MapRes' = [MapRes EXCEPT !.cond = old.cond] /\ MapCurrent' = {}
        ELSE Loop!GiveUp(m, "transport")
  <2>1. CASE job[m].cond # job[m].was /\ cr.exists /\ m \in crCurrent
    <3>1. cr' = [cr EXCEPT !.cond = job[m].cond] /\ crCurrent' = {}
      BY <2>1 DEF Finish, StoreResource
    <3>2. MapRes' = WithCond("transport", MapRes, job[m].cond)
      <4>1. /\ cr'.exists = cr.exists /\ cr'.deleting = cr.deleting
            /\ cr'.cond = job[m].cond
        BY <1>1, <3>1 DEF TypeOK, Resource
      <4>2. /\ MapRes = ARes("transport", cr.exists, cr.deleting, MapRes.finalizers, cr.cond)
            /\ MapRes' = ARes("transport", cr.exists, cr.deleting, MapRes.finalizers, job[m].cond)
        BY <4>1, Zenon DEF MapRes, ARes, StatusOf, Controller
      <4> QED BY <4>2, ResEdits
    <3>3. MapCurrent' = {}
      BY <3>1 DEF MapCurrent
    <3> QED BY <1>1, <1>2, <1>4, <2>1, <3>2, <3>3, StoredMap DEF LoopLocal, WithCond
  <2>2. CASE ~(job[m].cond # job[m].was /\ cr.exists /\ m \in crCurrent)
    BY <1>1, <1>4, <2>2, StoredMap DEF Finish, LoopLocal
  <2> QED BY <2>1, <2>2
<1> QED BY <1>2, <1>3, <1>5, <1>6
        DEF Loop!Save, Loop!Working, Loop!StoreLoop, Loop!Put, MapCopy, MapRes,
            MapCurrent, MapRunning

\* Delete ends with the finalizer of the only controller there is.
LEMMA DeleteMap ==
    ASSUME LoopInv, NEW m \in Manager, Delete(m)
    PROVE  Loop!Finalize(m, "transport")
<1> DEFINE old == MapCopy[m]["transport"]
           rest == MapRes.finalizers \ {"transport"}
<1>1. TypeOK /\ pc[m] = "delete" /\ pc[m] \in Working /\ LoopLocal(m)
  BY DEF LoopInv, IInv, Delete, Working, Phase
<1>2. old # None /\ ~old.done /\ old.deleting
  BY <1>1, CopyFields DEF LoopLocal
<1>3. MapCopy' = [MapCopy EXCEPT ![m]["transport"] = None] /\ UNCHANGED MapRunning
  BY <1>1, IdleMap DEF Delete
<1>4. m \in MapRunning
  BY <1>1 DEF MapRunning
<1>5. IF Loop!IsStored(m, "transport") /\ "transport" \in MapRes.finalizers
        THEN /\ MapRes' = [MapRes EXCEPT !.finalizers = rest, !.exists = rest # {}]
             /\ MapCurrent' = {}
        ELSE Loop!GiveUp(m, "transport")
  <2>1. CASE cr.exists /\ m \in crCurrent
    <3>1. cr' = [cr EXCEPT !.exists = FALSE] /\ crCurrent' = {}
      BY <2>1 DEF Delete, StoreResource
    <3>2. rest = {} /\ "transport" \in MapRes.finalizers
      BY <2>1 DEF MapRes, Controller
    <3>3. MapRes' = WithFinalizers(MapRes, rest, rest # {})
      <4>1. /\ cr'.exists = FALSE /\ cr'.deleting = cr.deleting
            /\ cr'.cond = cr.cond
        BY <1>1, <3>1 DEF TypeOK, Resource
      <4>2. (rest # {}) = FALSE
        BY <3>2
      <4>3. /\ MapRes = ARes("transport", cr.exists, cr.deleting, MapRes.finalizers, cr.cond)
            /\ MapRes' = ARes("transport", rest # {}, cr.deleting, rest, cr.cond)
        BY <3>2, <4>1, <4>2, Zenon DEF MapRes, ARes, StatusOf, Controller
      <4> QED BY <4>3, ResEdits
    <3>4. MapCurrent' = {}
      BY <3>1 DEF MapCurrent
    <3> QED BY <2>1, <3>2, <3>3, <3>4, StoredMap DEF WithFinalizers
  <2>2. CASE ~(cr.exists /\ m \in crCurrent)
    BY <2>2, StoredMap DEF Delete
  <2> QED BY <2>1, <2>2
<1> QED BY <1>2, <1>3, <1>4, <1>5
        DEF Loop!Finalize, Loop!Working, Loop!StoreLoop, Loop!Put, MapCopy, MapRes,
            MapCurrent, MapRunning

\* A process ends, and one is started.
LEMMA DieMap ==
    ASSUME TypeOK, NEW m \in Manager, pc[m] # "down", Die(m), cr' = cr
    PROVE  Loop!Exit(m)
<1>1. /\ pc'[m] = "down" /\ crCurrent' = crCurrent \ {m}
      /\ \A k \in Manager \ {m} : pc'[k] = pc[k] /\ job'[k] = job[k]
  BY DEF Die, Goto, TypeOK
<1>2. CopyOf(m)' = None /\ \A k \in Manager \ {m} : CopyOf(k)' = CopyOf(k)
  BY <1>1 DEF CopyOf
<1>3. MapCopy' = [MapCopy EXCEPT ![m] = [c \in Controller |-> None]]
  BY <1>2 DEF MapCopy
<1>4. MapCurrent' = {x \in MapCurrent : x[1] # m}
  BY <1>1 DEF MapCurrent
<1>5. m \in MapRunning /\ MapRunning' = MapRunning \ {m} /\ UNCHANGED MapRes
  BY <1>1 DEF MapRunning, MapRes
<1> QED BY <1>3, <1>4, <1>5
        DEF Loop!Exit, Loop!NoCopies, MapCopy, MapRes, MapCurrent, MapRunning

LEMMA RestartMap ==
    ASSUME TypeOK, NEW m \in Manager, Restart(m)
    PROVE  Loop!Launch(m)
<1>1. /\ pc[m] = "down" /\ pc'[m] = "idle" /\ UNCHANGED <<job, cr, crCurrent>>
      /\ \A k \in Manager \ {m} : pc'[k] = pc[k]
  BY DEF Restart, Goto, TypeOK, Outside
<1>2. \A k \in Manager : CopyOf(k)' = CopyOf(k)
  BY <1>1 DEF CopyOf
<1>3. UNCHANGED <<MapRes, MapCopy, MapCurrent>>
  BY <1>1, <1>2 DEF MapRes, MapCopy, MapCurrent
<1>4. m \notin MapRunning /\ MapRunning' = MapRunning \union {m}
  BY <1>1 DEF MapRunning
<1> QED BY <1>3, <1>4 DEF Loop!Launch, MapCopy, MapRes, MapCurrent, MapRunning

\* What the user does to the resource.
LEMMA UserMap ==
    ASSUME TypeOK, UNCHANGED <<pc, job>>
    PROVE  /\ Scale => Loop!EditResource
           /\ DeleteResource => Loop!Condemn
<1>1. UNCHANGED <<MapCopy, MapRunning>>
  BY DEF MapCopy, CopyOf, MapRunning
<1>2. crCurrent' = {} => MapCurrent' = {}
  BY DEF MapCurrent
<1>3. ASSUME Scale PROVE Loop!EditResource
  <2>1. PICK nodes : cr' = [cr EXCEPT !.nodes = nodes] /\ crCurrent' = {} /\ cr.exists
    BY <1>3 DEF Scale, StoreResource
  <2>2. cr'.exists = cr.exists /\ cr'.deleting = cr.deleting /\ cr'.cond = cr.cond
    BY <2>1 DEF TypeOK, Resource
  <2>3. MapRes' = MapRes /\ MapRes.exists
    BY <2>1, <2>2 DEF MapRes
  <2> QED BY <1>1, <1>2, <2>1, <2>3
          DEF Loop!EditResource, Loop!StoreLoop, MapCopy, MapRes, MapCurrent, MapRunning
<1>4. ASSUME DeleteResource PROVE Loop!Condemn
  <2> DEFINE yes == TRUE
  <2>1. /\ cr' = [cr EXCEPT !.deleting = TRUE] /\ crCurrent' = {}
        /\ cr.exists /\ ~cr.deleting
    BY <1>4 DEF DeleteResource, StoreResource
  <2>2. cr'.exists = cr.exists /\ cr'.deleting = yes /\ cr'.cond = cr.cond
    BY <2>1 DEF TypeOK, Resource
  <2>3. MapRes.exists /\ ~MapRes.deleting
    BY <2>1 DEF MapRes
  <2> HIDE DEF yes
  <2>4. /\ MapRes = ARes("transport", cr.exists, cr.deleting, MapRes.finalizers, cr.cond)
        /\ MapRes' = ARes("transport", cr.exists, yes, MapRes.finalizers, cr.cond)
    BY <2>2, Zenon DEF MapRes, ARes, StatusOf, Controller
  <2>5. MapRes' = WithDeleting(MapRes, yes)
    BY <2>4, ResEdits
  <2> QED BY <1>1, <1>2, <2>1, <2>3, <2>5
          DEF Loop!Condemn, Loop!StoreLoop, WithDeleting, yes, MapCopy, MapRes,
              MapCurrent, MapRunning
<1> QED BY <1>3, <1>4

-----------------------------------------------------------------------------
(* The invariant is kept.                                                  *)

LEMMA InitLoopInv == Init => LoopInv
<1> SUFFICES ASSUME Init PROVE \A m \in Manager : LoopLocal(m)
  BY InitIInv DEF LoopInv
<1> QED BY DEF Init, LoopLocal

\* A step of one manager does not make the copies of the others current.
LEMMA OthersLocal ==
    ASSUME LoopInv, NEW m \in Manager, LoopLocal(m)',
           \A k \in Manager \ {m} : pc'[k] = pc[k] /\ job'[k] = job[k],
           crCurrent' \subseteq crCurrent \union {m},
           cr' = cr \/ crCurrent' = {}
    PROVE  \A k \in Manager : LoopLocal(k)'
BY DEF LoopInv, LoopLocal

\* A step of a reconcile that is under way, and stays so or has concluded.
LEMMA UnderWay ==
    ASSUME LoopInv, NEW m \in Manager, pc[m] \notin {"idle", "down"},
           NEW phase \in Phase \ {"idle", "down"}, Goto(m, phase),
           job'[m].was = job[m].was, phase = "delete" => job'[m].deleting,
           \A k \in Manager \ {m} : job'[k] = job[k],
           UNCHANGED <<cr, crCurrent>>
    PROVE  \A k \in Manager : LoopLocal(k)'
<1>1. pc'[m] = phase /\ \A k \in Manager \ {m} : pc'[k] = pc[k]
  BY DEF LoopInv, IInv, TypeOK, Goto
<1>2. LoopLocal(m)'
  BY <1>1 DEF LoopInv, LoopLocal
<1> QED BY <1>1, <1>2, OthersLocal

\* A reconcile ends, or its process.
LEMMA AtRest ==
    ASSUME LoopInv, NEW m \in Manager,
           Goto(m, "idle") \/ Goto(m, "down"),
           \A k \in Manager \ {m} : job'[k] = job[k],
           m \notin crCurrent', crCurrent' \subseteq crCurrent,
           cr' = cr \/ crCurrent' = {}
    PROVE  \A k \in Manager : LoopLocal(k)'
<1>1. pc'[m] \in {"idle", "down"} /\ \A k \in Manager \ {m} : pc'[k] = pc[k]
  BY DEF LoopInv, IInv, TypeOK, Goto
<1>2. LoopLocal(m)'
  BY <1>1 DEF LoopLocal
<1> QED BY <1>1, <1>2, OthersLocal

-----------------------------------------------------------------------------
(* Each action keeps the invariant and is a step of the loop, or of the    *)
(* handlers alone.                                                         *)

OfLoop(m) == Loop!Exit(m) \/ Loop!Launch(m) \/ Loop!LoopStep(m, "transport")

Kept(m) ==
    /\ \A k \in Manager : LoopLocal(k)'
    /\ OfLoop(m) \/ UNCHANGED MapVars

LEMMA DieKept ==
    ASSUME LoopInv, NEW m \in Manager, pc[m] # "down", Die(m), cr' = cr
    PROVE  Kept(m)
<1>1. /\ \A k \in Manager \ {m} : job'[k] = job[k]
      /\ Goto(m, "down") /\ crCurrent' = crCurrent \ {m}
  BY DEF Die, LoopInv, IInv, TypeOK
<1>2. \A k \in Manager : LoopLocal(k)'
  BY <1>1, AtRest
<1> QED BY <1>2, DieMap DEF Kept, OfLoop, LoopInv, IInv

LEMMA ConcludeKept ==
    ASSUME LoopInv, NEW m \in Manager, pc[m] \in Working \ {"finish"},
           NEW outcome \in {"False", "True"}, Conclude(m, outcome),
           UNCHANGED <<cr, crCurrent>>
    PROVE  Kept(m)
<1>1. /\ Goto(m, "finish") /\ job'[m].was = job[m].was
      /\ \A k \in Manager \ {m} : job'[k] = job[k]
  BY DEF Conclude, LoopInv, IInv, TypeOK, Job
<1>2. \A k \in Manager : LoopLocal(k)'
  BY <1>1, UnderWay DEF Working, Phase
<1> QED BY <1>2, ConcludeMap DEF Kept, OfLoop, Loop!LoopStep, LoopInv, IInv

\* A move that edits no more of the job than its progress.
LEMMA MoveKept ==
    ASSUME LoopInv, NEW m \in Manager, pc[m] \in Working \ {"finish"},
           NEW phase \in Working \ {"finish"}, Goto(m, phase),
           job'[m].cond = job[m].cond, job'[m].deleting = job[m].deleting,
           job'[m].was = job[m].was, phase = "delete" => job[m].deleting,
           \A k \in Manager \ {m} : job'[k] = job[k],
           UNCHANGED <<cr, crCurrent>>
    PROVE  Kept(m)
<1>1. \A k \in Manager : LoopLocal(k)'
  BY UnderWay DEF Working, Phase
<1>2. UNCHANGED MapVars
  BY MoveMap DEF LoopInv, IInv
<1> QED BY <1>1, <1>2 DEF Kept

LEMMA StartKept ==
    ASSUME LoopInv, NEW m \in Manager, Start(m)
    PROVE  Kept(m)
<1>1. /\ pc'[m] = "read" /\ job'[m].was = cr.cond
      /\ \A k \in Manager \ {m} : pc'[k] = pc[k] /\ job'[k] = job[k]
      /\ crCurrent' = crCurrent \union {m} /\ cr' = cr
  BY DEF Start, Goto, LoopInv, IInv, TypeOK, Outside
<1>2. LoopLocal(m)'
  BY <1>1 DEF LoopLocal
<1> QED BY <1>1, <1>2, OthersLocal, StartMap
        DEF Kept, OfLoop, Loop!LoopStep, LoopInv, IInv

LEMMA ReadKept ==
    ASSUME LoopInv, NEW m \in Manager, Read(m) \/ ReadFails(m)
    PROVE  Kept(m)
<1>1. pc[m] \in Working \ {"finish"} /\ UNCHANGED <<cr, crCurrent>>
  BY DEF Read, ReadFails, Working, Phase, Outside, Process
<1>2. CASE OnError(m)
  BY <1>1, <1>2, ConcludeKept DEF OnError
<1>3. CASE Goto(m, AfterRead(m))
           /\ \/ job' = job
              \/ job' = [job EXCEPT ![m].todo = job[m].nodes]
  <2>1. /\ job'[m].cond = job[m].cond /\ job'[m].deleting = job[m].deleting
        /\ job'[m].was = job[m].was
        /\ \A k \in Manager \ {m} : job'[k] = job[k]
    BY <1>3 DEF LoopInv, IInv, TypeOK, Job
  <2>2. /\ AfterRead(m) \in Working \ {"finish"}
        /\ AfterRead(m) = "delete" => job[m].deleting
    BY DEF AfterRead, Working, Phase
  <2> QED BY <1>1, <1>3, <2>1, <2>2, MoveKept
<1> QED BY <1>2, <1>3 DEF Read, ReadFails

LEMMA RenewKept ==
    ASSUME LoopInv, NEW m \in Manager, pc[m] \in {"ca", "nodes"}, Renew(m), cr' = cr
    PROVE  Kept(m)
<1>1. pc[m] \in Working \ {"finish"} /\ pc[m] # "down"
  BY DEF Working, Phase
<1>2. CASE OnError(m) /\ UNCHANGED Process
  BY <1>1, <1>2, ConcludeKept DEF OnError, Process
<1>3. CASE Die(m)
  BY <1>1, <1>3, DieKept
<1>4. CASE Goto(m, "write") /\ UNCHANGED <<job, Process>>
  BY <1>1, <1>4, MoveKept DEF Working, Phase, Process
<1> QED BY <1>2, <1>3, <1>4 DEF Renew

LEMMA CheckCAKept ==
    ASSUME LoopInv, NEW m \in Manager, CheckCA(m)
    PROVE  Kept(m)
<1>1. pc[m] = "ca" /\ pc[m] \in Working \ {"finish"} /\ cr' = cr
  BY DEF CheckCA, Working, Phase, Outside
<1>2. CASE Die(m)
  BY <1>1, <1>2, DieKept
<1>3. CASE Renew(m)
  BY <1>1, <1>3, RenewKept
<1>4. ASSUME NEW phase \in {"write", "admin", "nodes"}, Goto(m, phase),
             UNCHANGED <<job, Process>>
      PROVE  Kept(m)
  BY <1>1, <1>4, MoveKept DEF Working, Phase, Process
<1> QED BY <1>2, <1>3, <1>4 DEF CheckCA

LEMMA CheckNodeKept ==
    ASSUME LoopInv, NEW m \in Manager, NEW n \in Node, CheckNode(m, n)
    PROVE  Kept(m)
<1>1. pc[m] = "nodes" /\ pc[m] \in Working \ {"finish"} /\ cr' = cr
  BY DEF CheckNode, Working, Phase, Outside
<1>2. CASE Renew(m)
  BY <1>1, <1>2, RenewKept
<1>3. ASSUME NEW dirty \in BOOLEAN, Checked(m, n, dirty), UNCHANGED Process
      PROVE  Kept(m)
  <2> DEFINE edited == job[m].dirty \/ dirty
             j == [job[m] EXCEPT !.todo = job[m].todo \ {n}, !.dirty = edited]
  <2>1. job' = [job EXCEPT ![m] = j]
    BY <1>3 DEF Checked
  <2> HIDE DEF edited
  <2>2. j.cond = job[m].cond /\ j.deleting = job[m].deleting /\ j.was = job[m].was
    BY DEF LoopInv, IInv, TypeOK, Job
  <2> HIDE DEF j
  <2>3. job'[m] = j /\ \A k \in Manager \ {m} : job'[k] = job[k]
    BY <2>1 DEF LoopInv, IInv, TypeOK
  <2>4. PICK phase \in {"admin", "nodes"} : Goto(m, phase)
    BY <1>3 DEF Checked
  <2> QED BY <1>1, <1>3, <2>2, <2>3, <2>4, MoveKept DEF Working, Phase, Process
<1> QED BY <1>2, <1>3 DEF CheckNode

LEMMA CheckAdminKept ==
    ASSUME LoopInv, NEW m \in Manager, CheckAdmin(m)
    PROVE  Kept(m)
<1>1. pc[m] \in Working \ {"finish"} /\ UNCHANGED <<cr, crCurrent>>
  BY DEF CheckAdmin, Working, Phase, Outside, Process
<1>2. CASE OnSuccess(m)
  BY <1>1, <1>2, ConcludeKept DEF OnSuccess
<1>3. CASE Goto(m, "write") /\ UNCHANGED job
  BY <1>1, <1>3, MoveKept DEF Working, Phase
<1> QED BY <1>2, <1>3 DEF CheckAdmin

LEMMA WriteKept ==
    ASSUME LoopInv, NEW m \in Manager, Write(m) \/ WriteFails(m)
    PROVE  Kept(m)
<1>1. /\ pc[m] \in Working \ {"finish"} /\ UNCHANGED <<cr, crCurrent>>
      /\ OnSuccess(m) \/ OnError(m)
  BY DEF Write, WriteFails, Working, Phase
<1> QED BY <1>1, ConcludeKept DEF OnSuccess, OnError

LEMMA EndKept ==
    ASSUME LoopInv, NEW m \in Manager, Finish(m) \/ Delete(m)
    PROVE  Kept(m)
<1>1. /\ Goto(m, "idle") /\ \A k \in Manager \ {m} : job'[k] = job[k]
      /\ m \notin crCurrent' /\ crCurrent' \subseteq crCurrent
      /\ cr' = cr \/ crCurrent' = {}
  BY DEF Finish, Delete, StoreResource, LoopInv, IInv, TypeOK
<1>2. \A k \in Manager : LoopLocal(k)'
  BY <1>1, AtRest
<1>3. Loop!Save(m, "transport") \/ Loop!Finalize(m, "transport")
  BY FinishMap, DeleteMap
<1> QED BY <1>2, <1>3 DEF Kept, OfLoop, Loop!LoopStep

LEMMA ProcessKept ==
    ASSUME LoopInv, NEW m \in Manager, Crash(m) \/ Restart(m) \/ Sync(m)
    PROVE  Kept(m)
<1>1. CASE Crash(m)
  BY <1>1, DieKept DEF Crash
<1>2. CASE Restart(m)
  <2>1. /\ Goto(m, "idle") /\ pc[m] = "down" /\ UNCHANGED <<job, cr, crCurrent>>
    BY <1>2 DEF Restart, Outside
  <2>2. m \notin crCurrent
    BY <2>1 DEF LoopInv, LoopLocal
  <2>3. \A k \in Manager : LoopLocal(k)'
    BY <2>1, <2>2, AtRest
  <2> QED BY <1>2, <2>3, RestartMap DEF Kept, OfLoop, LoopInv, IInv
<1>3. CASE Sync(m)
  <2>1. UNCHANGED <<pc, job, cr, crCurrent>>
    BY <1>3 DEF Sync, Outside
  <2>2. UNCHANGED MapVars
    BY <2>1 DEF MapVars, MapRes, MapCopy, MapCurrent, MapRunning, CopyOf
  <2> QED BY <2>1, <2>2 DEF Kept, LoopInv, LoopLocal
<1> QED BY <1>1, <1>2, <1>3

\* What happens around the managers is an edit of the resource, or nothing to
\* the loop.
LEMMA AroundKept ==
    ASSUME LoopInv, Environment \/ UNCHANGED vars
    PROVE  /\ \A k \in Manager : LoopLocal(k)'
           /\ Loop!EditResource \/ Loop!Condemn \/ UNCHANGED MapVars
<1>1. /\ UNCHANGED <<pc, job>> /\ crCurrent' \subseteq crCurrent
      /\ cr' = cr \/ crCurrent' = {}
  BY DEF Environment, Tick, Scale, DeleteResource, Provision, Remove, StoreResource,
         Reconciles, vars
<1>2. \A k \in Manager : LoopLocal(k)'
  BY <1>1 DEF LoopInv, LoopLocal
<1>3. CASE Scale \/ DeleteResource
  BY <1>1, <1>2, <1>3, UserMap DEF LoopInv, IInv
<1>4. CASE Tick \/ Provision \/ Remove \/ UNCHANGED vars
  <2>1. UNCHANGED <<cr, crCurrent>>
    BY <1>4 DEF Tick, Provision, Remove, vars
  <2>2. UNCHANGED MapVars
    BY <1>1, <2>1 DEF MapVars, MapRes, MapCopy, MapCurrent, MapRunning, CopyOf
  <2> QED BY <1>2, <2>2
<1> QED BY <1>3, <1>4 DEF Environment

LEMMA NextKept ==
    ASSUME LoopInv, [Next]_vars
    PROVE  LoopInv' /\ [Loop!LoopNext]_MapVars
<1>1. ASSUME NEW m \in Manager, Reconcile(m) \/ Failure(m) \/ Restart(m) \/ Sync(m)
      PROVE  Kept(m)
  BY <1>1, StartKept, ReadKept, CheckCAKept, CheckNodeKept, CheckAdminKept, WriteKept,
     EndKept, ProcessKept DEF Reconcile, Failure
<1>2. ASSUME NEW m \in Manager, OfLoop(m)
      PROVE  Loop!LoopNext
  BY <1>2 DEF OfLoop, Loop!LoopNext, Controller
<1>3. Loop!EditResource \/ Loop!Condemn => Loop!LoopNext
  BY DEF Loop!LoopNext
<1>4. IInv'
  BY NextIInv DEF LoopInv
<1>5. CASE \E m \in Manager : Reconcile(m) \/ Failure(m) \/ Restart(m) \/ Sync(m)
  BY <1>1, <1>2, <1>4, <1>5 DEF Kept, LoopInv
<1>6. CASE Environment \/ UNCHANGED vars
  BY <1>3, <1>4, <1>6, AroundKept DEF LoopInv
<1> QED BY <1>5, <1>6 DEF Next

\* Whatever way a reconcile takes through its handlers, through panics, crashes
\* and lost answers, it touches the shared resource as the loop does: once, at
\* its end, and only if nobody stored a newer one since.
THEOREM LoopImplemented == Spec => LoopKept
<1>1. Init => Loop!LoopInit
  <2> SUFFICES ASSUME Init PROVE Loop!LoopInit
    OBVIOUS
  <2>1. MapCopy = [m \in Manager |-> [c \in Controller |-> None]]
    BY DEF Init, MapCopy, CopyOf
  <2>2. MapRunning = Manager /\ MapCurrent = {}
    BY DEF Init, MapRunning, MapCurrent
  <2>3. MapRes = [exists |-> TRUE, deleting |-> FALSE, finalizers |-> Controller,
                  cond |-> [c \in Controller |-> "unset"]]
    BY DEF Init, MapRes
  <2> QED BY <2>1, <2>2, <2>3
          DEF Loop!LoopInit, Loop!NoCopies, MapRes, MapCopy, MapCurrent, MapRunning
<1>2. LoopInv /\ [Next]_vars => LoopInv' /\ [Loop!LoopNext]_MapVars
  BY NextKept
<1> QED BY <1>1, <1>2, InitLoopInv, PTL
        DEF Spec, LoopKept, Loop!LoopSpec, Loop!loopVars, MapVars, MapRes, MapCopy,
            MapCurrent, MapRunning
=============================================================================
