-------------------------- MODULE ReconcileLoopProofs --------------------------
(***************************************************************************)
(* Theorems about the loop, for any managers and controllers.              *)
(***************************************************************************)
EXTENDS ReconcileLoop, TLAPS

\* The inductive invariant: the copy that is the stored one differs from what
\* is stored in the condition of its own controller at most.
CopiesAgree ==
    \A m \in Manager, c \in Controller :
        <<m, c>> \in current =>
            \A d \in Controller \ {c} : copy[m][c].cond[d] = res.cond[d]

IInv == LoopTypeOK /\ CopiesAgree

LEMMA ConfigureType ==
    ASSUME NEW status \in Status, NEW c \in Controller
    PROVE  /\ Configure(status, c) \in Status
           /\ \A d \in Controller \ {c} : Configure(status, c)[d] = status[d]
  BY DEF Configure, Status, Cond

\* What Put and the record of a copy come to.
LEMMA PutType ==
    ASSUME LoopTypeOK, NEW m \in Manager, NEW c \in Controller,
           NEW value \in Copy \union {NoCopy}, Put(m, c, value)
    PROVE  /\ copy' \in [Manager -> [Controller -> Copy \union {NoCopy}]]
           /\ copy'[m][c] = value
           /\ \A n \in Manager, d \in Controller :
                <<n, d>> # <<m, c>> => copy'[n][d] = copy[n][d]
  BY DEF Put, LoopTypeOK

LEMMA InitInv == LoopInit => IInv
  BY DEF LoopInit, IInv, LoopTypeOK, CopiesAgree, NoCopies, Resource, Status, Cond

LEMMA StepBegin ==
    ASSUME IInv, NEW m \in Manager, NEW c \in Controller, Begin(m, c)
    PROVE  IInv'
  <1> DEFINE new == [deleting |-> res.deleting, cond |-> Configure(res.cond, c),
                     done |-> FALSE]
  <1>1. res.cond \in Status /\ res.deleting \in BOOLEAN
    BY DEF IInv, LoopTypeOK, Resource
  <1>2. new \in Copy /\ \A d \in Controller \ {c} : new.cond[d] = res.cond[d]
    BY <1>1, ConfigureType DEF Copy
  <1>3. new # NoCopy
    BY <1>2, NoCopyAssumption
  <1>4. Put(m, c, new) /\ current' = current \union {<<m, c>>}
        /\ res' = res /\ running' = running /\ m \in running
    BY DEF Begin
  <1> HIDE DEF new
  <1>5. /\ copy' \in [Manager -> [Controller -> Copy \union {NoCopy}]]
        /\ copy'[m][c] = new
        /\ \A n \in Manager, d \in Controller :
             <<n, d>> # <<m, c>> => copy'[n][d] = copy[n][d]
    BY <1>2, <1>4, PutType DEF IInv
  <1>6. LoopTypeOK'
    BY <1>3, <1>4, <1>5 DEF IInv, LoopTypeOK
  <1>7. CopiesAgree'
    BY <1>2, <1>4, <1>5 DEF IInv, CopiesAgree
  <1> QED
    BY <1>6, <1>7 DEF IInv

LEMMA StepConclude ==
    ASSUME IInv, NEW m \in Manager, NEW c \in Controller,
           NEW outcome \in {"False", "True"}, Conclude(m, c, outcome)
    PROVE  IInv'
  <1> DEFINE old == copy[m][c]
             new == [old EXCEPT !.cond[c] = outcome, !.done = TRUE]
  <1>1. old \in Copy
    BY DEF Conclude, Working, IInv, LoopTypeOK
  <1>2. new \in Copy /\ \A d \in Controller \ {c} : new.cond[d] = old.cond[d]
    BY <1>1 DEF Copy, Status, Cond
  <1>3. new # NoCopy /\ old # NoCopy
    BY <1>1, <1>2, NoCopyAssumption
  <1>4. Put(m, c, new) /\ current' = current
        /\ res' = res /\ running' = running /\ m \in running
    BY DEF Conclude, Working
  <1> HIDE DEF new
  <1>5. /\ copy' \in [Manager -> [Controller -> Copy \union {NoCopy}]]
        /\ copy'[m][c] = new
        /\ \A n \in Manager, d \in Controller :
             <<n, d>> # <<m, c>> => copy'[n][d] = copy[n][d]
    BY <1>2, <1>4, PutType DEF IInv
  <1>6. LoopTypeOK'
    BY <1>3, <1>4, <1>5 DEF IInv, LoopTypeOK
  <1>7. CopiesAgree'
    BY <1>2, <1>4, <1>5 DEF IInv, CopiesAgree
  <1> QED
    BY <1>6, <1>7 DEF IInv

\* The end of a reconcile, whether it stores something or gives up.
LEMMA StepEnd ==
    ASSUME IInv, NEW m \in Manager, NEW c \in Controller,
           NEW r \in Resource, StoreLoop(r) \/ GiveUp(m, c),
           Put(m, c, NoCopy), UNCHANGED running
    PROVE  IInv'
  <1>1. /\ copy' \in [Manager -> [Controller -> Copy \union {NoCopy}]]
        /\ copy'[m][c] = NoCopy
        /\ \A n \in Manager, d \in Controller :
             <<n, d>> # <<m, c>> => copy'[n][d] = copy[n][d]
    BY PutType DEF IInv
  <1>2. /\ res' \in Resource
        /\ current' \subseteq current \ {<<m, c>>}
        /\ current' = {} \/ res' = res
    BY DEF StoreLoop, GiveUp, IInv, LoopTypeOK
  <1>3. LoopTypeOK'
    BY <1>1, <1>2 DEF IInv, LoopTypeOK
  <1>4. CopiesAgree'
    BY <1>1, <1>2 DEF IInv, CopiesAgree
  <1> QED
    BY <1>3, <1>4 DEF IInv

LEMMA StepSave ==
    ASSUME IInv, NEW m \in Manager, NEW c \in Controller, Save(m, c)
    PROVE  IInv'
  <1> DEFINE r == [res EXCEPT !.cond = copy[m][c].cond]
  <1>1. copy[m][c] \in Copy /\ res \in Resource
    BY DEF Save, Working, IInv, LoopTypeOK
  <1>2. r \in Resource
    BY <1>1 DEF Resource, Copy
  <1>3. /\ StoreLoop(r) \/ GiveUp(m, c)
        /\ Put(m, c, NoCopy) /\ UNCHANGED running
    BY DEF Save
  <1> QED
    BY <1>2, <1>3, StepEnd

LEMMA StepFinalize ==
    ASSUME IInv, NEW m \in Manager, NEW c \in Controller, Finalize(m, c)
    PROVE  IInv'
  <1> DEFINE rest == res.finalizers \ {c}
             r == [res EXCEPT !.finalizers = rest, !.exists = rest # {}]
  <1>1. r \in Resource
    BY DEF IInv, LoopTypeOK, Resource
  <1>2. /\ StoreLoop(r) \/ GiveUp(m, c)
        /\ Put(m, c, NoCopy) /\ UNCHANGED running
    BY DEF Finalize
  <1> QED
    BY <1>1, <1>2, StepEnd

LEMMA StepExit ==
    ASSUME IInv, NEW m \in Manager, Exit(m)
    PROVE  IInv'
  <1>1. /\ copy' \in [Manager -> [Controller -> Copy \union {NoCopy}]]
        /\ copy'[m] = NoCopies
        /\ \A n \in Manager \ {m} : copy'[n] = copy[n]
    BY DEF Exit, NoCopies, IInv, LoopTypeOK
  <1>2. /\ current' \subseteq current
        /\ \A c \in Controller : <<m, c>> \notin current'
        /\ res' = res /\ running' = running \ {m}
    BY DEF Exit
  <1>3. LoopTypeOK'
    BY <1>1, <1>2 DEF IInv, LoopTypeOK, NoCopies
  <1>4. CopiesAgree'
    BY <1>1, <1>2 DEF IInv, CopiesAgree
  <1> QED
    BY <1>3, <1>4 DEF IInv

LEMMA StepOutside ==
    ASSUME IInv, EditResource \/ Condemn \/ \E m \in Manager : Launch(m)
    PROVE  IInv'
  <1>1. CASE EditResource
    BY <1>1 DEF EditResource, StoreLoop, IInv, LoopTypeOK, CopiesAgree
  <1>2. CASE Condemn
    <2>1. [res EXCEPT !.deleting = TRUE] \in Resource
      BY DEF IInv, LoopTypeOK, Resource
    <2> QED
      BY <1>2, <2>1 DEF Condemn, StoreLoop, IInv, LoopTypeOK, CopiesAgree
  <1>3. CASE \E m \in Manager : Launch(m)
    BY <1>3 DEF Launch, IInv, LoopTypeOK, CopiesAgree
  <1> QED
    BY <1>1, <1>2, <1>3

LEMMA NextInv == IInv /\ [LoopNext]_loopVars => IInv'
  <1> SUFFICES ASSUME IInv, [LoopNext]_loopVars PROVE IInv'
    OBVIOUS
  <1>1. CASE UNCHANGED loopVars
    BY <1>1 DEF loopVars, IInv, LoopTypeOK, CopiesAgree
  <1>2. CASE \E m \in Manager : Exit(m)
    BY <1>2, StepExit
  <1>3. CASE EditResource \/ Condemn \/ \E m \in Manager : Launch(m)
    BY <1>3, StepOutside
  <1>4. CASE \E m \in Manager, c \in Controller : LoopStep(m, c)
    BY <1>4, StepBegin, StepSave, StepFinalize, StepConclude DEF LoopStep
  <1> QED
    BY <1>1, <1>2, <1>3, <1>4 DEF LoopNext

\* Whatever the controllers conclude and whenever processes end, the shared
\* resource stays well-formed, and only running processes hold copies of it.
THEOREM LoopTypeCorrect == LoopSpec => []LoopTypeOK
  <1>1. IInv => LoopTypeOK
    BY DEF IInv
  <1> QED
    BY <1>1, InitInv, NextInv, PTL DEF LoopSpec

\* One step changes a condition only if it is a save of that condition's
\* controller.
LEMMA OnlyOwnStep ==
    ASSUME IInv, [LoopNext]_loopVars, NEW c \in Controller,
           res'.cond[c] # res.cond[c]
    PROVE  \E m \in Manager :
              /\ copy[m][c] # NoCopy /\ copy[m][c].done
              /\ res'.cond[c] = copy[m][c].cond[c]
              /\ copy'[m][c] = NoCopy
  <1>1. res \in Resource
    BY DEF IInv, LoopTypeOK
  <1>2. PICK m \in Manager, d \in Controller : Save(m, d)
    <2>1. \A r : StoreLoop(r) => res' = r
      BY DEF StoreLoop
    <2>2. ASSUME NEW m \in Manager, NEW d \in Controller, Finalize(m, d)
          PROVE  res'.cond = res.cond
      BY <1>1, <2>2 DEF Finalize, StoreLoop, GiveUp, Resource
    <2>3. Condemn \/ EditResource => res'.cond = res.cond
      BY <1>1 DEF Condemn, EditResource, StoreLoop, Resource
    <2>4. \A m \in Manager : Exit(m) \/ Launch(m) => res' = res
      BY DEF Exit, Launch
    <2>5. \A m \in Manager, d \in Controller, o \in {"False", "True"} :
             Begin(m, d) \/ Conclude(m, d, o) => res' = res
      BY DEF Begin, Conclude
    <2>6. ~UNCHANGED loopVars
      BY DEF loopVars
    <2> QED
      BY <2>2, <2>3, <2>4, <2>5, <2>6 DEF LoopNext, LoopStep
  <1>3. IsStored(m, d) /\ res' = [res EXCEPT !.cond = copy[m][d].cond]
    BY <1>2 DEF Save, StoreLoop, GiveUp
  <1>4. res'.cond = copy[m][d].cond
    BY <1>1, <1>3 DEF Resource
  <1>5. d = c
    BY <1>3, <1>4 DEF IsStored, IInv, CopiesAgree
  <1>6. /\ copy[m][c] # NoCopy /\ copy[m][c].done
        /\ Put(m, c, NoCopy)
    BY <1>2, <1>5 DEF Save, Working
  <1>7. copy'[m][c] = NoCopy
    BY <1>6, PutType DEF IInv
  <1> QED
    BY <1>4, <1>5, <1>6, <1>7

\* However many controllers and managers save the status of one resource as a
\* whole, from whatever copies, none takes back what another concluded.
THEOREM OthersConditionsKept == LoopSpec => OnlyOwnCondition
  <1>1. IInv /\ [LoopNext]_loopVars =>
          [\A c \in Controller :
             res'.cond[c] # res.cond[c] =>
                \E m \in Manager :
                    /\ copy[m][c] # NoCopy /\ copy[m][c].done
                    /\ res'.cond[c] = copy[m][c].cond[c]
                    /\ copy'[m][c] = NoCopy]_loopVars
    BY OnlyOwnStep
  <1> QED
    BY <1>1, InitInv, NextInv, PTL DEF LoopSpec, OnlyOwnCondition
=============================================================================
