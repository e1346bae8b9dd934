---------------------------- MODULE OperatorProofs ----------------------------
(***************************************************************************)
(* The two reconcilers side by side keep to the protocol of ReconcileLoop, *)
(* for any controllers, managers and budget, and have what is proved of it.*)
(***************************************************************************)
EXTENDS Operator, ReconcileLoopProofs

\* Configure runs before any other handler, so that a reconcile which leaves
\* the condition alone and is tried again later does not save an unset one.
Configured ==
    \A m \in Manager, c \in Controller :
        copy[m][c] # NoCopy => copy[m][c].cond[c] \in {"False", "True"}

OInv == IInv /\ Configured /\ health \in [Controller -> Health] /\ left \in Nat

\* The condition Configure leaves in the copy of its own controller.
LEMMA ConfigureSets ==
    ASSUME NEW status \in Status, NEW c \in Controller
    PROVE  Configure(status, c)[c] \in {"False", "True"}
BY DEF Configure, Status, Cond

\* A copy is put that is configured, or none.
LEMMA PutConfigured ==
    ASSUME OInv, NEW m \in Manager, NEW c \in Controller,
           NEW value \in Copy \union {NoCopy}, Put(m, c, value),
           value # NoCopy => value.cond[c] \in {"False", "True"}
    PROVE  Configured'
<1>1. /\ copy'[m][c] = value
      /\ \A n \in Manager, d \in Controller :
           <<n, d>> # <<m, c>> => copy'[n][d] = copy[n][d]
  BY PutType DEF OInv, IInv
<1> QED BY <1>1 DEF OInv, Configured

LEMMA BeginConfigured ==
    ASSUME OInv, NEW m \in Manager, NEW c \in Controller, Begin(m, c)
    PROVE  Configured'
<1> DEFINE new == [deleting |-> res.deleting, cond |-> Configure(res.cond, c),
                   done |-> FALSE]
<1>1. res.cond \in Status /\ res.deleting \in BOOLEAN
  BY DEF OInv, IInv, LoopTypeOK, Resource
<1>2. new \in Copy /\ new.cond[c] \in {"False", "True"}
  BY <1>1, ConfigureType, ConfigureSets DEF Copy
<1>3. Put(m, c, new)
  BY DEF Begin
<1> HIDE DEF new
<1> QED BY <1>2, <1>3, PutConfigured

LEMMA ConcludeConfigured ==
    ASSUME OInv, NEW m \in Manager, NEW c \in Controller,
           NEW outcome \in {"False", "True"}, Conclude(m, c, outcome)
    PROVE  Configured'
<1> DEFINE old == copy[m][c]
           new == [old EXCEPT !.cond[c] = outcome, !.done = TRUE]
<1>1. old \in Copy
  BY DEF Conclude, Working, OInv, IInv, LoopTypeOK
<1>2. new \in Copy /\ new.cond[c] = outcome
  BY <1>1 DEF Copy, Status, Cond
<1>3. Put(m, c, new)
  BY DEF Conclude
<1> HIDE DEF new
<1> QED BY <1>2, <1>3, PutConfigured

LEMMA ExitConfigured ==
    ASSUME OInv, NEW m \in Manager, Exit(m)
    PROVE  Configured'
<1>1. /\ copy'[m] = NoCopies
      /\ \A n \in Manager \ {m} : copy'[n] = copy[n]
  BY DEF Exit, NoCopies, OInv, IInv, LoopTypeOK
<1> QED BY <1>1 DEF OInv, Configured, NoCopies

\* Every step of the loop leaves the copies configured.
LEMMA LoopConfigured == OInv /\ [LoopNext]_loopVars => Configured'
<1> SUFFICES ASSUME OInv, [LoopNext]_loopVars PROVE Configured'
  OBVIOUS
<1>1. ASSUME NEW m \in Manager, NEW c \in Controller, LoopStep(m, c)
      PROVE  Configured'
  <2>1. CASE Save(m, c) \/ Finalize(m, c)
    BY <2>1, PutConfigured DEF Save, Finalize
  <2> QED BY <1>1, <2>1, BeginConfigured, ConcludeConfigured DEF LoopStep
<1>2. ASSUME copy' = copy PROVE Configured'
  BY <1>2 DEF OInv, Configured
<1> QED BY <1>1, <1>2, ExitConfigured
        DEF LoopNext, Launch, EditResource, Condemn, loopVars

-----------------------------------------------------------------------------
(* Each step of the operator is one of the loop, or none of it.            *)

\* Most of what a reconciler does it does as the loop may.
LEMMA HandlersStep ==
    ASSUME OInv, NEW m \in Manager, NEW c \in Controller,
           Reconcile(m, c) \/ Fault(m, c)
    PROVE  Exit(m) \/ LoopStep(m, c)
<1>1. CASE ReadStops(m, c)
  <2>1. copy[m][c].cond[c] \in {"False", "True"}
    BY <1>1 DEF ReadStops, Working, OInv, Configured
  <2> QED BY <1>1, <2>1 DEF ReadStops, LoopStep
<1>2. CASE ~ReadStops(m, c)
  BY <1>2 DEF Reconcile, Start, Removal, Success, Panic, Failure, SaveStatus, Fault,
              LoopStep
<1> QED BY <1>1, <1>2

LEMMA OperatorStep ==
    ASSUME OInv, [Next]_vars
    PROVE  [LoopNext]_loopVars
<1>1. CASE \E m \in Manager : Crash(m) \/ Restart(m)
  BY <1>1 DEF Crash, Restart, LoopNext
<1>2. CASE \E m \in Manager, c \in Controller : Reconcile(m, c) \/ Fault(m, c)
  BY <1>2, HandlersStep DEF LoopNext
<1>3. CASE Edit \/ DeleteResource
  BY <1>3 DEF Edit, DeleteResource, LoopNext
<1>4. CASE Change \/ UNCHANGED vars
  BY <1>4 DEF Change, vars
<1> QED BY <1>1, <1>2, <1>3, <1>4 DEF Next

LEMMA RestType ==
    ASSUME OInv, [Next]_vars
    PROVE  health' \in [Controller -> Health] /\ left' \in Nat
<1>1. Spend => left' \in Nat
  BY DEF Spend, OInv
<1>2. CASE Change
  BY <1>1, <1>2 DEF Change, OInv
<1>3. CASE health' = health /\ (left' = left \/ Spend)
  BY <1>1, <1>3 DEF OInv
<1> QED BY <1>2, <1>3
        DEF Next, Crash, Restart, Reconcile, Start, ReadStops, Removal, Success, Panic,
            Failure, SaveStatus, Fault, Edit, DeleteResource, Idle, vars

LEMMA InitOInv == Init => OInv
<1>1. Init => Configured
  BY DEF Init, LoopInit, Configured, NoCopies
<1>2. Init => health \in [Controller -> Health] /\ left \in Nat
  BY BudgetAssumption DEF Init, Health
<1> QED BY <1>1, <1>2, InitInv DEF Init, OInv

LEMMA NextOInv == OInv /\ [Next]_vars => OInv'
BY OperatorStep, LoopConfigured, RestType, NextInv DEF OInv

\* The operator has at any time one copy of the resource at most per
\* controller and running process, each configured, whatever ends processes.
THEOREM OperatorTypeCorrect == Spec => []TypeOK
<1>1. OInv => TypeOK
  BY DEF OInv, IInv, TypeOK
<1> QED BY <1>1, InitOInv, NextOInv, PTL DEF Spec

\* The operator is an instance of the loop: reads that fail or wait, panics
\* and faults of one controller are steps the other controllers are ready for.
THEOREM OperatorImplementsLoop == Spec => LoopSpec
<1>1. Init => LoopInit
  BY DEF Init
<1>2. OInv /\ [Next]_vars => [LoopNext]_loopVars
  BY OperatorStep
<1> QED BY <1>1, <1>2, InitOInv, NextOInv, PTL DEF Spec, LoopSpec

\* A controller of the operator never takes back what the other concluded.
THEOREM OperatorKeepsConditions == Spec => OnlyOwnCondition
BY OperatorImplementsLoop, OthersConditionsKept, PTL
=============================================================================
