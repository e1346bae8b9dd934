---------------------------- MODULE ReconcileLoop ----------------------------
(***************************************************************************)
(* What operator-sdk-extra makes of a reconciler's handlers: a reconcile   *)
(* gets the resource, lets Configure and the other handlers edit the       *)
(* status of that copy, and at its end saves the whole status, the         *)
(* conditions of the other controllers included.  Several controllers in   *)
(* several manager processes share one resource that way, and nothing but  *)
(* the API server's optimistic locking keeps them out of each other's      *)
(* conditions.                                                             *)
(*                                                                         *)
(* The abstract specification of TransportTls and ApiTls, which are one    *)
(* controller each.  What a reconcile concludes, and when a process ends,  *)
(* is any choice here.  A copy's resourceVersion is kept as in             *)
(* TransportTls: current is the set of the copies that are the stored one. *)
(***************************************************************************)
CONSTANTS
    Manager,     \* manager processes
    Controller,  \* the controllers that run in each of them
    NoCopy       \* no reconcile is under way

VARIABLES
    res,      \* the stored resource: what of it the loop uses
    copy,     \* the copy a reconcile works on, by manager and controller
    current,  \* the manager and controller of each copy that is the stored one
    running   \* managers that run

loopVars == <<res, copy, current, running>>

Cond == {"unset", "False", "True"}

Status == [Controller -> Cond]

\* Each controller holds the resource back with a finalizer of its own.
Resource == [exists : BOOLEAN, deleting : BOOLEAN,
             finalizers : SUBSET Controller, cond : Status]

\* cond is the status as the handlers edited it; done when all that is left is
\* to save it.
Copy == [deleting : BOOLEAN, cond : Status, done : BOOLEAN]

ASSUME NoCopyAssumption == NoCopy \notin Copy

\* Only a process that runs has copies, and only a copy there is can be the
\* stored one.
LoopTypeOK ==
    /\ res \in Resource
    /\ copy \in [Manager -> [Controller -> Copy \union {NoCopy}]]
    /\ current \subseteq Manager \X Controller
    /\ running \subseteq Manager
    /\ \A m \in Manager, c \in Controller :
         /\ copy[m][c] # NoCopy => m \in running
         /\ <<m, c>> \in current => copy[m][c] # NoCopy

NoCopies == [c \in Controller |-> NoCopy]

LoopInit ==
    /\ res = [exists |-> TRUE, deleting |-> FALSE, finalizers |-> Controller,
              cond |-> [c \in Controller |-> "unset"]]
    /\ copy = [m \in Manager |-> NoCopies]
    /\ current = {}
    /\ running = Manager

-----------------------------------------------------------------------------
\* A new version of the resource is stored: no copy is the stored one.
StoreLoop(r) == res' = r /\ current' = {}

Put(m, c, value) == copy' = [copy EXCEPT ![m][c] = value]

Working(m, c) == m \in running /\ copy[m][c] # NoCopy

IsStored(m, c) == res.exists /\ <<m, c>> \in current

\* What is not stored leaves no trace.
GiveUp(m, c) == res' = res /\ current' = current \ {<<m, c>>}

\* Fault: the conditions are made anew, those of the others are lost.
Configure_Afresh(status, c) ==
    [d \in Controller |-> IF d = c /\ status[c] # "unset" THEN status[c]
                          ELSE IF d = c THEN "False" ELSE "unset"]

\* Configure: the controller's condition starts as False.
Configure(status, c) ==
    [status EXCEPT ![c] = IF @ = "unset" THEN "False" ELSE @]

\* Fault: a resource that is being deleted is not reconciled.
Begin_NotDeleting(m, c) ==
    /\ m \in running /\ copy[m][c] = NoCopy /\ res.exists /\ ~res.deleting
    /\ Put(m, c, [deleting |-> res.deleting, cond |-> Configure(res.cond, c),
                  done |-> FALSE])
    /\ current' = current \union {<<m, c>>}
    /\ UNCHANGED <<res, running>>

\* A reconcile begins with the resource as it is stored.
Begin(m, c) ==
    /\ m \in running /\ copy[m][c] = NoCopy /\ res.exists
    /\ Put(m, c, [deleting |-> res.deleting, cond |-> Configure(res.cond, c),
                  done |-> FALSE])
    /\ current' = current \union {<<m, c>>}
    /\ UNCHANGED <<res, running>>

\* Fault: the condition is set only if it is what it should become.
Conclude_IfEqual(m, c, outcome) ==
    /\ Working(m, c) /\ ~copy[m][c].done
    /\ Put(m, c, [copy[m][c] EXCEPT !.done = TRUE])
    /\ UNCHANGED <<res, current, running>>

\* OnSuccess or OnError, or the end of a reconcile to be tried again later.
Conclude(m, c, outcome) ==
    /\ Working(m, c) /\ ~copy[m][c].done
    /\ Put(m, c, [copy[m][c] EXCEPT !.cond[c] = outcome, !.done = TRUE])
    /\ UNCHANGED <<res, current, running>>

\* The whole status is saved if it changed and the copy is the stored one, so
\* that what it changed from is what is stored.
Save(m, c) ==
    /\ Working(m, c) /\ copy[m][c].done
    /\ IF IsStored(m, c) /\ copy[m][c].cond # res.cond
         THEN StoreLoop([res EXCEPT !.cond = copy[m][c].cond])
         ELSE GiveUp(m, c)
    /\ Put(m, c, NoCopy)
    /\ UNCHANGED running

\* Delete, then the controller's finalizer is removed; the resource is gone
\* with the last of them.
Finalize(m, c) ==
    /\ Working(m, c) /\ ~copy[m][c].done /\ copy[m][c].deleting
    /\ IF IsStored(m, c) /\ c \in res.finalizers
         THEN LET rest == res.finalizers \ {c}
              IN  StoreLoop([res EXCEPT !.finalizers = rest, !.exists = rest # {}])
         ELSE GiveUp(m, c)
    /\ Put(m, c, NoCopy)
    /\ UNCHANGED running

\* Fault: the copies outlive the process.
Exit_Lingers(m) ==
    /\ m \in running
    /\ running' = running \ {m}
    /\ UNCHANGED <<res, copy, current>>

\* A process ends, with every reconcile in it.
Exit(m) ==
    /\ m \in running
    /\ running' = running \ {m}
    /\ copy' = [copy EXCEPT ![m] = NoCopies]
    /\ current' = {x \in current : x[1] # m}
    /\ UNCHANGED res

\* main: every manager runs all controllers, no leader is elected by default.
Launch(m) ==
    /\ m \notin running
    /\ running' = running \union {m}
    /\ UNCHANGED <<res, copy, current>>

\* The user edits the resource, or deletes it.
EditResource ==
    /\ res.exists
    /\ StoreLoop(res)
    /\ UNCHANGED <<copy, running>>

Condemn ==
    /\ res.exists /\ ~res.deleting
    /\ StoreLoop([res EXCEPT !.deleting = TRUE])
    /\ UNCHANGED <<copy, running>>

LoopStep(m, c) ==
    \/ Begin(m, c) \/ Save(m, c) \/ Finalize(m, c)
    \/ \E outcome \in {"False", "True"} : Conclude(m, c, outcome)

LoopNext ==
    \/ \E m \in Manager : Exit(m) \/ Launch(m) \/ \E c \in Controller : LoopStep(m, c)
    \/ EditResource \/ Condemn

LoopSpec == LoopInit /\ [][LoopNext]_loopVars

-----------------------------------------------------------------------------
(* Properties.                                                             *)

\* A condition is changed by nothing but a save of the controller it is of,
\* and to what that controller concluded: the status is saved as a whole, so
\* a controller that saves an old one would take another's conclusion back.
OnlyOwnCondition ==
    [][\A c \in Controller :
         res'.cond[c] # res.cond[c] =>
            \E m \in Manager :
                /\ copy[m][c] # NoCopy /\ copy[m][c].done
                /\ res'.cond[c] = copy[m][c].cond[c]
                /\ copy'[m][c] = NoCopy]_loopVars
=============================================================================
