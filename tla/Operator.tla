------------------------------ MODULE Operator ------------------------------
(***************************************************************************)
(* The operator as a whole: the transport and the API reconciler side by   *)
(* side in every manager process.  They have nothing in common but what    *)
(* ReconcileLoop is about, the resource with its status and finalizers,    *)
(* and the process: a panic of one ends the reconciles of both.            *)
(*                                                                         *)
(* Of a reconciler it only matters in what state it finds its secret, that *)
(* is how Read and Diff end: TransportTls and ApiTls have the details.     *)
(* main.go registers neither of the two yet; this is what they are written *)
(* for.                                                                    *)
(***************************************************************************)
EXTENDS ReconcileLoop, Naturals

CONSTANT Budget  \* bound on the changes of secrets, edits, crashes and faults

ASSUME BudgetAssumption == Budget \in Nat

VARIABLES
    health,  \* the state of each reconciler's secret
    left     \* what is left of the budget

vars == <<loopVars, health, left>>

\* Up to date; Diff fails, as that of the API without a secret; Read fails on
\* it or waits for it; Diff makes it anew and writes to the nil map.
Health == {"good", "failing", "unreadable", "due"}

TypeOK ==
    /\ LoopTypeOK
    /\ health \in [Controller -> Health]
    /\ left \in Nat

Spend == left > 0 /\ left' = left - 1

-----------------------------------------------------------------------------
Idle == UNCHANGED <<health, left>>

Start(m, c) == Begin(m, c) /\ Idle

\* Read fails, or ends the reconcile to try again later and leaves the
\* condition alone, of a resource that is being deleted as well.
ReadStops(m, c) ==
    /\ health[c] = "unreadable" /\ Working(m, c)
    /\ Conclude(m, c, "False") \/ Conclude(m, c, copy[m][c].cond[c])
    /\ Idle

\* Read is followed by Delete or by Diff.
Removal(m, c) ==
    /\ health[c] # "unreadable" /\ Finalize(m, c)
    /\ Idle

Success(m, c) ==
    /\ Working(m, c) /\ ~copy[m][c].deleting
    /\ health[c] = "good" /\ Conclude(m, c, "True")
    /\ Idle

\* generateSecret or renewSecret: the process ends, for both controllers.
Panic(m, c) ==
    /\ Working(m, c) /\ ~copy[m][c].deleting /\ ~copy[m][c].done
    /\ health[c] = "due" /\ Exit(m)
    /\ Idle

Failure(m, c) ==
    /\ Working(m, c) /\ ~copy[m][c].deleting
    /\ health[c] = "failing" /\ Conclude(m, c, "False")
    /\ Idle

SaveStatus(m, c) == Save(m, c) /\ Idle

\* The API server does not answer, or answers with a conflict.
Fault(m, c) == Conclude(m, c, "False") /\ Spend /\ UNCHANGED health

Crash(m) == Exit(m) /\ Spend /\ UNCHANGED health

Restart(m) == Launch(m) /\ Idle

Edit == EditResource /\ Spend /\ UNCHANGED health

DeleteResource == Condemn /\ Idle

\* A secret is stored, deleted, repaired or grows old.
Change ==
    /\ \E c \in Controller, state \in Health :
         health[c] # state /\ health' = [health EXCEPT ![c] = state]
    /\ Spend /\ UNCHANGED loopVars

-----------------------------------------------------------------------------
Init ==
    /\ LoopInit
    /\ health = [c \in Controller |-> "good"]
    /\ left = Budget

Reconcile(m, c) ==
    \/ Start(m, c) \/ ReadStops(m, c) \/ Removal(m, c) \/ Success(m, c)
    \/ Failure(m, c) \/ Panic(m, c) \/ SaveStatus(m, c)

Next ==
    \/ \E m \in Manager :
         \/ Crash(m) \/ Restart(m)
         \/ \E c \in Controller : Reconcile(m, c) \/ Fault(m, c)
    \/ Edit \/ DeleteResource \/ Change

\* As in TransportTls; each controller has a work queue and a worker of its
\* own.
Fairness ==
    \A m \in Manager :
        /\ WF_vars(Restart(m))
        /\ \A c \in Controller : WF_vars(Reconcile(m, c))

Spec == Init /\ [][Next]_vars /\ Fairness

-----------------------------------------------------------------------------
(* Properties.                                                             *)

\* When the user is done with the resource and nothing in the secrets makes
\* the process end, every condition comes to say what its secret is like, if
\* that can be read, and stays like that: neither the conflicts between the
\* controllers nor old copies of other managers keep it from that.
Calm == res.exists /\ ~res.deleting /\ \A c \in Controller : health[c] # "due"

Agrees(c) ==
    /\ health[c] = "good" => res.cond[c] = "True"
    /\ health[c] = "failing" => res.cond[c] = "False"

StatusSettles == <>[]Calm => <>[](\A c \in Controller : Agrees(c))

\* A resource the user deletes goes away, also when a secret is due and ends
\* the process again and again before, unless a secret that holds its
\* finalizer cannot be read: Read comes before Delete.
Blocked == \E c \in res.finalizers : health[c] = "unreadable"

DeletionCompletes == res.deleting ~> ~res.exists \/ Blocked
=============================================================================
