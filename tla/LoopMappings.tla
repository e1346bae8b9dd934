----------------------------- MODULE LoopMappings -----------------------------
(***************************************************************************)
(* A reconciler seen as the only controller of ReconcileLoop: what its     *)
(* copies and the resource look like there, and what the loop's edits make *)
(* of them.  The refinement proofs of TransportTls and ApiTls share it.    *)
(***************************************************************************)
EXTENDS TLAPS

\* The status of a resource that one controller sets a condition of.
StatusOf(c, cond) == [d \in {c} |-> cond]

\* The copy a reconcile of that controller works on.
ACopy(c, deleting, done, cond) ==
    [deleting |-> deleting, done |-> done, cond |-> StatusOf(c, cond)]

\* What the loop's Conclude makes of a copy.
WithOutcome(c, old, outcome, done) ==
    [old EXCEPT !.cond[c] = outcome, !.done = done]

\* It changes the outcome of the copy and marks it as done.
LEMMA Concluded ==
    ASSUME NEW c, NEW deleting, NEW old, NEW was, NEW outcome, NEW done
    PROVE  WithOutcome(c, ACopy(c, deleting, old, was), outcome, done)
             = ACopy(c, deleting, done, outcome)
<1> DEFINE r == ACopy(c, deleting, old, was)
           status == StatusOf(c, was)
           edited == [r EXCEPT !.cond[c] = outcome]
<1>1. r = [deleting |-> deleting, done |-> old, cond |-> status]
  BY DEF ACopy
<1>2. [status EXCEPT ![c] = outcome] = StatusOf(c, outcome)
  BY DEF StatusOf
<1> HIDE DEF r, status
<1>3. edited = [deleting |-> deleting, done |-> old,
                cond |-> [status EXCEPT ![c] = outcome]]
  BY <1>1
<1>4. WithOutcome(c, r, outcome, done) = [edited EXCEPT !.done = done]
  BY DEF WithOutcome
<1> HIDE DEF edited
<1>5. [edited EXCEPT !.done = done]
        = [deleting |-> deleting, done |-> done,
           cond |-> [status EXCEPT ![c] = outcome]]
  BY <1>3
<1> QED BY <1>2, <1>4, <1>5 DEF ACopy, r

-----------------------------------------------------------------------------
\* The resource as the loop sees it, and the edits the loop makes of it.
ARes(c, exists, deleting, finalizers, cond) ==
    [exists |-> exists, deleting |-> deleting, finalizers |-> finalizers,
     cond |-> StatusOf(c, cond)]

WithCond(c, r, cond) == [r EXCEPT !.cond = StatusOf(c, cond)]
WithDeleting(r, deleting) == [r EXCEPT !.deleting = deleting]
WithFinalizers(r, finalizers, exists) ==
    [r EXCEPT !.finalizers = finalizers, !.exists = exists]

\* Each changes the part it is of, and no other.
LEMMA ResEdits ==
    ASSUME NEW c, NEW exists, NEW deleting, NEW finalizers, NEW cond, NEW x, NEW y
    PROVE  LET r == ARes(c, exists, deleting, finalizers, cond)
           IN  /\ WithCond(c, r, x) = ARes(c, exists, deleting, finalizers, x)
               /\ WithDeleting(r, x) = ARes(c, exists, x, finalizers, cond)
               /\ WithFinalizers(r, x, y) = ARes(c, y, deleting, x, cond)
<1> DEFINE status == StatusOf(c, cond)
           r == ARes(c, exists, deleting, finalizers, cond)
           edited == [r EXCEPT !.finalizers = x]
<1>1. r = [exists |-> exists, deleting |-> deleting, finalizers |-> finalizers,
           cond |-> status]
  BY DEF ARes
<1> HIDE DEF status
<1>2. WithCond(c, r, x) = ARes(c, exists, deleting, finalizers, x)
  <2> DEFINE new == StatusOf(c, x)
  <2> HIDE DEF new
  <2>1. [r EXCEPT !.cond = new] = [exists |-> exists, deleting |-> deleting,
                                   finalizers |-> finalizers, cond |-> new]
    BY <1>1
  <2> QED BY <2>1 DEF WithCond, ARes, new
<1>3. WithDeleting(r, x) = ARes(c, exists, x, finalizers, cond)
  BY <1>1 DEF WithDeleting, ARes, status
<1>4. edited = [exists |-> exists, deleting |-> deleting, finalizers |-> x,
                cond |-> status]
  BY <1>1
<1>5. WithFinalizers(r, x, y) = [edited EXCEPT !.exists = y]
  BY DEF WithFinalizers
<1> HIDE DEF edited
<1>6. [edited EXCEPT !.exists = y] = [exists |-> y, deleting |-> deleting,
                                      finalizers |-> x, cond |-> status]
  BY <1>4
<1>7. WithFinalizers(r, x, y) = ARes(c, y, deleting, x, cond)
  BY <1>5, <1>6 DEF ARes, status
<1> QED BY <1>2, <1>3, <1>7
=============================================================================
