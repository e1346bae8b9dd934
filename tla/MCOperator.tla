----------------------------- MODULE MCOperator -----------------------------
(***************************************************************************)
(* A small instance of Operator: both reconcilers in two managers.         *)
(***************************************************************************)
EXTENDS Operator

CONSTANTS m1, m2, transport, api
=============================================================================
