---------------------------- MODULE MCResultLayout ----------------------------
(***************************************************************************)
(* A small instance of ResultLayout: three tasks with one, two and four    *)
(* results a call, hence five reports of twelve words.                     *)
(***************************************************************************)
EXTENDS ResultLayout

Results == [t \in Tasks |-> 2 ^ t]
=============================================================================
