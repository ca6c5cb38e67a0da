----------------------------- MODULE PointerWalk -----------------------------
(***************************************************************************)
(* What the pointer-chasing part of the read-after-write test promises: a  *)
(* pass of stores and then a pass of loads, each over the same number of   *)
(* blocks; in a block every line is touched, in any order, and none is     *)
(* touched again before all of them have been.                             *)
(***************************************************************************)
EXTENDS Naturals

VARIABLES
  pass,    \* "none", "store", "load" or "over"
  shape,   \* the blocks of a pass and the lines of a block
  block,   \* the block the pass is in
  todo,    \* its lines that this lap has not touched
  lapped   \* whether a lap of it is complete

vars == <<pass, shape, block, todo, lapped>>

Lines == 0 .. shape.lines - 1

Init ==
  /\ pass = "none"
  /\ shape = [blocks |-> 0, lines |-> 0]
  /\ block = 0
  /\ todo = {}
  /\ lapped = FALSE

Start ==
  /\ pass = "none" /\ pass' = "store"
  /\ shape' \in [blocks : Nat \ {0}, lines : Nat \ {0}]
  /\ block' = 0 /\ todo' = 0 .. shape'.lines - 1 /\ lapped' = FALSE

Touch ==
  /\ pass \in {"store", "load"}
  /\ LET left == IF todo = {} THEN Lines ELSE todo IN
     \E l \in left : todo' = left \ {l}
  /\ lapped' = (lapped \/ todo' = {})
  /\ UNCHANGED <<pass, shape, block>>

EndBlock ==
  /\ pass \in {"store", "load"} /\ lapped
  /\ lapped' = FALSE /\ todo' = Lines /\ shape' = shape
  /\ \/ block + 1 < shape.blocks /\ block' = block + 1 /\ pass' = pass
     \/ block + 1 = shape.blocks /\ block' = 0
        /\ pass' = IF pass = "store" THEN "load" ELSE "over"

\* The test is given up before the first store.
GiveUp == pass = "none" /\ pass' = "over" /\ UNCHANGED <<shape, block, todo, lapped>>

Next == Start \/ Touch \/ EndBlock \/ GiveUp

Spec == Init /\ [][Next]_vars /\ WF_vars(Touch) /\ WF_vars(EndBlock)
=============================================================================
