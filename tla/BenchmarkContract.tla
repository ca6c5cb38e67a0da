--------------------------- MODULE BenchmarkContract ---------------------------
(***************************************************************************)
(* What LatTester promises about a series of commands, without the module, *)
(* its shared parameters or its threads' life cycle: the workers of        *)
(* command r are the pairs <<r, c>>; a worker measures once, with the      *)
(* parameters of its own command, never beside a worker of another         *)
(* command, and never after one of a later command; and a measurement that *)
(* has begun ends.                                                         *)
(***************************************************************************)
EXTENDS Naturals

CONSTANTS
  Runs,   \* the numbers of the commands, in their order
  Cores

VARIABLES
  measuring,  \* workers that use the medium
  done,       \* workers that have finished, or will never measure
  uses        \* the command whose parameters a worker holds, 0 for none

vars == <<measuring, done, uses>>

Workers == Runs \X Cores

Init ==
  /\ measuring = {}
  /\ done = {}
  /\ uses = [t \in Workers |-> 0]

Begin(t) ==
  /\ t \notin measuring \cup done
  /\ \A u \in measuring : u[1] = t[1]
  /\ \A u \in done : u[1] <= t[1]
  /\ measuring' = measuring \cup {t}
  /\ uses' = [uses EXCEPT ![t] = t[1]]
  /\ done' = done

End(t) ==
  /\ t \in measuring
  /\ measuring' = measuring \ {t}
  /\ done' = done \cup {t}
  /\ uses' = uses

\* A worker that is told to stop first, or refuses its parameters.
Skip(t) ==
  /\ t \notin measuring \cup done
  /\ done' = done \cup {t}
  /\ uses' \in {uses, [uses EXCEPT ![t] = t[1]]}
  /\ measuring' = measuring

Next == \E t \in Workers : Begin(t) \/ End(t) \/ Skip(t)

Spec == Init /\ [][Next]_vars /\ \A t \in Workers : WF_vars(End(t))
=============================================================================
