----------------------------- MODULE BarrierSpec -----------------------------
(***************************************************************************)
(* What GNI_IOC_CDM_BARR promises to the instances of a job: a caller goes *)
(* on only after Size instances have called.                               *)
(***************************************************************************)
EXTENDS Integers, FiniteSets

CONSTANTS Procs, Size

VARIABLES waiting,  \* the callers of the round being collected
          done      \* the callers whose round is complete and who may go on

Init == waiting = {} /\ done = {}

\* A caller that is not the last one of its round waits.
Wait(p) ==
  /\ p \notin waiting \cup done
  /\ Cardinality(waiting) + 1 < Size
  /\ waiting' = waiting \cup {p}
  /\ done' = done

\* The last caller of the round goes on and lets all the others go on.
Complete(p) ==
  /\ p \notin waiting \cup done
  /\ Cardinality(waiting) + 1 = Size
  /\ waiting' = {}
  /\ done' = done \cup waiting

GoOn(p) ==
  /\ p \in done
  /\ done' = done \ {p}
  /\ waiting' = waiting

Next == \E p \in Procs : Wait(p) \/ Complete(p) \/ GoOn(p)

Spec == Init /\ [][Next]_<<waiting, done>>

=============================================================================
