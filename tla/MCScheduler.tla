---------------------------- MODULE MCScheduler -----------------------------
(***************************************************************************)
(* A small instance of Scheduler: `plain' runs in minute 2 and never       *)
(* catches up, `chaser' runs every second minute and does.                 *)
(***************************************************************************)
EXTENDS Scheduler, TLC

CONSTANTS plain, chaser

MCSlots == [f \in {plain, chaser} |-> IF f = plain THEN {2} ELSE {0, 2, 4}]
MCOverlap == [f \in {plain, chaser} |-> IF f = plain THEN "queue" ELSE "skip"]

PidSymmetry == Permutations(Pids)
=============================================================================
