----------------------------- MODULE RunLedger ------------------------------
(***************************************************************************)
(* What a run promises to those who follow it from outside, by its journal *)
(* alone (the comments of finish and failEvent in execution/journal.go, of *)
(* reconcileInterruptedRuns in api/server.go): it is begun once, and taken *)
(* up again only while no process is at work on it; a process comes to one *)
(* verdict, which is the last it says of the run; "cancelled" is said only *)
(* of a run that was cancelled; and "interrupted" only of one that no      *)
(* process works on and that did not say it came to its end.               *)
(***************************************************************************)
CONSTANT Runs

VARIABLE ledger   \* what has become of each run, see Record

Verdicts == {"run_end", "run_failed", "run_cancelled"}

\* life: concluded is a process that has come to its verdict and not returned,
\* rest that no process works on the run. told: the last event about the whole
\* run. cancelled: the process at work has been told to stop.
Record ==
    [life : {"new", "working", "concluded", "rest"},
     told : Verdicts \cup {"none", "run_start", "run_resumed", "interrupted"},
     cancelled : BOOLEAN]

Becomes(r, life, told, cancelled) ==
    ledger' = [ledger EXCEPT ![r] = [life |-> life, told |-> told, cancelled |-> cancelled]]

\* An event that is written may be lost.
Told(r, event) == {ledger[r].told, event}

LedgerInit == ledger = [r \in Runs |-> [life |-> "new", told |-> "none", cancelled |-> FALSE]]

Begin(r) ==
    /\ ledger[r].life = "new"
    /\ \E told \in Told(r, "run_start") : Becomes(r, "working", told, ledger[r].cancelled)

Cancel(r) ==
    /\ ledger[r].life # "rest"
    /\ Becomes(r, ledger[r].life, ledger[r].told, TRUE)

Conclude(r) ==
    /\ ledger[r].life = "working"
    /\ \E verdict \in Verdicts :
          /\ verdict = "run_cancelled" => ledger[r].cancelled
          /\ \E told \in Told(r, verdict) :
                \/ Becomes(r, "concluded", told, ledger[r].cancelled)
                \/ Becomes(r, "rest", told, FALSE)

\* The process returns, or it dies.
Leave(r) ==
    /\ ledger[r].life # "rest"
    /\ Becomes(r, "rest", ledger[r].told, FALSE)

\* Only what has left a trace is resumed; that may fail at once.
Resume(r) ==
    /\ ledger[r].life = "rest"
    /\ ledger[r].told # "none"
    /\ \E life \in {"working", "rest"}, told \in Told(r, "run_resumed") : Becomes(r, life, told, FALSE)

Interrupt(r) ==
    /\ ledger[r].life = "rest"
    /\ ledger[r].told \notin {"none", "run_end", "interrupted"}
    /\ Becomes(r, "rest", "interrupted", FALSE)

LedgerNext ==
    \E r \in Runs : Begin(r) \/ Cancel(r) \/ Conclude(r) \/ Leave(r) \/ Resume(r) \/ Interrupt(r)

LedgerSpec == LedgerInit /\ [][LedgerNext]_ledger
=============================================================================
