----------------------------- MODULE SlotLedger -----------------------------
(***************************************************************************)
(* What the scheduler promises about its slots (internal/cron/queue.go,    *)
(* header comment): a slot that has been started is never started again,   *)
(* at most one slot is being worked on, and a run ends in exactly one way, *)
(* by returning or by dying with the daemon.                               *)
(***************************************************************************)
CONSTANT Keys          \* slots: a pipeline file and the minute it is due

VARIABLE ledger        \* ledger[k]: what has become of slot k so far

SlotStates == {"idle", "working", "ended", "cut"}

LedgerInit == ledger = [k \in Keys |-> "idle"]

Start(k) ==
    /\ ledger[k] = "idle"
    /\ \A other \in Keys : ledger[other] # "working"
    /\ ledger' = [ledger EXCEPT ![k] = "working"]

\* The runner came back, with or without an error.
End(k) ==
    /\ ledger[k] = "working"
    /\ ledger' = [ledger EXCEPT ![k] = "ended"]

\* The daemon died while the slot was being worked on.
Cut(k) ==
    /\ ledger[k] = "working"
    /\ ledger' = [ledger EXCEPT ![k] = "cut"]

LedgerNext == \E k \in Keys : Start(k) \/ End(k) \/ Cut(k)

LedgerSpec == LedgerInit /\ [][LedgerNext]_ledger
=============================================================================
