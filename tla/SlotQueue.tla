----------------------------- MODULE SlotQueue ------------------------------
(***************************************************************************)
(* The durable slot queue of the scheduler daemon (internal/cron/queue.go) *)
(* and the order in which the daemon calls it (daemon.go: Run and Tick).   *)
(* A slot is claimed on disk before its pipeline runs and released after;  *)
(* a claim outlives its run, and a slot found running by a new daemon is   *)
(* marked interrupted, never run again.                                    *)
(*                                                                         *)
(* One daemon at a time: DaemonLock is about two of them.  Time is counted *)
(* in minutes, as cron does.                                               *)
(***************************************************************************)
EXTENDS Naturals

CONSTANTS
    Jobs,       \* pipeline files that have a schedule
    MaxTime,    \* bound: the clock stops here
    ClaimAge,   \* claimAge: for how long the claim of a finished slot is kept
    Horizon,    \* how far after the tick the slot it claims may lie
    NoKey       \* no slot in hand

Keys == Jobs \X (0 .. MaxTime + Horizon)

SlotTime(k) == k[2]

\* TrimClaims may forget a slot only when no later tick can ask for it again.
ASSUME QueueAssumption ==
    /\ MaxTime \in Nat
    /\ ClaimAge \in Nat
    /\ Horizon \in Nat
    /\ Horizon <= ClaimAge
    /\ NoKey \notin Keys

VARIABLES
    now,        \* wall clock
    phase,      \* where the daemon is, see Phases
    open,       \* d.queue is not nil
    mem,        \* q.state: Claims and Tasks, which always have the same keys
    disk,       \* queue.json
    fault,      \* q.fault is set: an uncertain write poisoned the queue
    tickNow,    \* Tick's local now, read once per tick; 0 outside a tick
    slot,       \* the slot this tick has claimed
    runs,       \* history: how often each slot's pipeline was started
    finished,   \* history: slots whose pipeline returned
    noticed     \* history: slots reported as interrupted

queueVars == <<open, mem, disk, fault>>
historyVars == <<runs, finished, noticed>>
vars == <<now, phase, open, mem, disk, fault, tickNow, slot,
          runs, finished, noticed>>

Phases == {"down", "opened", "marked", "idle", "tick",
           "claimed", "working", "released"}

Statuses == {"free", "running", "done", "failed", "interrupted"}
Outcomes == {"done", "failed"}

Entry == [status : Statuses, updated : 0 .. MaxTime]
Free == [status |-> "free", updated |-> 0]
NoClaims == [k \in Keys |-> Free]
Claimed(m, k) == m[k].status # "free"

Init ==
    /\ now = 0
    /\ phase = "down"
    /\ open = FALSE
    /\ mem = NoClaims
    /\ disk = NoClaims
    /\ fault = FALSE
    /\ tickNow = 0
    /\ slot = NoKey
    /\ runs = [k \in Keys |-> 0]
    /\ finished = {}
    /\ noticed = {}

(***************************************************************************)
(* commit: temporary file, fsync, rename, fsync of the directory.  It may  *)
(* fail before the rename (the disk keeps the old snapshot) or after it    *)
(* (the new one is there); either way the queue is poisoned, and memory    *)
(* keeps the change.                                                       *)
(***************************************************************************)
Commit(m) ==
    /\ mem' = m
    /\ \/ /\ disk' = m
          /\ fault' = FALSE
       \/ /\ disk' \in {disk, m}
          /\ fault' = TRUE

-----------------------------------------------------------------------------
(* Daemon start: openQueue, Interrupted, TrimClaims                        *)

\* The snapshot on disk is always one that commit wrote whole, so the checks
\* of openQueue on its form hold.
OpenQueue ==
    /\ phase = "down"
    /\ phase' = "opened"
    /\ open' = TRUE
    /\ mem' = disk
    /\ fault' = FALSE
    /\ UNCHANGED <<now, disk, tickNow, slot, historyVars>>

\* queue.json could not be read: the daemon goes on with d.queue = nil.
OpenQueueFails ==
    /\ phase = "down"
    /\ phase' = "idle"
    /\ UNCHANGED <<now, queueVars, tickNow, slot, historyVars>>

\* Mutant: work cut short is written off as done.
MarkedDone(m) ==
    [k \in Keys |-> IF m[k].status = "running"
                    THEN [status |-> "done", updated |-> now]
                    ELSE m[k]]

MarkedInterrupted(m) ==
    [k \in Keys |-> IF m[k].status = "running"
                    THEN [status |-> "interrupted", updated |-> now]
                    ELSE m[k]]

\* The notices are printed whether or not the snapshot could be written.
Interrupted ==
    /\ phase = "opened"
    /\ phase' = "marked"
    /\ LET caught == {k \in Keys : mem[k].status = "running"} IN
         IF caught = {}
         THEN UNCHANGED <<queueVars, noticed>>
         ELSE /\ Commit(MarkedInterrupted(mem))
              /\ noticed' = noticed \cup caught
              /\ UNCHANGED open
    /\ UNCHANGED <<now, tickNow, slot, runs, finished>>

Expired(e) == /\ e.status \notin {"free", "running"}
              /\ e.updated + ClaimAge < now

Trimmed(m) == [k \in Keys |-> IF Expired(m[k]) THEN Free ELSE m[k]]

TrimClaims ==
    /\ phase = "marked"
    /\ phase' = "idle"
    /\ IF fault \/ \A k \in Keys : ~Expired(mem[k])
       THEN UNCHANGED queueVars
       ELSE Commit(Trimmed(mem)) /\ UNCHANGED open
    /\ UNCHANGED <<now, tickNow, slot, historyVars>>

-----------------------------------------------------------------------------
(* One tick: for each due slot Claim, run, Release                         *)

\* Mutant: the clock is rounded up to the next minute.
BeginTickEarly ==
    /\ phase = "idle"
    /\ phase' = "tick"
    /\ tickNow' = now + 1
    /\ UNCHANGED <<now, queueVars, slot, historyVars>>

BeginTick ==
    /\ phase = "idle"
    /\ phase' = "tick"
    /\ tickNow' = now
    /\ UNCHANGED <<now, queueVars, slot, historyVars>>

\* A tick that finds no queue opens it; no slot is marked interrupted then.
ReopenQueue ==
    /\ phase = "tick"
    /\ ~open
    /\ open' = TRUE
    /\ mem' = disk
    /\ fault' = FALSE
    /\ UNCHANGED <<now, phase, disk, tickNow, slot, historyVars>>

\* Mutant: Claim returns true although the snapshot was not written.
ClaimUnwritten(k) ==
    /\ phase = "tick"
    /\ open
    /\ ~fault
    /\ tickNow <= SlotTime(k)
    /\ SlotTime(k) <= tickNow + Horizon
    /\ ~Claimed(mem, k)
    /\ Commit([mem EXCEPT ![k] = [status |-> "running", updated |-> now]])
    /\ phase' = "claimed"
    /\ slot' = k
    /\ UNCHANGED <<now, open, tickNow, historyVars>>

\* Claim(key, job) by a tick: the slot lies at or after the minute of the tick.
Claim(k) ==
    /\ phase = "tick"
    /\ open
    /\ ~fault
    /\ tickNow <= SlotTime(k)
    /\ SlotTime(k) <= tickNow + Horizon
    /\ ~Claimed(mem, k)
    /\ Commit([mem EXCEPT ![k] = [status |-> "running", updated |-> now]])
    /\ IF fault'
       THEN UNCHANGED <<phase, slot>>
       ELSE phase' = "claimed" /\ slot' = k
    /\ UNCHANGED <<now, open, tickNow, historyVars>>

\* The runner is called: from here on the pipeline acts on the world.
Launch ==
    /\ phase = "claimed"
    /\ phase' = "working"
    /\ runs' = [runs EXCEPT ![slot] = @ + 1]
    /\ UNCHANGED <<now, queueVars, tickNow, slot, finished, noticed>>

\* Mutant: Release drops the claim together with the work.
ReleaseAndForget(outcome) ==
    /\ phase = "working"
    /\ phase' = "released"
    /\ finished' = finished \cup {slot}
    /\ IF fault \/ ~Claimed(mem, slot)
       THEN UNCHANGED queueVars
       ELSE Commit([mem EXCEPT ![slot] = Free]) /\ UNCHANGED open
    /\ UNCHANGED <<now, tickNow, slot, runs, noticed>>

\* The runner returns and Release records how; a failed write is only printed.
Release(outcome) ==
    /\ phase = "working"
    /\ phase' = "released"
    /\ finished' = finished \cup {slot}
    /\ IF fault \/ ~Claimed(mem, slot)
       THEN UNCHANGED queueVars
       ELSE /\ Commit([mem EXCEPT ![slot] =
                           [status |-> outcome, updated |-> now]])
            /\ UNCHANGED open
    /\ UNCHANGED <<now, tickNow, slot, runs, noticed>>

\* After Release the tick goes on to the next file.
Proceed ==
    /\ phase = "released"
    /\ phase' = "tick"
    /\ slot' = NoKey
    /\ UNCHANGED <<now, queueVars, tickNow, historyVars>>

EndTick ==
    /\ phase = "tick"
    /\ phase' = "idle"
    /\ tickNow' = 0
    /\ UNCHANGED <<now, queueVars, slot, historyVars>>

-----------------------------------------------------------------------------
\* SIGKILL, panic, power cut: everything but the disk is gone.
Crash ==
    /\ phase # "down"
    /\ phase' = "down"
    /\ open' = FALSE
    /\ mem' = NoClaims
    /\ fault' = FALSE
    /\ tickNow' = 0
    /\ slot' = NoKey
    /\ UNCHANGED <<now, disk, historyVars>>

Pass ==
    /\ now < MaxTime
    /\ now' = now + 1
    /\ UNCHANGED <<phase, queueVars, tickNow, slot, historyVars>>

Next ==
    \/ OpenQueue
    \/ OpenQueueFails
    \/ Interrupted
    \/ TrimClaims
    \/ BeginTick
    \/ ReopenQueue
    \/ \E k \in Keys : Claim(k)
    \/ Launch
    \/ \E outcome \in Outcomes : Release(outcome)
    \/ Proceed
    \/ EndTick
    \/ Crash
    \/ Pass

QueueSpec == Init /\ [][Next]_vars

-----------------------------------------------------------------------------
TypeOK ==
    /\ now \in 0 .. MaxTime
    /\ phase \in Phases
    /\ open \in BOOLEAN
    /\ mem \in [Keys -> Entry]
    /\ disk \in [Keys -> Entry]
    /\ fault \in BOOLEAN
    /\ tickNow \in 0 .. now
    /\ slot \in Keys \cup {NoKey}
    /\ runs \in [Keys -> Nat]
    /\ finished \in SUBSET Keys
    /\ noticed \in SUBSET Keys

\* queue.go: a slot that has been worked on is never started a second time,
\* whatever crashes, restarts, failed writes and trimmed claims lie between.
AtMostOnce == \A k \in Keys : runs[k] <= 1

\* Claim returns true only after the claim is on disk: a crash while the
\* pipeline runs always leaves a record that it had begun.
DurableBeforeWork ==
    phase \in {"claimed", "working"} => disk[slot].status = "running"

\* A slot whose run died with the daemon.
WasCut(k) == /\ runs[k] > 0
             /\ k \notin finished
             /\ ~(phase = "working" /\ slot = k)

\* Interrupted and TrimClaims: a run cut by a crash stays marked running until
\* its notice is printed, and is never passed off as done or failed.
CutRunsAreReported ==
    \A k \in Keys : WasCut(k) =>
        /\ disk[k].status = "running" \/ k \in noticed
        /\ disk[k].status \notin Outcomes

Ledger == INSTANCE SlotLedger WITH
    ledger <- [k \in Keys |->
                  IF phase = "working" /\ slot = k THEN "working"
                  ELSE IF k \in finished THEN "ended"
                  ELSE IF runs[k] > 0 THEN "cut"
                  ELSE "idle"]

\* The queue keeps the promise of SlotLedger.
LedgerKept == Ledger!LedgerSpec
=============================================================================
