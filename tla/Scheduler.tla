----------------------------- MODULE Scheduler ------------------------------
(***************************************************************************)
(* Daemon.Run and Daemon.Tick (internal/cron/daemon.go) over the slot      *)
(* queue: which slot a tick takes for a pipeline, the overlap policy with  *)
(* its .running lock files, catch-up from the saved LastRun, and crashes   *)
(* with a restart under another or the same process id.                    *)
(*                                                                         *)
(* The files of a tick are visited one by one, each run blocking the rest, *)
(* and all are judged by the one clock reading taken when the tick began.  *)
(***************************************************************************)
EXTENDS SlotQueue, FiniteSetsExt

CONSTANTS
    Slots,        \* Slots[f]: the minutes the cron expression of f matches
    Overlap,      \* Overlap[f]: "skip", "queue" or "allow"
    CatchUp,      \* the pipelines with catch_up: true
    Lead,         \* 1: ticks fall in the last five seconds of their minute
    Pids,         \* process ids a daemon may be given
    NoPid,        \* no lock file
    NoRun,        \* no LastRun in the state file
    MaxRestarts   \* bound on crashes

VARIABLES
    pid,          \* os.Getpid() of the daemon; NoPid while none runs
    lock,         \* .running.<file>.lock: the pid written in it
    queuedMark,   \* .running.<file>.lock.queued exists
    lastRun,      \* LastRun in .state/<file>.json
    todo,         \* files this tick has not visited yet
    dueSlot,      \* the slot that made the claimed run due
    served,       \* history: <<f, s>> with a run that was started because of s
    restarts      \* crashes so far

tickVars == <<pid, lock, queuedMark, lastRun, todo, dueSlot, served, restarts>>
svars == <<vars, tickVars>>

\* Next: the first slot at or after minute t, if there is one within the year.
SlotsFrom(f, t) == {s \in Slots[f] : s >= t}
NextFrom(f, t) == Min(SlotsFrom(f, t))

ASSUME SchedulerAssumption ==
    /\ Slots \in [Jobs -> SUBSET (0 .. MaxTime + Horizon)]
    /\ Overlap \in [Jobs -> {"skip", "queue", "allow"}]
    /\ CatchUp \subseteq Jobs
    /\ Lead \in {0, 1} /\ Lead <= Horizon
    /\ NoPid \notin Pids
    /\ MaxRestarts \in Nat
    \* the slot a catch-up claims is never farther away than Horizon
    /\ \A f \in CatchUp, t \in 0 .. MaxTime :
          SlotsFrom(f, t) # {} => NextFrom(f, t) <= t + Horizon

SInit ==
    /\ Init
    /\ pid = NoPid
    /\ lock = [f \in Jobs |-> NoPid]
    /\ queuedMark = [f \in Jobs |-> FALSE]
    /\ lastRun = [f \in Jobs |-> NoRun]
    /\ todo = {}
    /\ dueSlot = NoRun
    /\ served = {}
    /\ restarts = 0

-----------------------------------------------------------------------------
(* What Tick decides about one file                                        *)

HasNext(f) == SlotsFrom(f, tickNow) # {}
NextSlot(f) == NextFrom(f, tickNow)
Key(f) == <<f, NextSlot(f)>>

\* staleLock: a lock is stale when its pid is another one and not alive; no
\* other daemon is alive here, so every other pid is dead.
Busy(f) == lock[f] = pid
Blocked(f) == Busy(f) /\ Overlap[f] # "allow"
Unstale(f) == IF Busy(f) THEN lock ELSE [lock EXCEPT ![f] = NoPid]

\* Mutant: a slot is due only after its minute.
DueLate(f) == NextSlot(f) < tickNow + Lead

DueNow(f) == NextSlot(f) <= tickNow + Lead

\* The slot missed since the last run, strictly before this minute.
Missed(f) == NextFrom(f, lastRun[f] + 2)
CatchUpDue(f) ==
    /\ f \in CatchUp
    /\ lastRun[f] # NoRun
    /\ SlotsFrom(f, lastRun[f] + 2) # {}
    /\ Missed(f) <= tickNow

Due(f) == DueNow(f) \/ CatchUpDue(f)

Visit(f) ==
    /\ phase = "tick"
    /\ f \in todo
    /\ todo' = todo \ {f}
    /\ UNCHANGED <<pid, lastRun, served, restarts>>

\* Visiting f ends without a run: the queue and the tick are as they were.
PassOver(f) == Visit(f) /\ UNCHANGED <<vars, dueSlot>>

\* Cron has no next slot: the file is left before its lock is looked at.
SkipNoSlot(f) ==
    /\ PassOver(f)
    /\ ~HasNext(f)
    /\ UNCHANGED <<lock, queuedMark>>

SkipOverlap(f) ==
    /\ PassOver(f)
    /\ HasNext(f)
    /\ Blocked(f)
    /\ queuedMark' = [queuedMark EXCEPT ![f] = @ \/ Overlap[f] = "queue"]
    /\ UNCHANGED lock

Considered(f) ==
    /\ HasNext(f)
    /\ ~Blocked(f)
    /\ lock' = Unstale(f)
    /\ UNCHANGED queuedMark

\* saveState rewrites the LastRun it has read.
SkipNotDue(f) == PassOver(f) /\ Considered(f) /\ ~Due(f)

\* openQueue fails again, or the queue is poisoned: better no run than two.
SkipNoQueue(f) ==
    /\ PassOver(f)
    /\ Considered(f)
    /\ Due(f)
    /\ ~open \/ fault

SkipTaken(f) ==
    /\ PassOver(f)
    /\ Considered(f)
    /\ Due(f)
    /\ open /\ ~fault
    /\ Claimed(mem, Key(f))

SReopenQueue ==
    /\ ReopenQueue
    /\ \E f \in todo : HasNext(f) /\ ~Blocked(f) /\ Due(f)
    /\ UNCHANGED tickVars

\* The key is the slot ahead also when an earlier, missed one made f due.
SClaim(f) ==
    /\ Visit(f)
    /\ Considered(f)
    /\ Due(f)
    /\ Claim(Key(f))
    /\ dueSlot' = IF DueNow(f) THEN NextSlot(f) ELSE Missed(f)

-----------------------------------------------------------------------------
Start(p) ==
    /\ OpenQueue \/ OpenQueueFails
    /\ pid' = p
    /\ UNCHANGED <<lock, queuedMark, lastRun, todo, dueSlot, served, restarts>>

SInterrupted == Interrupted /\ UNCHANGED tickVars
STrimClaims == TrimClaims /\ UNCHANGED tickVars

SBeginTick ==
    /\ BeginTick
    /\ todo' = Jobs
    /\ UNCHANGED <<pid, lock, queuedMark, lastRun, dueSlot, served, restarts>>

SLaunch ==
    /\ Launch
    /\ lock' = [lock EXCEPT ![slot[1]] = pid]
    /\ served' = served \cup {<<slot[1], dueSlot>>}
    /\ UNCHANGED <<pid, queuedMark, lastRun, todo, dueSlot, restarts>>

SRelease(outcome) == Release(outcome) /\ UNCHANGED tickVars

\* After Release: both lock files are removed and LastRun is saved.
Finish ==
    /\ Proceed
    /\ lock' = [lock EXCEPT ![slot[1]] = NoPid]
    /\ queuedMark' = [queuedMark EXCEPT ![slot[1]] = FALSE]
    /\ lastRun' = [lastRun EXCEPT ![slot[1]] = tickNow]
    /\ dueSlot' = NoRun
    /\ UNCHANGED <<pid, todo, served, restarts>>

SEndTick == todo = {} /\ EndTick /\ UNCHANGED tickVars

SCrash ==
    /\ restarts < MaxRestarts
    /\ restarts' = restarts + 1
    /\ Crash
    /\ todo' = {}
    /\ dueSlot' = NoRun
    /\ pid' = NoPid
    /\ UNCHANGED <<lock, queuedMark, lastRun, served>>

SPass == Pass /\ UNCHANGED tickVars

SNext ==
    \/ \E p \in Pids : Start(p)
    \/ SInterrupted
    \/ STrimClaims
    \/ SBeginTick
    \/ SReopenQueue
    \/ \E f \in Jobs : \/ SkipNoSlot(f)
                       \/ SkipOverlap(f)
                       \/ SkipNotDue(f)
                       \/ SkipNoQueue(f)
                       \/ SkipTaken(f)
                       \/ SClaim(f)
    \/ SLaunch
    \/ \E outcome \in Outcomes : SRelease(outcome)
    \/ Finish
    \/ SEndTick
    \/ SCrash
    \/ SPass

SchedulerSpec == SInit /\ [][SNext]_svars

-----------------------------------------------------------------------------
STypeOK ==
    /\ TypeOK
    /\ pid \in Pids \cup {NoPid}
    /\ lock \in [Jobs -> Pids \cup {NoPid}]
    /\ queuedMark \in [Jobs -> BOOLEAN]
    /\ lastRun \in [Jobs -> (0 .. MaxTime) \cup {NoRun}]
    /\ todo \subseteq Jobs
    /\ dueSlot \in (0 .. MaxTime + Horizon) \cup {NoRun}
    /\ served \subseteq Keys
    /\ restarts \in 0 .. MaxRestarts

\* The scheduler calls the queue only as SlotQueue allows it to.
UsesQueue == QueueSpec

\* f's slot has come and is passed over as finished, but nothing was run for it.
WronglySkipped(f) ==
    /\ SkipTaken(f)
    /\ DueNow(f)
    /\ mem[Key(f)].status \in Outcomes
    /\ Key(f) \notin served

\* daemon.go, the branch of a refused claim ("this slot has already run"):
\* without catch_up a slot passed over as finished is one that was run.
PlainSkippedHasRun == [][\A f \in Jobs \ CatchUp : ~WronglySkipped(f)]_svars

\* The same of every pipeline, as the comment says it.
SkippedHasRun == [][\A f \in Jobs : ~WronglySkipped(f)]_svars

\* A tick that visits a pipeline in the very minute of one of its slots leaves
\* the slot claimed, unless the lock is held or the queue is out of order.
DueSlotsClaimed ==
    [][\A f \in todo \ todo' :
         phase' # "down" /\ tickNow \in Slots[f] /\ ~Blocked(f) /\ open /\ ~fault
            => Claimed(mem', <<f, tickNow>>)]_svars

\* Both: no slot is lost without a word, neither passed over nor left unclaimed
\* (daemon.go, runTick).
SlotsAreHonoured == PlainSkippedHasRun /\ DueSlotsClaimed
=============================================================================
