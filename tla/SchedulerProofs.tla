--------------------------- MODULE SchedulerProofs --------------------------
(***************************************************************************)
(* The scheduler calls the slot queue only as SlotQueue lets it, so what   *)
(* is proved of the queue holds of the scheduler.  And it honours its      *)
(* slots: a tick in the minute of a slot claims it, and without catch-up   *)
(* none is passed over as run that was not.                                *)
(***************************************************************************)
EXTENDS Scheduler, SlotQueueProofs, WellFoundedInduction

\* Next of cron finds the least of the slots that are left, if any is.
LEMMA LeastSlot ==
    ASSUME NEW S \in SUBSET Nat, S # {}
    PROVE  /\ Min(S) \in S
           /\ \A s \in S : Min(S) <= s
<1> DEFINE Less == {p \in Nat \X Nat : p[1] < p[2]}
<1>1. IsWellFoundedOn(Less, Nat)
  BY NatLessThanWellFounded, Zenon DEF OpToRel
<1> HIDE DEF Less
<1>2. PICK x \in S : \A y \in S : ~(<<y, x>> \in Less)
  BY <1>1, WFMin
<1>3. ASSUME NEW y \in S
      PROVE  x <= y
  <2>1. y < x => <<y, x>> \in Less
    BY DEF Less
  <2> QED
    BY <1>2, <2>1
<1> QED
  BY <1>3 DEF Min

\* Every step of a tick or of the start of the daemon is one of the queue's,
\* or leaves the queue alone.
LEMMA SchedulerStep ==
    ASSUME [SNext]_svars
    PROVE  [Next]_vars
<1>1. CASE \E p \in Pids : Start(p)
  BY <1>1 DEF Start, Next
<1>2. CASE SInterrupted \/ STrimClaims \/ SBeginTick \/ SReopenQueue
  BY <1>2 DEF SInterrupted, STrimClaims, SBeginTick, SReopenQueue, Next
<1>3. ASSUME NEW f \in Jobs,
             SkipNoSlot(f) \/ SkipOverlap(f) \/ SkipNotDue(f)
                \/ SkipNoQueue(f) \/ SkipTaken(f)
      PROVE  UNCHANGED vars
  BY <1>3 DEF SkipNoSlot, SkipOverlap, SkipNotDue, SkipNoQueue, SkipTaken, PassOver
<1>4. ASSUME NEW f \in Jobs, SClaim(f)
      PROVE  \E k \in Keys : Claim(k)
  <2>1. HasNext(f) /\ Claim(Key(f))
    BY <1>4 DEF SClaim, Considered
  <2>2. SlotsFrom(f, tickNow) \subseteq 0 .. MaxTime + Horizon
    BY SchedulerAssumption DEF SlotsFrom
  <2>3. NextSlot(f) \in 0 .. MaxTime + Horizon
    BY <2>1, <2>2, LeastSlot, QueueAssumption DEF HasNext, NextSlot, NextFrom
  <2> QED
    BY <2>1, <2>3 DEF Key, Keys
<1>5. CASE SLaunch \/ Finish \/ SEndTick \/ SCrash \/ SPass
  BY <1>5 DEF SLaunch, Finish, SEndTick, SCrash, SPass, Next
<1>6. CASE \E outcome \in Outcomes : SRelease(outcome)
  BY <1>6 DEF SRelease, Next
<1>7. CASE UNCHANGED svars
  BY <1>7 DEF svars
<1> QED
  BY <1>1, <1>2, <1>3, <1>4, <1>5, <1>6, <1>7 DEF SNext, Next

\* Whatever the cron expressions, overlap policies, lock files and restarts,
\* the daemon claims, starts and releases slots in the order of SlotQueue.
THEOREM SchedulerUsesQueue == SchedulerSpec => UsesQueue
<1>1. SInit => Init
  BY DEF SInit
<1>2. [SNext]_svars => [Next]_vars
  BY SchedulerStep
<1> QED
  BY <1>1, <1>2, PTL DEF SchedulerSpec, UsesQueue, QueueSpec

\* So the daemon starts no slot twice, works on none whose claim is not on disk
\* and reports what it was working on when it died.
THEOREM SchedulerSafety ==
    SchedulerSpec => [](AtMostOnce /\ DurableBeforeWork /\ CutRunsAreReported)
  BY SchedulerUsesQueue, StartedAtMostOnce, ClaimedOnDisk, CutRunsReported, PTL
     DEF UsesQueue

\* The scheduler is a queue at work, so it keeps the promise of SlotLedger too.
THEOREM SchedulerKeepsLedger == SchedulerSpec => LedgerKept
  BY SchedulerUsesQueue, QueueKeepsLedger, PTL DEF UsesQueue

-----------------------------------------------------------------------------
(* What the scheduler itself keeps                                         *)

Minutes == 0 .. MaxTime + Horizon

Ticking ==
    /\ pid \in Pids \cup {NoPid}
    /\ lock \in [Jobs -> Pids \cup {NoPid}]
    /\ queuedMark \in [Jobs -> BOOLEAN]
    /\ lastRun \in [Jobs -> (0 .. MaxTime) \cup {NoRun}]
    /\ todo \subseteq Jobs
    /\ dueSlot \in Minutes \cup {NoRun}
    /\ served \subseteq Keys
    /\ restarts \in 0 .. MaxRestarts

\* The run in hand has a slot that made it due, without catch-up its own, and
\* without catch-up the slots that were run are those that made them due.
Serving ==
    /\ phase \in HandPhases => dueSlot \in Minutes
    /\ phase \in HandPhases => slot[1] \in CatchUp \/ dueSlot = slot[2]
    /\ \A k \in Keys : runs[k] > 0 => k[1] \in CatchUp \/ k \in served

SInv == Ticking /\ Serving

\* The slots Cron finds are minutes.
LEMMA SlotsAreMinutes ==
    ASSUME NEW f \in Jobs, NEW t, SlotsFrom(f, t) # {}
    PROVE  /\ NextFrom(f, t) \in SlotsFrom(f, t) /\ NextFrom(f, t) \in Minutes
           /\ \A s \in SlotsFrom(f, t) : NextFrom(f, t) <= s
<1>1. SlotsFrom(f, t) \subseteq Minutes
  BY SchedulerAssumption DEF SlotsFrom, Minutes
<1>2. Minutes \subseteq Nat
  BY QueueAssumption DEF Minutes
<1> QED
  BY <1>1, <1>2, LeastSlot DEF NextFrom

\* A tick takes f for a slot of f, without catch-up for the one it claims.
LEMMA ClaimServes ==
    ASSUME SInv, NEW f \in Jobs, SClaim(f)
    PROVE  SInv'
<1>1. /\ HasNext(f) /\ Due(f) /\ Claim(Key(f)) /\ lock' = Unstale(f)
      /\ dueSlot' = IF DueNow(f) THEN NextSlot(f) ELSE Missed(f)
      /\ todo' = todo \ {f} /\ phase = "tick"
      /\ UNCHANGED <<pid, queuedMark, lastRun, served, restarts, runs>>
  BY DEF SClaim, Visit, Considered, Claim, historyVars
<1>2. dueSlot' \in Minutes
  <2>1. CASE DueNow(f)
    BY <1>1, <2>1, SlotsAreMinutes DEF HasNext, NextSlot
  <2>2. CASE ~DueNow(f)
    BY <1>1, <2>2, SlotsAreMinutes DEF Due, CatchUpDue, Missed
  <2> QED
    BY <2>1, <2>2
<1>3. Ticking'
  <2>1. lock' \in [Jobs -> Pids \cup {NoPid}]
    BY <1>1 DEF Unstale, SInv, Ticking
  <2> QED
    BY <1>1, <1>2, <2>1 DEF SInv, Ticking
<1>4. phase' \in HandPhases => slot'[1] \in CatchUp \/ dueSlot' = slot'[2]
  <2>1. phase' \in HandPhases => slot' = <<f, NextSlot(f)>>
    BY <1>1 DEF Claim, Key, HandPhases
  <2>2. f \notin CatchUp => dueSlot' = NextSlot(f)
    BY <1>1 DEF Due, CatchUpDue
  <2> QED
    BY <2>1, <2>2
<1> QED
  BY <1>1, <1>2, <1>3, <1>4 DEF SInv, Serving

\* A daemon starts without a tick under way.
LEMMA SInvStart == SInit => SInv
<1> SUFFICES ASSUME SInit PROVE SInv
  OBVIOUS
<1>1. Ticking
  BY SchedulerAssumption DEF SInit, Ticking
<1>2. Serving
  BY DEF SInit, Init, Serving, HandPhases
<1> QED
  BY <1>1, <1>2 DEF SInv

\* What leaves the run in hand alone leaves Serving alone.
LEMMA ServingQuiet ==
    ASSUME Serving, UNCHANGED <<slot, dueSlot, served, runs>>,
           phase' \in HandPhases => phase \in HandPhases
    PROVE  Serving'
  BY DEF Serving

\* What is launched is in the hands of the daemon, for the slot that made it due.
LEMMA LaunchServes ==
    ASSUME IInv, SInv, SLaunch
    PROVE  SInv'
<1>1. /\ phase = "claimed" /\ slot' = slot
      /\ runs' = [runs EXCEPT ![slot] = @ + 1]
      /\ lock' = [lock EXCEPT ![slot[1]] = pid]
      /\ served' = served \cup {<<slot[1], dueSlot>>}
      /\ UNCHANGED <<pid, queuedMark, lastRun, todo, dueSlot, restarts>>
  BY DEF SLaunch, Launch
<1>2. /\ slot \in Keys /\ dueSlot \in Minutes
      /\ slot[1] \in CatchUp \/ dueSlot = slot[2]
  BY <1>1 DEF IInv, InHand, SInv, Serving, HandPhases
<1>3. slot[1] \in Jobs /\ slot = <<slot[1], slot[2]>>
  BY <1>2 DEF Keys
<1>4. <<slot[1], dueSlot>> \in Keys
  BY <1>2, <1>3 DEF Keys, Minutes
<1>5. Ticking'
  <2>1. lock' \in [Jobs -> Pids \cup {NoPid}] /\ served' \subseteq Keys
    BY <1>1, <1>3, <1>4 DEF SInv, Ticking
  <2> QED
    BY <1>1, <2>1 DEF SInv, Ticking
<1>6. ASSUME NEW k \in Keys, runs'[k] > 0
      PROVE  k[1] \in CatchUp \/ k \in served'
  <2>1. CASE k = slot
    BY <1>1, <1>2, <1>3, <2>1
  <2>2. CASE k # slot
    BY <1>1, <1>6, <2>2 DEF IInv, TypeOK, SInv, Serving
  <2> QED
    BY <2>1, <2>2
<1> QED
  BY <1>1, <1>2, <1>5, <1>6 DEF SInv, Serving

\* The invariant of the scheduler is inductive.
LEMMA SInvStep ==
    ASSUME IInv, SInv, [SNext]_svars
    PROVE  SInv'
<1>1. ASSUME NEW p \in Pids, Start(p)
      PROVE  SInv'
  <2>1. Ticking'
    BY <1>1 DEF Start, SInv, Ticking
  <2>2. Serving'
    BY <1>1, ServingQuiet DEF Start, OpenQueue, OpenQueueFails, SInv, HandPhases,
       historyVars
  <2> QED
    BY <2>1, <2>2 DEF SInv
<1>2. CASE SInterrupted \/ STrimClaims \/ SReopenQueue \/ SEndTick \/ SPass
           \/ UNCHANGED svars
  <2>1. UNCHANGED tickVars
    BY <1>2 DEF SInterrupted, STrimClaims, SReopenQueue, SEndTick, SPass, svars
  <2>2. UNCHANGED <<slot, runs>> /\ (phase' \in HandPhases => phase \in HandPhases)
    BY <1>2 DEF SInterrupted, STrimClaims, SReopenQueue, SEndTick, SPass, svars, vars,
       Interrupted, TrimClaims, ReopenQueue, EndTick, Pass, historyVars, HandPhases
  <2> QED
    BY <2>1, <2>2, ServingQuiet DEF SInv, Ticking, tickVars
<1>3. CASE SBeginTick
  <2>1. Ticking'
    BY <1>3 DEF SBeginTick, SInv, Ticking
  <2>2. Serving'
    BY <1>3, ServingQuiet DEF SBeginTick, BeginTick, SInv, HandPhases, historyVars
  <2> QED
    BY <2>1, <2>2 DEF SInv
<1>4. ASSUME NEW f \in Jobs,
             SkipNoSlot(f) \/ SkipOverlap(f) \/ SkipNotDue(f)
                \/ SkipNoQueue(f) \/ SkipTaken(f)
      PROVE  SInv'
  <2>1. /\ lock' = lock \/ lock' = Unstale(f)
        /\ queuedMark' = queuedMark
           \/ queuedMark' = [queuedMark EXCEPT ![f] = @ \/ Overlap[f] = "queue"]
        /\ todo' = todo \ {f}
        /\ UNCHANGED <<pid, lastRun, served, restarts, dueSlot, vars>>
    BY <1>4 DEF SkipNoSlot, SkipOverlap, SkipNotDue, SkipNoQueue, SkipTaken, PassOver,
       Visit, Considered
  <2>2. lock' \in [Jobs -> Pids \cup {NoPid}]
    BY <2>1 DEF SInv, Ticking, Unstale
  <2>3. queuedMark' \in [Jobs -> BOOLEAN]
    BY <2>1 DEF SInv, Ticking
  <2>4. Serving'
    BY <2>1, ServingQuiet DEF SInv, vars
  <2> QED
    BY <2>1, <2>2, <2>3, <2>4 DEF SInv, Ticking
<1>5. ASSUME NEW f \in Jobs, SClaim(f)
      PROVE  SInv'
  BY <1>5, ClaimServes
<1>6. CASE SLaunch
  BY <1>6, LaunchServes
<1>7. ASSUME NEW outcome \in Outcomes, SRelease(outcome)
      PROVE  SInv'
  <2>1. UNCHANGED tickVars /\ UNCHANGED <<slot, runs>> /\ phase \in HandPhases
    BY <1>7 DEF SRelease, Release, HandPhases
  <2> QED
    BY <2>1, ServingQuiet DEF SInv, Ticking, tickVars
<1>8. CASE Finish
  <2>1. /\ phase = "released" /\ phase' = "tick" /\ runs' = runs
        /\ lock' = [lock EXCEPT ![slot[1]] = NoPid]
        /\ queuedMark' = [queuedMark EXCEPT ![slot[1]] = FALSE]
        /\ lastRun' = [lastRun EXCEPT ![slot[1]] = tickNow]
        /\ dueSlot' = NoRun
        /\ UNCHANGED <<pid, todo, served, restarts>>
    BY <1>8 DEF Finish, Proceed, historyVars
  <2>2. tickNow \in 0 .. MaxTime
    BY QueueAssumption DEF IInv, TypeOK
  <2>3. Ticking'
    BY <2>1, <2>2 DEF SInv, Ticking
  <2>4. Serving'
    BY <2>1 DEF SInv, Serving, HandPhases
  <2> QED
    BY <2>3, <2>4 DEF SInv
<1>9. CASE SCrash
  <2>1. /\ phase' = "down" /\ runs' = runs /\ restarts < MaxRestarts
        /\ restarts' = restarts + 1 /\ todo' = {} /\ dueSlot' = NoRun /\ pid' = NoPid
        /\ UNCHANGED <<lock, queuedMark, lastRun, served>>
    BY <1>9 DEF SCrash, Crash, historyVars
  <2>2. Ticking'
    BY <2>1, SchedulerAssumption DEF SInv, Ticking
  <2>3. Serving'
    BY <2>1 DEF SInv, Serving, HandPhases
  <2> QED
    BY <2>2, <2>3 DEF SInv
<1> QED
  BY <1>1, <1>2, <1>3, <1>4, <1>5, <1>6, <1>7, <1>8, <1>9 DEF SNext

\* It holds, with that of the queue, of every behaviour.
LEMMA SInvInvariant == SchedulerSpec => [](IInv /\ SInv)
<1>1. SchedulerSpec => []IInv
  BY SchedulerUsesQueue, Invariance, PTL DEF UsesQueue
<1> QED
  BY <1>1, SInvStart, SInvStep, PTL DEF SchedulerSpec

\* daemon.go, queue.go: the lock files, the state files and the claims stay
\* what they are written as, over crashes and restarts.
THEOREM SchedulerTypeCorrect == SchedulerSpec => []STypeOK
<1>1. IInv /\ SInv => STypeOK
  BY DEF IInv, SInv, Ticking, Minutes, STypeOK
<1> QED
  BY <1>1, SInvInvariant, PTL

\* A claim that Tick finds finished, without catch-up, is of a slot that was run.
LEMMA NothingSkipped ==
    ASSUME IInv, SInv, NEW f \in Jobs \ CatchUp
    PROVE  ~WronglySkipped(f)
<1> SUFFICES ASSUME WronglySkipped(f) PROVE FALSE
  OBVIOUS
<1>1. /\ open /\ HasNext(f)
      /\ mem[Key(f)].status \in Outcomes /\ Key(f) \notin served
  BY DEF WronglySkipped, SkipTaken, Considered
<1>2. Key(f) \in Keys /\ Key(f)[1] = f
  BY <1>1, SlotsAreMinutes DEF HasNext, NextSlot, Key, Keys, Minutes
<1>3. Key(f) \in finished
  BY <1>1, <1>2 DEF IInv, Knows, KnowsOf
<1>4. runs[Key(f)] > 0
  BY <1>3 DEF IInv
<1> QED
  BY <1>1, <1>2, <1>4 DEF SInv, Serving

\* A tick in the very minute of a slot claims it or finds it claimed.
LEMMA DueSlotIsClaimed ==
    ASSUME IInv, SInv, [SNext]_svars, NEW f \in todo \ todo', phase' # "down",
           tickNow \in Slots[f], ~Blocked(f), open, ~fault
    PROVE  Claimed(mem', <<f, tickNow>>)
<1>1. /\ f \in Jobs /\ tickNow \in 0 .. MaxTime /\ tickNow \in Nat
  BY QueueAssumption DEF SInv, Ticking, IInv, TypeOK
<1>2. HasNext(f) /\ NextSlot(f) = tickNow
  <2>1. tickNow \in SlotsFrom(f, tickNow)
    BY <1>1 DEF SlotsFrom
  <2>2. /\ NextSlot(f) \in SlotsFrom(f, tickNow) /\ NextSlot(f) \in Minutes
        /\ NextSlot(f) <= tickNow
    BY <1>1, <2>1, SlotsAreMinutes DEF NextSlot
  <2>3. NextSlot(f) >= tickNow /\ NextSlot(f) \in Nat
    BY <2>2, QueueAssumption DEF SlotsFrom, Minutes
  <2> QED
    BY <1>1, <2>1, <2>2, <2>3 DEF HasNext
<1>3. Due(f)
  BY <1>1, <1>2, SchedulerAssumption DEF Due, DueNow
<1>4. <<f, tickNow>> \in Keys /\ Key(f) = <<f, tickNow>>
  BY <1>1, <1>2, QueueAssumption DEF Keys, Key
<1>5. CASE SkipTaken(f)
  BY <1>4, <1>5 DEF SkipTaken, PassOver, vars
<1>6. CASE SClaim(f)
  <2>1. mem' = [mem EXCEPT ![Key(f)] = [status |-> "running", updated |-> now]]
    BY <1>6 DEF SClaim, Claim, Commit
  <2> QED
    BY <1>4, <2>1 DEF IInv, TypeOK, Claimed
<1>7. ~(SkipNoSlot(f) \/ SkipOverlap(f) \/ SkipNotDue(f) \/ SkipNoQueue(f))
  BY <1>2, <1>3 DEF SkipNoSlot, SkipOverlap, SkipNotDue, SkipNoQueue
<1>8. ASSUME NEW g \in Jobs,
             SkipNoSlot(g) \/ SkipOverlap(g) \/ SkipNotDue(g) \/ SkipNoQueue(g)
                \/ SkipTaken(g) \/ SClaim(g)
      PROVE  g = f
  BY <1>8 DEF SkipNoSlot, SkipOverlap, SkipNotDue, SkipNoQueue, SkipTaken, SClaim,
     PassOver, Visit
<1>9. ~UNCHANGED todo
  OBVIOUS
<1>10. ~(UNCHANGED svars \/ SInterrupted \/ STrimClaims \/ SReopenQueue \/ SLaunch
          \/ Finish \/ SEndTick \/ SPass \/ SBeginTick \/ SCrash)
  BY <1>1, <1>9 DEF svars, tickVars, SInterrupted, STrimClaims, SReopenQueue, SLaunch,
     Finish, SEndTick, SPass, SBeginTick, SCrash, Crash
<1>11. ~(\E p \in Pids : Start(p)) /\ ~(\E outcome \in Outcomes : SRelease(outcome))
  BY <1>9 DEF Start, SRelease, tickVars
<1> QED
  BY <1>5, <1>6, <1>7, <1>8, <1>10, <1>11 DEF SNext

\* daemon.go, Tick: no slot is lost without a word.  A pipeline without
\* catch-up is passed over as run only when it was run for that slot, and a
\* tick in the minute of a slot leaves it claimed.
THEOREM SlotsStayHonoured == SchedulerSpec => SlotsAreHonoured
<1>1. IInv /\ SInv => \A f \in Jobs \ CatchUp : ~WronglySkipped(f)
  BY NothingSkipped
<1>2. ASSUME IInv, SInv, [SNext]_svars
      PROVE  \A f \in todo \ todo' :
                phase' # "down" /\ tickNow \in Slots[f] /\ ~Blocked(f) /\ open /\ ~fault
                   => Claimed(mem', <<f, tickNow>>)
  BY <1>2, DueSlotIsClaimed
<1>3. SchedulerSpec => PlainSkippedHasRun
  BY <1>1, SInvInvariant, PTL DEF SchedulerSpec, PlainSkippedHasRun
<1>4. SchedulerSpec => DueSlotsClaimed
  BY <1>2, SInvInvariant, PTL DEF SchedulerSpec, DueSlotsClaimed
<1> QED
  BY <1>3, <1>4 DEF SlotsAreHonoured

=============================================================================
