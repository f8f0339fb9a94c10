-------------------------- MODULE SlotQueueProofs ---------------------------
(***************************************************************************)
(* Proofs about SlotQueue: for every set of pipelines, every clock bound   *)
(* and every age of claims not below the horizon, a slot is started at     *)
(* most once, its claim is on disk while it runs, and no run that died     *)
(* with the daemon goes unreported; the queue implements SlotLedger.       *)
(***************************************************************************)
EXTENDS SlotQueue, TLAPS

TickPhases == {"tick", "claimed", "working", "released"}
HandPhases == {"claimed", "working", "released"}

\* No tick, running or to come, can ask for slot k any more.
Gone(k) == IF phase \in TickPhases THEN SlotTime(k) < tickNow
                                   ELSE SlotTime(k) < now

\* What an entry e of slot k, in memory or on disk, tells of it.
KnowsOf(e, k) ==
    /\ e.updated <= now
    /\ e.status # "free" => SlotTime(k) <= e.updated + Horizon
    /\ runs[k] > 0 => e.status # "free" \/ Gone(k)
    /\ runs[k] > 0 /\ k \notin finished
          => e.status = "running" \/ k \in noticed
    /\ e.status \in Outcomes => k \in finished

Knows(m) == \A k \in Keys : KnowsOf(m[k], k)

\* The slot the tick has in hand.
InHand ==
    /\ phase \in HandPhases => slot \in Keys
    /\ phase \in HandPhases \cup {"opened", "marked"} => open
    /\ phase = "claimed" => runs[slot] = 0
    /\ phase \in {"claimed", "working"} =>
          disk[slot].status = "running" /\ mem[slot].status = "running"
    /\ phase = "working" => runs[slot] = 1 /\ slot \notin finished

IInv ==
    /\ TypeOK
    /\ AtMostOnce
    /\ \A k \in finished : runs[k] > 0
    /\ InHand
    /\ Knows(disk)
    /\ open => Knows(mem)

-----------------------------------------------------------------------------
(* What the actions share                                                  *)

\* Snapshots stay snapshots when entries are rewritten or dropped.
LEMMA SnapshotTypes ==
    ASSUME TypeOK
    PROVE  /\ MarkedInterrupted(mem) \in [Keys -> Entry]
           /\ Trimmed(mem) \in [Keys -> Entry]
  BY QueueAssumption DEF TypeOK, Free, Entry, Statuses,
                         MarkedInterrupted, Trimmed

\* The snapshot of an empty queue is one.
LEMMA NoClaimsType == NoClaims \in [Keys -> Entry]
  BY QueueAssumption DEF NoClaims, Free, Entry, Statuses

\* Claim and Release rewrite one entry of the snapshot.
LEMMA RewriteType ==
    ASSUME TypeOK, NEW k, NEW s \in Statuses
    PROVE  [mem EXCEPT ![k] = [status |-> s, updated |-> now]]
               \in [Keys -> Entry]
<1>1. [status |-> s, updated |-> now] \in Entry
  BY DEF TypeOK, Entry
<1> QED
  BY <1>1 DEF TypeOK

\* Every step of the daemon keeps the types.
LEMMA TypePreserved ==
    ASSUME TypeOK, InHand, [Next]_vars
    PROVE  TypeOK'
<1> USE QueueAssumption DEF TypeOK, Phases
<1>1. CASE OpenQueue
  BY <1>1 DEF OpenQueue, historyVars
<1>2. CASE OpenQueueFails
  BY <1>2 DEF OpenQueueFails, queueVars, historyVars
<1>3. CASE Interrupted
  <2>1. mem' \in [Keys -> Entry] /\ disk' \in [Keys -> Entry]
        /\ fault' \in BOOLEAN /\ noticed' \subseteq Keys
    BY <1>3, SnapshotTypes DEF Interrupted, Commit, queueVars
  <2> QED
    BY <1>3, <2>1 DEF Interrupted, queueVars
<1>4. CASE TrimClaims
  <2>1. mem' \in [Keys -> Entry] /\ disk' \in [Keys -> Entry]
        /\ fault' \in BOOLEAN
    BY <1>4, SnapshotTypes DEF TrimClaims, Commit, queueVars
  <2> QED
    BY <1>4, <2>1 DEF TrimClaims, queueVars, historyVars
<1>5. CASE BeginTick
  BY <1>5 DEF BeginTick, queueVars, historyVars
<1>6. CASE ReopenQueue
  BY <1>6 DEF ReopenQueue, historyVars
<1>7. ASSUME NEW k \in Keys, Claim(k)
      PROVE  TypeOK'
  <2> DEFINE m == [mem EXCEPT ![k] = [status |-> "running", updated |-> now]]
  <2>1. m \in [Keys -> Entry]
    BY RewriteType DEF Statuses
  <2>2. Commit(m)
    BY <1>7 DEF Claim
  <2> HIDE DEF m
  <2>3. mem' \in [Keys -> Entry] /\ disk' \in [Keys -> Entry]
        /\ fault' \in BOOLEAN
    BY <2>1, <2>2 DEF Commit
  <2> QED
    BY <1>7, <2>3 DEF Claim, historyVars
<1>8. CASE Launch
  <2>1. runs' \in [Keys -> Nat]
    BY <1>8 DEF Launch, InHand, HandPhases
  <2> QED
    BY <1>8, <2>1 DEF Launch, queueVars
<1>9. ASSUME NEW outcome \in Outcomes, Release(outcome)
      PROVE  TypeOK'
  <2> DEFINE m == [mem EXCEPT ![slot] = [status |-> outcome, updated |-> now]]
  <2>1. m \in [Keys -> Entry]
    BY <1>9, RewriteType DEF Outcomes, Statuses, Release
  <2>2. UNCHANGED queueVars \/ (Commit(m) /\ UNCHANGED open)
    BY <1>9 DEF Release
  <2> HIDE DEF m
  <2>3. mem' \in [Keys -> Entry] /\ disk' \in [Keys -> Entry]
        /\ fault' \in BOOLEAN /\ open' = open
    BY <2>1, <2>2 DEF Commit, queueVars
  <2> QED
    BY <1>9, <2>3 DEF Release, InHand, HandPhases
<1>10. CASE Proceed
  BY <1>10 DEF Proceed, queueVars, historyVars
<1>11. CASE EndTick
  BY <1>11 DEF EndTick, queueVars, historyVars
<1>12. CASE Crash
  <2>1. mem' \in [Keys -> Entry]
    BY <1>12, NoClaimsType DEF Crash
  <2>2. tickNow' \in 0 .. now'
    BY <1>12 DEF Crash
  <2> QED
    BY <1>12, <2>1, <2>2 DEF Crash, historyVars
<1>13. CASE Pass
  BY <1>13 DEF Pass, queueVars, historyVars
<1>14. CASE UNCHANGED vars
  BY <1>14 DEF vars
<1> QED
  BY <1>1, <1>2, <1>3, <1>4, <1>5, <1>6, <1>7, <1>8, <1>9, <1>10, <1>11,
     <1>12, <1>13, <1>14 DEF Next

-----------------------------------------------------------------------------
(* The inductive invariant                                                 *)

\* Once out of reach of the ticks, a slot stays out of reach.
LEMMA GoneStays ==
    ASSUME TypeOK, [Next]_vars, NEW k \in Keys, Gone(k)
    PROVE  Gone(k)'
<1> USE QueueAssumption DEF TypeOK, Gone, TickPhases, Phases
<1> SlotTime(k) \in Nat
  BY DEF SlotTime, Keys
<1>1. CASE BeginTick
  BY <1>1 DEF BeginTick
<1>2. CASE EndTick \/ Crash
  BY <1>2 DEF EndTick, Crash
<1>3. CASE Pass
  BY <1>3 DEF Pass
<1>4. CASE /\ now' = now /\ tickNow' = tickNow
           /\ phase \in TickPhases <=> phase' \in TickPhases
  BY <1>4
<1>5. CASE OpenQueue \/ OpenQueueFails \/ Interrupted \/ TrimClaims
  BY <1>5 DEF OpenQueue, OpenQueueFails, Interrupted, TrimClaims
<1>6. CASE ReopenQueue \/ Launch \/ Proceed \/ UNCHANGED vars
  BY <1>6, <1>4 DEF ReopenQueue, Launch, Proceed, vars
<1>7. CASE \E c \in Keys : Claim(c)
  BY <1>7, <1>4 DEF Claim
<1>8. CASE \E outcome \in Outcomes : Release(outcome)
  BY <1>8, <1>4 DEF Release
<1> QED
  BY <1>1, <1>2, <1>3, <1>5, <1>6, <1>7, <1>8 DEF Next

\* What an entry tells stays true while no run starts.
LEMMA KnowledgeStays ==
    ASSUME TypeOK, TypeOK', [Next]_vars, NEW k \in Keys, NEW e \in Entry,
           KnowsOf(e, k), UNCHANGED runs,
           finished \subseteq finished', noticed \subseteq noticed'
    PROVE  KnowsOf(e, k)'
<1>1. now <= now'
  <2>1. now' = now \/ now' = now + 1
    BY DEF Next, vars, OpenQueue, OpenQueueFails, Interrupted, TrimClaims,
       BeginTick, ReopenQueue, Claim, Launch, Release, Proceed, EndTick,
       Crash, Pass
  <2> QED
    BY <2>1, QueueAssumption DEF TypeOK
<1>2. Gone(k) => Gone(k)'
  BY GoneStays
<1>3. e.updated \in Nat /\ now \in Nat /\ now' \in Nat
  BY QueueAssumption DEF Entry, TypeOK
<1> HIDE DEF Gone
<1> QED
  BY <1>1, <1>2, <1>3 DEF KnowsOf

\* Steps that neither write a new snapshot nor start, end or report a run.
LEMMA QuietStep ==
    ASSUME IInv, TypeOK', [Next]_vars, UNCHANGED <<runs, finished, noticed, disk>>,
           ~open' \/ mem' = disk \/ (open /\ mem' = mem)
    PROVE  /\ Knows(disk)'
           /\ open' => Knows(mem)'
           /\ AtMostOnce'
           /\ (\A k \in finished : runs[k] > 0)'
<1> USE DEF IInv
<1>1. ASSUME NEW k \in Keys, NEW e \in Entry, KnowsOf(e, k)
      PROVE  KnowsOf(e, k)'
  BY <1>1, KnowledgeStays
<1>2. Knows(disk)'
  <2> SUFFICES ASSUME NEW k \in Keys
               PROVE  KnowsOf(disk[k], k)'
    BY DEF Knows
  <2>1. disk[k] \in Entry /\ KnowsOf(disk[k], k)
    BY DEF Knows, TypeOK
  <2> QED
    BY <1>1, <2>1 DEF KnowsOf, Gone
<1>3. ASSUME open'
      PROVE  Knows(mem)'
  <2> SUFFICES ASSUME NEW k \in Keys
               PROVE  KnowsOf(mem[k], k)'
    BY DEF Knows
  <2>1. mem'[k] \in Entry /\ KnowsOf(mem'[k], k)
    BY <1>3 DEF Knows, TypeOK
  <2> QED
    BY <1>1, <2>1 DEF KnowsOf, Gone
<1> QED
  BY <1>2, <1>3 DEF AtMostOnce

\* Steps that write snapshot m, which may or may not reach the disk.
LEMMA WritingStep ==
    ASSUME IInv, TypeOK', [Next]_vars, UNCHANGED runs,
           finished \subseteq finished', noticed \subseteq noticed',
           NEW m, Commit(m), \A k \in Keys : KnowsOf(m[k], k)'
    PROVE  Knows(disk)' /\ Knows(mem)'
<1> USE DEF IInv
<1>1. ASSUME NEW k \in Keys
      PROVE  KnowsOf(disk[k], k)'
  <2>1. CASE disk'[k] = disk[k]
    <3>1. disk[k] \in Entry /\ KnowsOf(disk[k], k)
      BY DEF Knows, TypeOK
    <3>2. \A e \in Entry : KnowsOf(e, k) => KnowsOf(e, k)'
      BY KnowledgeStays
    <3> QED
      BY <2>1, <3>1, <3>2 DEF KnowsOf, Gone
  <2>2. CASE disk'[k] = m[k]
    BY <2>2 DEF KnowsOf, Gone
  <2> QED
    BY <2>1, <2>2 DEF Commit
<1>2. ASSUME NEW k \in Keys
      PROVE  KnowsOf(mem[k], k)'
  BY DEF Commit, KnowsOf, Gone
<1> QED
  BY <1>1, <1>2 DEF Knows

\* Interrupted: a slot leaves the status running only with its notice.
LEMMA InterruptedPreserves ==
    ASSUME IInv, TypeOK', Interrupted
    PROVE  IInv'
<1> USE DEF IInv
<1>1. [Next]_vars
  BY DEF Next
<1>2. /\ open /\ open' /\ UNCHANGED <<now, tickNow, slot, runs, finished>>
      /\ phase = "opened" /\ phase' = "marked" /\ noticed \subseteq noticed'
  BY DEF Interrupted, InHand, queueVars
<1>3. CASE UNCHANGED <<mem, disk, noticed>>
  BY <1>1, <1>2, <1>3, QuietStep DEF InHand, HandPhases
<1>4. CASE /\ Commit(MarkedInterrupted(mem))
           /\ \A k \in Keys : mem[k].status = "running" => k \in noticed'
  <2>1. PICK m : /\ m = MarkedInterrupted(mem)
                 /\ Commit(m)
    BY <1>4
  <2>2. ASSUME NEW k \in Keys
        PROVE  KnowsOf(m[k], k)'
    <3>1. KnowsOf(mem[k], k) /\ mem[k] \in Entry
      BY <1>2 DEF Knows, TypeOK
    <3>2. CASE mem[k].status = "running"
      <4>1. m[k] = [status |-> "interrupted", updated |-> now]
        BY <2>1, <3>2 DEF MarkedInterrupted
      <4> QED
        BY <1>2, <1>4, <3>1, <3>2, <4>1, QueueAssumption
           DEF KnowsOf, Entry, TypeOK, Outcomes, Keys, SlotTime
    <3>3. CASE mem[k].status # "running"
      <4>1. m[k] = mem[k]
        BY <2>1, <3>3 DEF MarkedInterrupted
      <4>2. \A e \in Entry : KnowsOf(e, k) => KnowsOf(e, k)'
        BY <1>1, <1>2, KnowledgeStays
      <4> QED
        BY <3>1, <4>1, <4>2
    <3> QED
      BY <3>2, <3>3
  <2>3. Knows(disk)' /\ Knows(mem)'
    BY <1>1, <1>2, <2>1, <2>2, WritingStep
  <2> QED
    BY <1>2, <2>3 DEF AtMostOnce, InHand, HandPhases
<1> QED
  BY <1>3, <1>4 DEF Interrupted, queueVars

\* A claim is forgotten only when its slot is out of reach of every later tick.
LEMMA TrimPreserves ==
    ASSUME IInv, TypeOK', TrimClaims
    PROVE  IInv'
<1> USE DEF IInv
<1>1. [Next]_vars
  BY DEF Next
<1>2. /\ open /\ open' /\ UNCHANGED <<now, tickNow, slot, historyVars>>
      /\ phase = "marked" /\ phase' = "idle"
  BY DEF TrimClaims, InHand, queueVars
<1>3. CASE UNCHANGED <<mem, disk>>
  BY <1>1, <1>2, <1>3, QuietStep DEF InHand, HandPhases, historyVars
<1>4. CASE Commit(Trimmed(mem))
  <2>1. PICK m : /\ m = Trimmed(mem)
                 /\ Commit(m)
    BY <1>4
  <2>2. ASSUME NEW k \in Keys
        PROVE  KnowsOf(m[k], k)'
    <3>1. KnowsOf(mem[k], k) /\ mem[k] \in Entry
      BY <1>2 DEF Knows, TypeOK
    <3>2. CASE Expired(mem[k])
      <4>1. m[k] = Free
        BY <2>1, <3>2 DEF Trimmed
      <4>2. SlotTime(k) < now
        BY <3>1, <3>2, QueueAssumption
           DEF Expired, KnowsOf, Entry, TypeOK, Keys, SlotTime
      <4>3. k \in finished \/ k \in noticed \/ runs[k] = 0
        BY <3>1, <3>2 DEF Expired, KnowsOf, TypeOK
      <4> QED
        BY <1>2, <4>1, <4>2, <4>3, QueueAssumption
           DEF KnowsOf, Gone, TickPhases, Free, TypeOK, Outcomes, historyVars
    <3>3. CASE ~Expired(mem[k])
      <4>1. m[k] = mem[k]
        BY <2>1, <3>3 DEF Trimmed
      <4>2. \A e \in Entry : KnowsOf(e, k) => KnowsOf(e, k)'
        BY <1>1, <1>2, KnowledgeStays DEF historyVars
      <4> QED
        BY <3>1, <4>1, <4>2
    <3> QED
      BY <3>2, <3>3
  <2>3. Knows(disk)' /\ Knows(mem)'
    BY <1>1, <1>2, <2>1, <2>2, WritingStep DEF historyVars
  <2> QED
    BY <1>2, <2>3 DEF AtMostOnce, InHand, HandPhases, historyVars
<1> QED
  BY <1>3, <1>4 DEF TrimClaims, queueVars

\* Claim finds the slot free and within reach, so it has never been started.
LEMMA ClaimPreserves ==
    ASSUME IInv, TypeOK', NEW c \in Keys, Claim(c)
    PROVE  IInv'
<1> USE DEF IInv
<1>1. [Next]_vars
  BY DEF Next
<1>2. /\ open /\ open' /\ UNCHANGED <<now, tickNow, historyVars>>
      /\ phase = "tick" /\ phase' \in {"tick", "claimed"}
      /\ phase' = "claimed" => slot' = c /\ ~fault'
  BY DEF Claim, TypeOK
<1>3. runs[c] = 0
  <2>1. mem[c].status = "free" /\ KnowsOf(mem[c], c) /\ mem[c] \in Entry
    BY <1>2 DEF Claim, Claimed, Knows, TypeOK
  <2>2. ~Gone(c)
    BY <1>2, QueueAssumption
       DEF Claim, Gone, TickPhases, TypeOK, Keys, SlotTime
  <2> QED
    BY <2>1, <2>2 DEF KnowsOf, TypeOK
<1>4. PICK m : /\ m = [mem EXCEPT ![c] = [status |-> "running", updated |-> now]]
               /\ Commit(m)
  BY DEF Claim
<1>5. m[c] = [status |-> "running", updated |-> now]
  BY <1>4 DEF TypeOK
<1>6. ASSUME NEW k \in Keys
      PROVE  KnowsOf(m[k], k)'
  <2>1. KnowsOf(mem[k], k) /\ mem[k] \in Entry
    BY <1>2 DEF Knows, TypeOK
  <2>2. CASE k = c
    <3>1. SlotTime(c) <= now + Horizon
      BY QueueAssumption DEF Claim, TypeOK, Keys, SlotTime
    <3> QED
      BY <1>2, <1>3, <1>5, <2>2, <3>1, QueueAssumption
         DEF KnowsOf, TypeOK, Outcomes, historyVars
  <2>3. CASE k # c
    <3>1. m[k] = mem[k]
      BY <1>4, <2>3 DEF TypeOK
    <3>2. \A e \in Entry : KnowsOf(e, k) => KnowsOf(e, k)'
      BY <1>1, <1>2, KnowledgeStays DEF historyVars
    <3> QED
      BY <2>1, <3>1, <3>2
  <2> QED
    BY <2>2, <2>3
<1>7. Knows(disk)' /\ Knows(mem)'
  BY <1>1, <1>2, <1>4, <1>6, WritingStep DEF historyVars
<1>8. InHand'
  <2>1. phase' = "claimed" => mem' = m /\ disk' = m
    BY <1>2, <1>4 DEF Commit
  <2>2. CASE phase' = "claimed"
    BY <1>2, <1>3, <1>5, <2>1, <2>2 DEF InHand, historyVars
  <2>3. CASE phase' = "tick"
    BY <1>2, <2>3 DEF InHand, HandPhases
  <2> QED
    BY <1>2, <2>2, <2>3
<1> QED
  BY <1>2, <1>7, <1>8 DEF AtMostOnce, historyVars

\* Launch: the slot in hand starts for the first time, its claim written.
LEMMA LaunchPreserves ==
    ASSUME IInv, TypeOK', Launch
    PROVE  IInv'
<1> USE DEF IInv
<1>1. /\ slot \in Keys /\ open /\ open' /\ phase = "claimed" /\ phase' = "working"
      /\ disk[slot].status = "running" /\ mem[slot].status = "running"
      /\ UNCHANGED <<now, mem, disk, tickNow, slot, finished, noticed>>
      /\ runs[slot] = 0 /\ runs' = [runs EXCEPT ![slot] = 1]
  BY DEF Launch, InHand, HandPhases, queueVars, TypeOK
<1>2. slot \notin finished
  BY <1>1
<1>3. runs'[slot] = 1 /\ \A k \in Keys : k # slot => runs'[k] = runs[k]
  BY <1>1 DEF TypeOK
<1>4. ASSUME NEW k \in Keys, NEW e \in Entry, KnowsOf(e, k),
             k = slot => e.status = "running"
      PROVE  KnowsOf(e, k)'
  BY <1>1, <1>3, <1>4 DEF KnowsOf, Gone, TickPhases
<1>5. ASSUME NEW k \in Keys
      PROVE  KnowsOf(disk[k], k)' /\ KnowsOf(mem[k], k)'
  <2>1. disk[k] \in Entry /\ mem[k] \in Entry
        /\ KnowsOf(disk[k], k) /\ KnowsOf(mem[k], k)
    BY <1>1 DEF Knows, TypeOK
  <2> QED
    BY <1>1, <1>4, <2>1 DEF KnowsOf, Gone
<1>6. AtMostOnce' /\ \A k \in finished' : runs'[k] > 0
  BY <1>1, <1>2, <1>3 DEF AtMostOnce, TypeOK
<1>7. InHand'
  BY <1>1, <1>2, <1>3 DEF InHand, HandPhases
<1> QED
  BY <1>5, <1>6, <1>7 DEF Knows

\* Release: an outcome is recorded only of a slot whose run has returned.
LEMMA ReleasePreserves ==
    ASSUME IInv, TypeOK', NEW outcome \in Outcomes, Release(outcome)
    PROVE  IInv'
<1> USE DEF IInv
<1>1. [Next]_vars
  BY DEF Next
<1>2. /\ slot \in Keys /\ open /\ open' /\ phase = "working" /\ phase' = "released"
      /\ runs[slot] = 1 /\ finished' = finished \cup {slot}
      /\ UNCHANGED <<now, tickNow, slot, runs, noticed>>
  BY DEF Release, InHand, HandPhases, queueVars
<1>3. ASSUME NEW k \in Keys, NEW e \in Entry, KnowsOf(e, k)
      PROVE  KnowsOf(e, k)'
  BY <1>1, <1>2, <1>3, KnowledgeStays
<1>4. Knows(disk)' /\ Knows(mem)'
  <2>1. CASE UNCHANGED <<mem, disk>>
    <3>1. ASSUME NEW k \in Keys
          PROVE  KnowsOf(disk[k], k)' /\ KnowsOf(mem[k], k)'
      <4>1. disk[k] \in Entry /\ mem[k] \in Entry
            /\ KnowsOf(disk[k], k) /\ KnowsOf(mem[k], k)
        BY <1>2 DEF Knows, TypeOK
      <4> QED
        BY <1>3, <2>1, <4>1 DEF KnowsOf, Gone
    <3> QED
      BY <3>1 DEF Knows
  <2>2. CASE Commit([mem EXCEPT ![slot] = [status |-> outcome, updated |-> now]])
    <3>1. PICK m : /\ m = [mem EXCEPT ![slot] =
                               [status |-> outcome, updated |-> now]]
                   /\ Commit(m)
      BY <2>2
    <3>2. ASSUME NEW k \in Keys
          PROVE  KnowsOf(m[k], k)'
      <4>1. KnowsOf(mem[k], k) /\ mem[k] \in Entry
        BY <1>2 DEF Knows, TypeOK
      <4>2. CASE k = slot
        <5>1. m[k] = [status |-> outcome, updated |-> now]
          BY <1>2, <3>1, <4>2 DEF TypeOK
        <5>2. mem[k].status # "free"
          BY <1>2, <4>2 DEF InHand
        <5>3. SlotTime(k) <= now + Horizon
          BY <4>1, <5>2, QueueAssumption DEF KnowsOf, Entry, TypeOK, Keys, SlotTime
        <5> QED
          BY <1>2, <4>2, <5>1, <5>3, QueueAssumption
             DEF KnowsOf, TypeOK, Outcomes
      <4>3. CASE k # slot
        <5>1. m[k] = mem[k]
          BY <1>2, <3>1, <4>3 DEF TypeOK
        <5> QED
          BY <1>3, <4>1, <5>1
      <4> QED
        BY <4>2, <4>3
    <3> QED
      BY <1>1, <1>2, <3>1, <3>2, WritingStep
  <2> QED
    BY <2>1, <2>2 DEF Release, queueVars
<1> QED
  BY <1>2, <1>4 DEF AtMostOnce, InHand, HandPhases, TypeOK

\* The invariant holds of an empty queue.
LEMMA InitialIInv ==
    ASSUME Init
    PROVE  IInv
<1>1. TypeOK
  <2>1. runs \in [Keys -> Nat] /\ mem \in [Keys -> Entry] /\ disk \in [Keys -> Entry]
    BY NoClaimsType DEF Init
  <2>2. now \in 0 .. MaxTime /\ tickNow \in 0 .. now
    BY QueueAssumption DEF Init
  <2> QED
    BY <2>1, <2>2 DEF Init, TypeOK, Phases
<1>2. \A k \in Keys : runs[k] = 0 /\ disk[k] = Free /\ mem[k] = Free
  BY DEF Init, NoClaims
<1>3. Knows(disk) /\ Knows(mem)
  BY <1>1, <1>2, QueueAssumption DEF Init, Knows, KnowsOf, Free, Outcomes
<1> QED
  BY <1>1, <1>2, <1>3 DEF Init, IInv, AtMostOnce, InHand, HandPhases

\* The invariant is inductive: one case per action of the daemon.
LEMMA NextPreserves ==
    ASSUME IInv, [Next]_vars
    PROVE  IInv'
<1> TypeOK'
  BY TypePreserved DEF IInv
<1> USE DEF IInv
<1>1. CASE OpenQueue
  BY <1>1, QuietStep DEF OpenQueue, InHand, HandPhases, historyVars
<1>2. CASE OpenQueueFails
  BY <1>2, QuietStep
     DEF OpenQueueFails, InHand, HandPhases, queueVars, historyVars
<1>3. CASE Interrupted
  BY <1>3, InterruptedPreserves
<1>4. CASE TrimClaims
  BY <1>4, TrimPreserves
<1>5. CASE BeginTick
  BY <1>5, QuietStep DEF BeginTick, InHand, HandPhases, queueVars, historyVars
<1>6. CASE ReopenQueue
  BY <1>6, QuietStep DEF ReopenQueue, InHand, HandPhases, historyVars
<1>7. CASE \E k \in Keys : Claim(k)
  BY <1>7, ClaimPreserves
<1>8. CASE Launch
  BY <1>8, LaunchPreserves
<1>9. CASE \E outcome \in Outcomes : Release(outcome)
  BY <1>9, ReleasePreserves
<1>10. CASE Proceed
  BY <1>10, QuietStep DEF Proceed, InHand, HandPhases, queueVars, historyVars
<1>11. CASE EndTick
  BY <1>11, QuietStep DEF EndTick, InHand, HandPhases, queueVars, historyVars
<1>12. CASE Crash
  BY <1>12, QuietStep DEF Crash, InHand, HandPhases, historyVars
<1>13. CASE Pass
  BY <1>13, QuietStep DEF Pass, InHand, HandPhases, queueVars, historyVars
<1>14. CASE UNCHANGED vars
  BY <1>14, QuietStep DEF vars, InHand, HandPhases
<1> QED
  BY <1>1, <1>2, <1>3, <1>4, <1>5, <1>6, <1>7, <1>8, <1>9, <1>10, <1>11,
     <1>12, <1>13, <1>14 DEF Next

\* The inductive invariant holds in every behaviour of the queue.
THEOREM Invariance == QueueSpec => []IInv
<1>1. Init => IInv
  BY InitialIInv
<1>2. IInv /\ [Next]_vars => IInv'
  BY NextPreserves
<1> QED
  BY <1>1, <1>2, PTL DEF QueueSpec

-----------------------------------------------------------------------------
(* The theorems                                                            *)

\* Every variable keeps its type.
THEOREM TypeCorrect == QueueSpec => []TypeOK
  BY Invariance, PTL DEF IInv

\* No slot is started twice (queue.go: Claim keeps a finished slot claimed).
THEOREM StartedAtMostOnce == QueueSpec => []AtMostOnce
  BY Invariance, PTL DEF IInv

\* While a pipeline runs its claim is on disk (queue.go: Claim returns true
\* only when commit wrote the snapshot).
THEOREM ClaimedOnDisk == QueueSpec => []DurableBeforeWork
<1>1. IInv => DurableBeforeWork
  BY DEF IInv, InHand, DurableBeforeWork
<1> QED
  BY <1>1, Invariance, PTL

\* A run cut by a crash stays on disk as running until it is reported, and is
\* never taken for a finished one (queue.go: Interrupted).
THEOREM CutRunsReported == QueueSpec => []CutRunsAreReported
<1>1. IInv => CutRunsAreReported
  BY DEF IInv, Knows, KnowsOf, WasCut, CutRunsAreReported, Outcomes
<1> QED
  BY <1>1, Invariance, PTL

-----------------------------------------------------------------------------
(* The queue implements SlotLedger                                         *)

\* What the refinement mapping makes of slot k.
LedgerOf(k) == IF phase = "working" /\ slot = k THEN "working"
               ELSE IF k \in finished THEN "ended"
               ELSE IF runs[k] > 0 THEN "cut"
               ELSE "idle"

\* A step maps to the start of the slot in hand, to its end, to its cut by a
\* crash, or to nothing.
LEMMA StepMaps ==
    ASSUME IInv, [Next]_vars
    PROVE  Ledger!LedgerNext
           \/ UNCHANGED [k \in Keys |-> LedgerOf(k)]
<1> USE DEF IInv
<1> DEFINE bar == [k \in Keys |-> LedgerOf(k)]
<1>1. ASSUME phase # "working", phase' # "working", UNCHANGED <<runs, finished>>
      PROVE  UNCHANGED bar
  BY <1>1 DEF LedgerOf
<1>2. CASE Launch
  <2>1. /\ slot \in Keys /\ phase # "working" /\ phase' = "working"
        /\ slot' = slot /\ finished' = finished
        /\ runs[slot] = 0 /\ slot \notin finished
        /\ \A k \in Keys : k # slot => runs'[k] = runs[k]
    BY <1>2 DEF Launch, InHand, HandPhases, TypeOK
  <2>2. bar[slot] = "idle" /\ \A k \in Keys : bar[k] # "working"
    BY <2>1 DEF LedgerOf
  <2>3. bar' = [bar EXCEPT ![slot] = "working"]
    BY <2>1 DEF LedgerOf
  <2> QED
    BY <2>1, <2>2, <2>3 DEF Ledger!LedgerNext, Ledger!Start, LedgerOf
<1>3. CASE \E outcome \in Outcomes : Release(outcome)
  <2>1. /\ slot \in Keys /\ phase = "working" /\ phase' # "working"
        /\ slot' = slot /\ finished' = finished \cup {slot} /\ runs' = runs
    BY <1>3 DEF Release, InHand, HandPhases
  <2>2. bar[slot] = "working"
    BY <2>1 DEF LedgerOf
  <2>3. bar' = [bar EXCEPT ![slot] = "ended"]
    BY <2>1 DEF LedgerOf
  <2> QED
    BY <2>1, <2>2, <2>3 DEF Ledger!LedgerNext, Ledger!End, LedgerOf
<1>4. CASE Crash /\ phase = "working"
  <2>1. /\ slot \in Keys /\ phase = "working" /\ phase' # "working"
        /\ finished' = finished /\ runs' = runs
        /\ runs[slot] > 0 /\ slot \notin finished
    BY <1>4 DEF Crash, InHand, HandPhases, historyVars
  <2>2. bar[slot] = "working"
    BY <2>1 DEF LedgerOf
  <2>3. bar' = [bar EXCEPT ![slot] = "cut"]
    BY <2>1 DEF LedgerOf
  <2> QED
    BY <2>1, <2>2, <2>3 DEF Ledger!LedgerNext, Ledger!Cut, LedgerOf
<1>5. CASE Crash /\ phase # "working"
  BY <1>1, <1>5 DEF Crash, historyVars
<1>6. CASE Pass \/ UNCHANGED vars
  BY <1>6 DEF Pass, vars, LedgerOf, historyVars
<1>7. CASE OpenQueue \/ OpenQueueFails \/ Interrupted \/ TrimClaims
  BY <1>1, <1>7
     DEF OpenQueue, OpenQueueFails, Interrupted, TrimClaims, historyVars
<1>8. CASE BeginTick \/ ReopenQueue \/ Proceed \/ EndTick
  BY <1>1, <1>8 DEF BeginTick, ReopenQueue, Proceed, EndTick, historyVars
<1>9. CASE \E k \in Keys : Claim(k)
  BY <1>1, <1>9 DEF Claim, historyVars
<1> QED
  BY <1>2, <1>3, <1>4, <1>5, <1>6, <1>7, <1>8, <1>9 DEF Next

\* Every behaviour of the queue is one of SlotLedger: slots are started once
\* and one at a time, and every run ends by returning or with the daemon.
THEOREM QueueKeepsLedger == QueueSpec => LedgerKept
<1>1. ASSUME Init
      PROVE  Ledger!LedgerInit
  BY <1>1 DEF Init, Ledger!LedgerInit
<1>2. IInv /\ [Next]_vars => [Ledger!LedgerNext]_[k \in Keys |-> LedgerOf(k)]
  BY StepMaps
<1> QED
  BY <1>1, <1>2, Invariance, PTL
     DEF QueueSpec, LedgerKept, Ledger!LedgerSpec, LedgerOf
=============================================================================
