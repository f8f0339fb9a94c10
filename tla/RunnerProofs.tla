---------------------------- MODULE RunnerProofs ----------------------------
(***************************************************************************)
(* Proofs about Runner, for every pipeline, every number of elements,      *)
(* iterations and attempts, and any number of failed writes, crashes and   *)
(* resumes: no branch outlives its phase, a run that reports run_end has   *)
(* earned it, the actions a phase returns are those of its first steps,    *)
(* what a resume skips is in the context, snapshots keep up with the       *)
(* journal, nothing leaks from one item into the next, aggregates are what *)
(* the steps gave, and no snapshot holds half a group.                     *)
(***************************************************************************)
EXTENDS Runner, FiniteSetTheorems, WellFoundedInduction, TLAPS

Statuses == {"ok", "aborted", "unreported", "run_failed", "run_cancelled", "run_end"}
Lasts == Statuses \cup {"none", "run_start", "run_resumed"}

JournalType ==
    [started : BOOLEAN, ended : [Items -> {"none", "ok", "aborted"}],
     stepOk : SUBSET Steps, noted : BOOLEAN, last : Lasts]

Typed ==
    /\ pipe \in Pipes
    /\ item \in 0 .. pipe.items
    /\ sealed \subseteq Items
    /\ status \in Statuses
    /\ journal \in JournalType
    /\ lost \in BOOLEAN /\ prior \in BOOLEAN /\ werr \in BOOLEAN

\* Branches are at work only between the start and the barrier of a segment,
\* and a phase is left only between segments.
Branches ==
    /\ seg = {} => branch = NoBranch
    /\ stage \notin Phases => seg = {}

\* The items before the one at hand have come through their chain.
Chains ==
    /\ \A i \in Items : i < item => i \in sealed
    /\ stage \in {"item", "sealed"} => item < pipe.items
    /\ stage = "sealed" => item \in sealed /\ status \in {"ok", "aborted"}
    /\ stage \in {"post", "ending"} => item = pipe.items

\* A lost snapshot is noted in the journal, or its notice is lost as well, and
\* a process knows of every notice there is.
Losses ==
    /\ lost => everLost
    /\ everLost => hidden \/ journal.noted
    /\ stage # "dead" /\ journal.noted => prior \/ lost

\* As long as no event was lost, the journal knows how the items before the
\* one at hand have ended.
Written ==
    ~werr => \A i \in Items : i < item => journal.ended[i] # "none"

\* run_end is the verdict of a process that has returned.
Verdicts == status = "run_end" => stage = "over"

IInv ==
    /\ Typed
    /\ Branches
    /\ Chains
    /\ Losses
    /\ Written
    /\ Verdicts
    /\ EndIsHonest

-----------------------------------------------------------------------------
(* The shape of a step                                                     *)

\* A step function moves its branch and nothing else of the process.
LEMMA RunStepIsInBranch ==
    ASSUME NEW s \in Steps, RunStep(s)
    PROVE  Running(s) /\ InBranch
  BY DEF RunStep, Succeed, BreakContract, PassOver, PlatformError, Retry, Skip,
         Stop, Decide, Cut

\* What a live process does leaves alone what it was started with.
LEMMA ProceedKeeps ==
    ASSUME Proceed
    PROVE  UNCHANGED procVars
<1>1. ASSUME NEW s \in Steps, RunStep(s)
      PROVE  UNCHANGED procVars
  BY <1>1, RunStepIsInBranch DEF InBranch
<1> QED
  BY <1>1
     DEF Proceed, SegmentCancelled, NextSegment, EndStep, EndGroup, EndSegment,
         EndPre, ItemCancelled, StartItem, Seal, EndItem, StartPost, EndPost,
         Finish, FailEvent, FailSnapshot

\* The pipeline is the same in every process.
LEMMA PipeFixed ==
    ASSUME [Next]_vars
    PROVE  pipe' = pipe /\ Items' = Items /\ Steps' = Steps /\ NoBranch' = NoBranch
<1>1. pipe' = pipe
  BY ProceedKeeps DEF Next, Start, Resume, Cancel, Crash, procVars, vars
<1> QED
  BY <1>1 DEF Items, Steps, NoBranch

\* A pipeline has items.
LEMMA SomeItems ==
    ASSUME pipe \in Pipes
    PROVE  /\ pipe.items \in Nat /\ pipe.items > 0
           /\ \A i : i \in Items <=> i \in Nat /\ i < pipe.items
<1>0. PipeOK(pipe)
  BY RunnerAssumption
<1>1. pipe.items \in Nat \ {0}
  BY <1>0 DEF PipeOK
<1> QED
  BY <1>1 DEF Items

-----------------------------------------------------------------------------
(* Branches                                                                *)

\* A phase goes on, or the run fails, only between two segments.
LEMMA BranchesStep ==
    ASSUME Branches, [Next]_vars
    PROVE  Branches'
<1>1. NoBranch' = NoBranch
  BY PipeFixed
<1> USE DEF Branches
<1>2. CASE Start \/ Resume \/ Crash
  BY <1>1, <1>2 DEF Start, Resume, Crash, EnterPhase, segVars, Phases
<1>3. CASE Cancel \/ UNCHANGED vars
  BY <1>1, <1>3 DEF Cancel, segVars, vars
<1>4. CASE NextSegment
  BY <1>1, <1>4 DEF NextSegment, segVars
<1>5. CASE EndStep \/ EndGroup
  BY <1>1, <1>5 DEF EndStep, EndGroup, EndSegment
<1>6. ASSUME NEW s \in Steps, RunStep(s)
      PROVE  Branches'
  BY <1>6, RunStepIsInBranch DEF Running, InBranch
<1>7. CASE SegmentCancelled \/ ItemCancelled
  BY <1>1, <1>7 DEF SegmentCancelled, ItemCancelled, GiveUp, segVars, Phases
<1>8. CASE EndPre \/ Seal \/ EndPost
  BY <1>1, <1>8 DEF EndPre, Seal, EndPost, PhaseDone, segVars
<1>9. CASE \/ StartItem \/ StartPost
           \/ EndItem \/ Finish \/ FailEvent \/ FailSnapshot
  BY <1>1, <1>9 DEF StartItem, StartPost, EndItem, Finish, FailEvent,
     FailSnapshot, segVars, Phases
<1> QED
  BY <1>2, <1>3, <1>4, <1>5, <1>6, <1>7, <1>8, <1>9 DEF Next, Proceed

-----------------------------------------------------------------------------
(* Chains                                                                  *)

\* item stays in bounds and counts the items that have been sealed.
LEMMA ChainsStep ==
    ASSUME Typed, Branches, Chains, [Next]_vars
    PROVE  /\ Chains'
           /\ item' \in 0 .. pipe'.items
           /\ sealed' \subseteq Items'
<1>1. Items' = Items /\ pipe' = pipe /\ pipe.items \in Nat
  BY PipeFixed, SomeItems DEF Typed
<1>2. Items = 0 .. pipe.items - 1
  BY DEF Items
<1> USE DEF Chains, Typed
<1>3. CASE Start
  BY <1>1, <1>3 DEF Start, EnterPhase, pastVars
<1>4. CASE Resume
  BY <1>1, <1>2, <1>4 DEF Resume
<1>5. CASE Crash
  BY <1>1, <1>2, <1>5 DEF Crash
<1>6. CASE Cancel \/ UNCHANGED vars
  BY <1>1, <1>6 DEF Cancel, pastVars, vars
<1>7. CASE NextSegment \/ SegmentCancelled \/ ItemCancelled
  BY <1>1, <1>7 DEF NextSegment, SegmentCancelled, ItemCancelled, GiveUp, pastVars
<1>8. CASE EndStep \/ EndGroup
  <2>1. stage \in Phases
    BY <1>8 DEF EndStep, EndGroup, Returned, Branches
  <2>2. UNCHANGED <<item, sealed>>
    BY <1>8 DEF EndStep, EndGroup, EndSegment, Remember, pastVars
  <2>3. stage' = stage \/ stage' = "failing"
    BY <1>8 DEF EndStep, EndGroup, GiveUp
  <2> QED
    BY <1>1, <2>1, <2>2, <2>3 DEF Phases
<1>9. ASSUME NEW s \in Steps, RunStep(s)
      PROVE  UNCHANGED <<stage, item, sealed, status>>
  BY <1>9, RunStepIsInBranch DEF InBranch, pastVars
<1>10. CASE EndPre \/ StartItem
  BY <1>1, <1>10 DEF EndPre, StartItem, EnterPhase, PhaseDone, pastVars
<1>11. CASE Seal
  BY <1>1, <1>2, <1>11 DEF Seal, PhaseDone
<1>12. CASE EndItem
  BY <1>1, <1>2, <1>12 DEF EndItem, pastVars
<1>13. CASE StartPost \/ EndPost \/ Finish \/ FailEvent \/ FailSnapshot
  BY <1>1, <1>13 DEF StartPost, EndPost, Finish, FailEvent, FailSnapshot,
     EnterPhase, PhaseDone, pastVars
<1> QED
  BY <1>1, <1>3, <1>4, <1>5, <1>6, <1>7, <1>8, <1>9, <1>10, <1>11, <1>12, <1>13
     DEF Next, Proceed

-----------------------------------------------------------------------------
(* What is on disk                                                         *)

\* An event reaches the journal or is counted as lost; nothing is lost of what
\* the journal said before.
LEMMA LogEffect ==
    ASSUME Typed, NEW j \in JournalType, Log(j)
    PROVE  /\ journal' \in JournalType
           /\ werr' \in BOOLEAN
           /\ UNCHANGED <<lost, hidden, everLost>>
           /\ \/ journal' = j /\ werr' = werr
              \/ journal' = journal /\ werr' = TRUE
<1>1. CASE journal' = j /\ UNCHANGED <<faults, werr>>
  BY <1>1 DEF Log, Typed
<1>2. CASE werr' = TRUE /\ UNCHANGED journal
  BY <1>2 DEF Log, Typed
<1> QED
  BY <1>1, <1>2 DEF Log

\* A snapshot that is lost is noted once in the journal, or the notice is lost
\* with it and the journal never hears of it from this process.
LEMMA SaveEffect ==
    ASSUME Typed, NEW c, Save(c)
    PROVE  /\ journal' \in JournalType
           /\ lost' \in BOOLEAN /\ werr' \in BOOLEAN
           /\ journal'.ended = journal.ended /\ journal'.last = journal.last
           /\ \/ UNCHANGED <<lost, werr, everLost, hidden>> /\ journal' = journal
              \/ /\ lost' /\ everLost' /\ werr'
                 /\ \/ lost /\ UNCHANGED hidden /\ journal'.noted = journal.noted
                    \/ ~lost /\ UNCHANGED hidden /\ journal'.noted
                    \/ ~lost /\ hidden' /\ journal'.noted = journal.noted
<1>1. CASE UNCHANGED <<lost, werr, journal, faults, hidden, everLost>>
  BY <1>1 DEF Typed
<1>2. CASE NoteLoss
  <2>1. CASE journal' = [journal EXCEPT !.noted = @ \/ ~lost] /\ UNCHANGED hidden
    <3>1. journal' \in JournalType
      BY <2>1 DEF Typed, JournalType
    <3>2. journal'.ended = journal.ended /\ journal'.last = journal.last
      BY <2>1 DEF Typed, JournalType
    <3>3. journal'.noted = (journal.noted \/ ~lost)
      BY <2>1 DEF Typed, JournalType
    <3> QED
      BY <1>2, <2>1, <3>1, <3>2, <3>3 DEF NoteLoss, Typed, JournalType
  <2>2. CASE ~lost /\ hidden' /\ UNCHANGED journal
    BY <1>2, <2>2 DEF NoteLoss, Typed
  <2> QED
    BY <1>2, <2>1, <2>2 DEF NoteLoss
<1> QED
  BY <1>1, <1>2 DEF Save

\* Each step of a live process leaves the disk alone, writes a snapshot or
\* writes one event, which says nothing of lost snapshots and of how an item
\* has ended only at its end.
LEMMA ProceedWrites ==
    ASSUME Typed, Chains, Branches, Proceed
    PROVE  \/ UNCHANGED ioVars
           \/ \E c : Save(c)
           \/ \E j \in JournalType :
                 Log(j) /\ j.noted = journal.noted /\ j.ended = journal.ended
           \/ EndItem
<1>1. ASSUME NEW s \in Steps, RunStep(s)
      PROVE  \/ UNCHANGED ioVars
             \/ StepEnd(s)
  BY <1>1 DEF RunStep, Succeed, BreakContract, PassOver, PlatformError, Retry, Skip,
         Stop, Decide, Cut
<1>2. ASSUME NEW s \in Steps, StepEnd(s)
      PROVE  \E j \in JournalType :
                 Log(j) /\ j.noted = journal.noted /\ j.ended = journal.ended
  <2>1. CASE Linear
    <3> DEFINE j == [journal EXCEPT !.stepOk = @ \cup {s}]
    <3>1. j \in JournalType /\ j.noted = journal.noted /\ j.ended = journal.ended
      BY DEF Typed, JournalType
    <3> QED
      BY <1>2, <2>1, <3>1 DEF StepEnd
  <2>2. CASE ~Linear
    BY <1>2, <2>2 DEF StepEnd, Typed
  <2> QED
    BY <2>1, <2>2
<1>3. ASSUME NEW v \in Lasts, Log([journal EXCEPT !.last = v])
      PROVE  \E j \in JournalType :
                 Log(j) /\ j.noted = journal.noted /\ j.ended = journal.ended
  <2> DEFINE j == [journal EXCEPT !.last = v]
  <2>1. j \in JournalType /\ j.noted = journal.noted /\ j.ended = journal.ended
    BY DEF Typed, JournalType
  <2> QED
    BY <1>3, <2>1
<1>4. CASE Finish
  <2>1. status' \in Lasts
    BY <1>4 DEF Finish, Lasts, Statuses
  <2> QED
    BY <1>3, <1>4, <2>1 DEF Finish
<1>5. CASE EndStep \/ EndGroup \/ SegmentCancelled \/ NextSegment
  BY <1>5 DEF EndStep, EndGroup, SegmentCancelled, NextSegment
<1>6. CASE \/ EndPre \/ ItemCancelled \/ StartItem \/ Seal \/ StartPost
           \/ EndPost \/ FailSnapshot
  BY <1>6 DEF EndPre, ItemCancelled, StartItem, Seal, StartPost, EndPost,
     FailSnapshot
<1>7. CASE FailEvent
  BY <1>3, <1>7 DEF FailEvent, Typed, Lasts
<1> QED
  BY <1>1, <1>2, <1>4, <1>5, <1>6, <1>7 DEF Proceed

\* Where runWithStore is after each of its steps: item moves only in EndItem, and
\* who is dead or has returned does nothing.
LEMMA ProceedMoves ==
    ASSUME Proceed, Branches
    PROVE  /\ stage \in Working /\ stage' # "dead"
           /\ ~EndItem => item' = item
           /\ ~Finish => status' = status \/ status' \in Statuses \ {"run_end"}
<1>1. ASSUME NEW s \in Steps, RunStep(s)
      PROVE  /\ UNCHANGED <<stage, item, status>>
             /\ stage \in Phases
  BY <1>1, RunStepIsInBranch DEF InBranch, Running, Branches
<1>2. CASE EndStep \/ EndGroup
  <2>1. /\ item' = item /\ stage \in Phases
        /\ stage' = stage \/ stage' = "failing"
        /\ status' = status \/ status' = Verdict
    BY <1>2 DEF EndStep, EndGroup, EndSegment, GiveUp, Returned, Branches
  <2> QED
    BY <2>1 DEF Verdict, Working, Phases, Statuses
<1>3. CASE SegmentCancelled \/ NextSegment \/ EndPre \/ ItemCancelled \/ StartItem
  BY <1>3 DEF SegmentCancelled, NextSegment, EndPre, ItemCancelled, StartItem,
     GiveUp, EnterPhase, PhaseDone, Working, Phases, Statuses
<1>4. CASE \/ Seal \/ EndItem \/ StartPost \/ EndPost
           \/ Finish \/ FailEvent \/ FailSnapshot
  BY <1>4 DEF Seal, EndItem, StartPost, EndPost, Finish, FailEvent, FailSnapshot,
     EnterPhase, PhaseDone, Working, Phases, Statuses
<1> QED
  BY <1>1, <1>2, <1>3, <1>4 DEF Proceed, Working, Phases

\* What the process and the journal know of lost snapshots and of ended items
\* survives every write, failed or not.
LEMMA DiskStep ==
    ASSUME Typed, Branches, Chains, Losses, Written, Proceed
    PROVE  /\ journal' \in JournalType
           /\ lost' \in BOOLEAN /\ prior' \in BOOLEAN /\ werr' \in BOOLEAN
           /\ Losses'
           /\ Written'
<1> USE DEF Losses, Written
<1>1. Items' = Items /\ JournalType' = JournalType
  BY PipeFixed DEF Next, JournalType, Lasts, Statuses
<1>2. stage # "dead" /\ stage' # "dead"
  BY ProceedMoves DEF Working, Phases
<1>3. prior' = prior
  BY ProceedKeeps DEF procVars
<1>4. CASE EndItem
  <2> DEFINE j == [journal EXCEPT !.ended[item] = status]
  <2>1. /\ item \in Items /\ item' = item + 1
        /\ status \in {"ok", "aborted"}
    BY <1>4, RunnerAssumption DEF EndItem, Chains, Typed, Items, PipeOK
  <2>2. j \in JournalType /\ j.noted = journal.noted
    BY <2>1 DEF Typed, JournalType
  <2>3. \A i \in Items : j.ended[i] = IF i = item THEN status ELSE journal.ended[i]
    BY <2>1 DEF Typed, JournalType
  <2>4. Log(j)
    BY <1>4 DEF EndItem
  <2> HIDE DEF j
  <2>5. Typed /\ j \in JournalType /\ Log(j)
    BY <2>2, <2>4
  <2>6. /\ journal' \in JournalType
        /\ werr' \in BOOLEAN
        /\ UNCHANGED <<lost, hidden, everLost>>
        /\ \/ journal' = j /\ werr' = werr
           \/ journal' = journal /\ werr' = TRUE
    BY <2>5, LogEffect
  <2>7. Losses'
    BY <1>2, <1>3, <2>2, <2>6
  <2>8. Written'
    <3> SUFFICES ASSUME ~werr', NEW i \in Items, i < item'
                 PROVE  journal'.ended[i] # "none"
      BY <1>1
    <3>1. i = item \/ i < item
      BY <2>1 DEF Items, Typed
    <3>2. journal' = j /\ ~werr
      BY <2>6
    <3> QED
      BY <2>1, <2>3, <3>1, <3>2
  <2> QED
    BY <1>3, <2>6, <2>7, <2>8 DEF Typed
<1>5. CASE ~EndItem
  <2>1. item' = item
    BY <1>5, ProceedMoves
  <2>2. CASE UNCHANGED ioVars
    BY <1>1, <1>2, <1>3, <2>1, <2>2 DEF ioVars, Typed
  <2>3. ASSUME NEW c, Save(c)
        PROVE  /\ journal' \in JournalType
               /\ lost' \in BOOLEAN /\ prior' \in BOOLEAN /\ werr' \in BOOLEAN
               /\ Losses' /\ Written'
    BY <1>1, <1>2, <1>3, <2>1, <2>3, SaveEffect DEF Typed
  <2>4. ASSUME NEW j \in JournalType, Log(j),
               j.noted = journal.noted, j.ended = journal.ended
        PROVE  /\ journal' \in JournalType
               /\ lost' \in BOOLEAN /\ prior' \in BOOLEAN /\ werr' \in BOOLEAN
               /\ Losses' /\ Written'
    BY <1>1, <1>2, <1>3, <2>1, <2>4, LogEffect DEF Typed
  <2> QED
    BY <1>1, <1>5, <2>2, <2>3, <2>4, ProceedWrites
<1> QED
  BY <1>1, <1>4, <1>5

-----------------------------------------------------------------------------
(* The invariant                                                           *)

\* A run begins with nothing on disk and no item at hand.
LEMMA InitInv == Init => IInv
<1> SUFFICES ASSUME Init PROVE IInv
  OBVIOUS
<1>1. /\ pipe.items \in Nat /\ pipe.items > 0
      /\ Items = 0 .. pipe.items - 1
  BY SomeItems DEF Init, Items
<1>2. NoJournal \in JournalType
  BY DEF NoJournal, JournalType, Lasts
<1>3. Typed
  <2>1. item = 0 /\ 0 \in 0 .. pipe.items
    BY <1>1 DEF Init
  <2> QED
    BY <1>2, <2>1 DEF Init, Typed, Statuses
<1>4. Branches /\ Chains /\ Verdicts /\ EndIsHonest
  BY <1>1 DEF Init, Branches, Chains, Verdicts, EndIsHonest, Phases
<1>5. Losses /\ Written
  BY <1>1 DEF Init, Losses, Written, NoJournal
<1> QED
  BY <1>3, <1>4, <1>5 DEF IInv

\* A step of a live process.
LEMMA ProceedInv ==
    ASSUME IInv, Proceed
    PROVE  IInv'
<1> USE DEF IInv
<1>1. [Next]_vars
  BY DEF Next
<1>2. /\ pipe' = pipe /\ Items' = Items
  BY <1>1, PipeFixed
<1>3. /\ Chains'
      /\ item' \in 0 .. pipe'.items
      /\ sealed' \subseteq Items'
  BY <1>1, ChainsStep
<1>4. /\ journal' \in JournalType
      /\ lost' \in BOOLEAN /\ prior' \in BOOLEAN /\ werr' \in BOOLEAN
      /\ Losses'
      /\ Written'
  BY DiskStep
<1>5. JournalType' = JournalType
  BY <1>1, PipeFixed DEF JournalType, Lasts, Statuses
<1>6. CASE Finish
  <2>1. /\ stage = "ending" /\ stage' = "over"
        /\ status' \in {"run_failed", "run_end"}
        /\ status' = "run_end" => lost = FALSE /\ prior = FALSE
    BY <1>6 DEF Finish, Typed
  <2>2. item = pipe.items /\ UNCHANGED <<item, sealed>>
    BY <1>6, <2>1 DEF Finish, Chains, pastVars
  <2>3. sealed = Items
    <3>1. \A i \in Items : i < item
      BY <2>2, SomeItems DEF Typed
    <3> QED
      BY <3>1 DEF Chains, Typed
  <2> DEFINE j == [journal EXCEPT !.last = status']
  <2>4. /\ j \in JournalType /\ j.last = status'
        /\ j.noted = journal.noted /\ j.ended = journal.ended
    BY <2>1 DEF Typed, JournalType, Lasts, Statuses
  <2>5. Log(j)
    BY <1>6 DEF Finish
  <2> HIDE DEF j
  <2>6. /\ UNCHANGED <<lost, hidden, everLost>>
        /\ \/ journal' = j /\ werr' = werr
           \/ journal' = journal /\ werr' = TRUE
    BY <2>4, <2>5, LogEffect
  <2>7. status' = "run_end" =>
           /\ ~lost' /\ ~journal'.noted
           /\ everLost' => hidden'
    BY <2>1, <2>4, <2>6 DEF Losses
  <2>8. ASSUME status' = "run_end", ~werr'
        PROVE  /\ journal'.last = "run_end"
               /\ \A i \in Items : journal'.ended[i] # "none"
    <3>1. journal' = j /\ ~werr
      BY <2>6, <2>8
    <3>2. \A i \in Items : i < item
      BY <2>2, SomeItems DEF Typed
    <3> QED
      BY <2>4, <2>8, <3>1, <3>2 DEF Written
  <2>9. EndIsHonest' /\ Verdicts'
    BY <1>2, <2>1, <2>2, <2>3, <2>7, <2>8 DEF EndIsHonest, Verdicts
  <2>10. status' \in Statuses
    BY <2>1 DEF Statuses
  <2> QED
    BY <1>1, <1>2, <1>3, <1>4, <1>5, <2>9, <2>10, BranchesStep DEF Typed
<1>7. CASE ~Finish
  <2>1. status' \in Statuses \ {"run_end"}
    BY <1>7, ProceedMoves DEF Verdicts, Typed, Working, Phases
  <2>2. EndIsHonest' /\ Verdicts'
    BY <2>1 DEF EndIsHonest, Verdicts
  <2> QED
    BY <1>1, <1>2, <1>3, <1>4, <1>5, <2>1, <2>2, BranchesStep DEF Typed
<1> QED
  BY <1>6, <1>7

\* The start of a run, the start of another process on its directory, its end
\* by a crash, and a cancellation.
LEMMA WorldInv ==
    ASSUME IInv, Start \/ Resume \/ Cancel \/ Crash \/ UNCHANGED vars
    PROVE  IInv'
<1> USE DEF IInv
<1>1. [Next]_vars
  BY DEF Next
<1>2. pipe' = pipe /\ Items' = Items /\ JournalType' = JournalType
  BY <1>1, PipeFixed DEF JournalType, Lasts, Statuses
<1>3. /\ Branches' /\ Chains'
      /\ item' \in 0 .. pipe'.items
      /\ sealed' \subseteq Items'
  BY <1>1, ChainsStep, BranchesStep
<1>4. CASE Start
  <2> DEFINE j == [journal EXCEPT !.started = TRUE, !.last = "run_start"]
  <2>1. /\ j \in JournalType
        /\ j.noted = journal.noted /\ j.ended = journal.ended
    BY DEF Typed, JournalType, Lasts
  <2>2. Log(j)
    BY <1>4 DEF Start
  <2> HIDE DEF j
  <2>3. /\ journal' \in JournalType
        /\ werr' \in BOOLEAN
        /\ UNCHANGED <<lost, hidden, everLost>>
        /\ \/ journal' = j /\ werr' = werr
           \/ journal' = journal /\ werr' = TRUE
    BY <2>1, <2>2, LogEffect
  <2>4. /\ UNCHANGED <<item, status, prior>>
        /\ stage = "new" /\ stage' # "over" /\ stage' # "dead"
    BY <1>4 DEF Start, EnterPhase, procVars
  <2>5. Losses' /\ Written'
    BY <1>2, <2>1, <2>3, <2>4 DEF Losses, Written, Typed
  <2>6. Verdicts' /\ EndIsHonest'
    BY <2>4 DEF Verdicts, EndIsHonest
  <2> QED
    BY <1>2, <1>3, <2>3, <2>4, <2>5, <2>6 DEF Typed, Statuses
<1>5. CASE Resume
  <2> DEFINE j == [journal EXCEPT !.last = "run_resumed"]
  <2>1. /\ j \in JournalType
        /\ j.noted = journal.noted /\ j.ended = journal.ended
    BY DEF Typed, JournalType, Lasts
  <2>2. /\ journal' \in {j, journal}
        /\ werr' \in BOOLEAN /\ lost' = FALSE /\ prior' = journal.noted
        /\ UNCHANGED <<hidden, everLost>>
        /\ item' = 0 /\ status' \in {"ok", "unreported"}
    BY <1>5 DEF Resume
  <2> HIDE DEF j
  <2>3. prior' \in BOOLEAN
    BY <2>2 DEF Typed, JournalType
  <2>4. Losses'
    BY <2>1, <2>2 DEF Losses
  <2>5. Written'
    BY <1>2, <2>2, SomeItems DEF Typed, Written
  <2>6. Verdicts' /\ EndIsHonest'
    BY <2>2 DEF Verdicts, EndIsHonest
  <2> QED
    BY <1>2, <1>3, <2>1, <2>2, <2>3, <2>4, <2>5, <2>6 DEF Typed, Statuses
<1>6. CASE Crash
  <2>1. UNCHANGED <<journal, hidden, everLost>>
    BY <1>6 DEF Crash
  <2>2. stage' = "dead" /\ item' = 0 /\ lost' = FALSE /\ prior' = FALSE
        /\ werr' = FALSE /\ status' = "ok"
    BY <1>6 DEF Crash
  <2>3. Losses' /\ Verdicts' /\ EndIsHonest'
    BY <2>1, <2>2 DEF Losses, Verdicts, EndIsHonest
  <2>4. Written'
    BY <1>2, <2>2 DEF Written, Items
  <2> QED
    BY <1>2, <1>3, <2>1, <2>2, <2>3, <2>4 DEF Typed, Statuses
<1>7. CASE Cancel
  <2>1. UNCHANGED <<stage, item, status, sealed, ioVars, prior>>
    BY <1>7 DEF Cancel, pastVars
  <2> QED
    BY <1>2, <1>3, <2>1
       DEF Typed, Losses, Written, Verdicts, EndIsHonest, ioVars
<1>8. CASE UNCHANGED vars
  BY <1>2, <1>3, <1>8 DEF vars, Typed, Losses, Written, Verdicts, EndIsHonest
<1> QED
  BY <1>4, <1>5, <1>6, <1>7, <1>8

\* The invariant is inductive.
LEMMA StepInv == IInv /\ [Next]_vars => IInv'
  BY ProceedInv, WorldInv DEF Next

\* The inductive invariant of a run, which the theorems below draw on.
THEOREM RunInvariant == RunSpec => []IInv
<1>1. Init => IInv
  BY InitInv
<1>2. IInv /\ [Next]_vars => IInv'
  BY StepInv
<1> QED
  BY <1>1, <1>2, PTL DEF RunSpec

\* parallel.go: whatever fails, is cancelled or stops in a group, no branch is
\* at work once its phase is over.
THEOREM BarrierAlwaysHolds == RunSpec => []BarrierHolds
<1>1. IInv => BarrierHolds
  BY DEF IInv, Branches, BarrierHolds, NoBranch, Idle
<1> QED
  BY <1>1, RunInvariant, PTL

\* finish: run_end is reported only of a run that has taken every item through
\* its chain and never lost a snapshot, or whose notice of that was lost as well,
\* for any number of failed writes, crashes and resumes.
THEOREM RunEndIsHonest == RunSpec => []EndIsHonest
<1>1. IInv => EndIsHonest
  BY DEF IInv
<1> QED
  BY <1>1, RunInvariant, PTL

-----------------------------------------------------------------------------
(* Types, and where the steps of a phase are                               *)

Value == ValueOf(pipe)

\* Elements of a foreach, iterations of a loop.
Turns(s) == IF Kind(s) = "each" THEN Elements
                                ELSE IF Kind(s) = "loop" THEN MaxIter ELSE 1

BranchOf(s) ==
    [st : {"idle", "run", "ok", "stop", "err", "cut"}, e : 0 .. Turns(s) - 1,
     try : 1 .. MaxTries, out : Value, all : {Absent} \cup Seq(Value),
     vals : Seq(Value)]

Yields(s) == IF Kind(s) = "each" THEN Seq(Value) ELSE Value

ListsOK(lists) ==
    /\ lists = [s \in Steps |-> lists[s]]
    /\ \A s \in Steps : lists[s] \in Seq(Yields(s))

BranchesOK ==
    /\ branch = [s \in Steps |-> branch[s]]
    /\ \A s \in Steps : branch[s] \in BranchOf(s)

Values ==
    /\ stage \in Stages
    /\ BranchesOK
    /\ ctx \in Contexts
    /\ disk \in Contexts \cup {Absent}
    /\ ListsOK(agg) /\ ListsOK(made)
    /\ faults \in 0 .. MaxFaults /\ resumes \in 0 .. MaxResumes

\* The steps of a phase.
StepsOf(name) == CASE name = "pre" -> PreSteps
                   [] name = "item" -> LoopSteps
                   [] name = "post" -> PostSteps
                   [] OTHER -> {}

\* T is the rest of the steps P from one of them on, and splits no group.
Rest(T, P) == T \subseteq P /\ \A t \in T, s \in P : t <= s => s \in T
Grouped(T, P) == \A t \in T, s \in P : Mates(pipe, t, s) => s \in T

\* In a phase of the steps P, T lies ahead and S runs: what is done, what runs
\* and what lies ahead follow each other, and the n actions are those of the
\* steps that are done, unless some were skipped or the last one aborted.
PhaseOK(P, T, S, n, stopped) ==
    /\ P \subseteq Steps
    /\ Rest(T, P) /\ Rest(T \cup S, P) /\ T \cap S = {}
    /\ Grouped(T, P) /\ Grouped(S, P)
    /\ n \in Nat /\ n <= Cardinality(P \ (T \cup S))
    /\ ~Linear => /\ ~stopped => n = Cardinality(P \ (T \cup S))
                  /\ FirstOf(P, n) \subseteq P \ (T \cup S)

InPhase(name) == PhaseOK(StepsOf(name), todo, seg, acted, aborted)

Places ==
    /\ todo \subseteq Steps /\ seg \subseteq Steps /\ skip \subseteq Steps
    /\ acted \in 0 .. Cardinality(Steps) /\ aborted \in BOOLEAN
    /\ aborted => todo = {} /\ seg = {}
    /\ \A s \in seg : branch[s].st # "idle"
    /\ ~Linear => skip = {}
    /\ stage \in Phases => InPhase(stage)

-----------------------------------------------------------------------------
(* The shape of a pipeline                                                 *)

\* All of this is the same in every process.
LEMMA SamePipe ==
    ASSUME [Next]_vars
    PROVE  /\ pipe' = pipe /\ Steps' = Steps /\ Items' = Items /\ Linear' = Linear
           /\ PreSteps' = PreSteps /\ LoopSteps' = LoopSteps /\ PostSteps' = PostSteps
           /\ Value' = Value /\ Contexts' = Contexts
           /\ NoBranch' = NoBranch /\ NoAgg' = NoAgg /\ Fresh' = Fresh
<1>1. pipe' = pipe
  BY PipeFixed
<1> QED
  BY <1>1 DEF Steps, Items, Linear, PreSteps, LoopSteps, PostSteps, Value, Contexts,
              NoBranch, NoAgg, Fresh, Nothing

\* The pipeline of a run is the same in all its states, and with it what its steps
\* are.
LEMMA SameSteps ==
    ASSUME [Next]_vars
    PROVE  /\ \A s : Kind(s)' = Kind(s) /\ OnError(s)' = OnError(s)
           /\ \A s : BranchOf(s)' = BranchOf(s) /\ Yields(s)' = Yields(s)
           /\ \A s : Turns(s)' = Turns(s)
           /\ \A s, t : Mates(pipe, s, t)' = Mates(pipe, s, t)
           /\ \A s, t : SamePhase(s, t)' = SamePhase(s, t)
<1>1. pipe' = pipe
  BY PipeFixed
<1> QED
  BY <1>1 DEF Kind, OnError, BranchOf, Yields, Turns, Value, Mates, SamePhase,
              PreSteps, LoopSteps, PostSteps, Steps

\* The steps are numbered from 1, and their groups are not split.
LEMMA StepsShape ==
    ASSUME pipe \in Pipes
    PROVE  /\ \E n \in Nat : Steps = 1 .. n
           /\ \A s, t, u \in Steps :
                 s < t /\ t < u /\ Mates(pipe, s, u) => Mates(pipe, s, t)
<1>1. PipeOK(pipe)
  BY RunnerAssumption
<1>2. pipe.steps \in Seq(StepRecord)
  BY <1>1 DEF PipeOK
<1>3. DOMAIN pipe.steps = 1 .. Len(pipe.steps) /\ Len(pipe.steps) \in Nat
  BY <1>2
<1>4. \A s, t, u \in Steps :
          s < t /\ t < u /\ Mates(pipe, s, u) => Mates(pipe, s, t)
  BY <1>1 DEF PipeOK, Steps
<1> QED
  BY <1>3, <1>4 DEF Steps

\* Sets of steps are finite sets of numbers.
LEMMA StepsFinite ==
    ASSUME pipe \in Pipes
    PROVE  /\ Steps \subseteq Nat /\ IsFiniteSet(Steps) /\ Cardinality(Steps) \in Nat
           /\ \A T \in SUBSET Steps :
                 /\ T \subseteq Nat /\ IsFiniteSet(T) /\ Cardinality(T) \in Nat
                 /\ Cardinality(T) <= Cardinality(Steps)
<1>1. PICK n \in Nat : Steps = 1 .. n
  BY StepsShape
<1>2. IsFiniteSet(Steps) /\ Steps \subseteq Nat
  BY <1>1, FS_Interval
<1>3. ASSUME NEW T \in SUBSET Steps
      PROVE  /\ IsFiniteSet(T) /\ Cardinality(T) \in Nat
             /\ Cardinality(T) <= Cardinality(Steps)
  BY <1>2, FS_Subset, FS_CardinalityType
<1> QED
  BY <1>2, <1>3, FS_CardinalityType

\* The phases share no step.
LEMMA PhasesOfSteps ==
    /\ PreSteps \subseteq Steps => \A name : StepsOf(name) \subseteq Steps
    /\ LoopSteps \cap PostSteps = {} /\ LoopSteps \cap PreSteps = {}
    /\ PostSteps \cap PreSteps = {}
    /\ LoopSteps \subseteq Steps /\ PostSteps \subseteq Steps
  BY DEF StepsOf, LoopSteps, PostSteps

\* The steps before the items are steps of the pipeline.
LEMMA PreAreSteps ==
    ASSUME pipe \in Pipes
    PROVE  PreSteps \subseteq Steps
<1>1. PipeOK(pipe)
  BY RunnerAssumption
<1>2. PICK n \in Nat : Steps = 1 .. n
  BY StepsShape
<1>3. pipe.source \in Steps \cup {0}
  BY <1>1 DEF PipeOK, Steps
<1> QED
  BY <1>2, <1>3 DEF PreSteps

\* Every nonempty set of steps has a first one.
LEMMA FirstStep ==
    ASSUME pipe \in Pipes, NEW T \in SUBSET Steps, T # {}
    PROVE  Min(T) \in T /\ \A t \in T : Min(T) <= t
<1> DEFINE Less == {p \in Nat \X Nat : p[1] < p[2]}
<1>1. IsWellFoundedOn(Less, Nat)
  BY NatLessThanWellFounded, Zenon DEF OpToRel
<1>2. T \in SUBSET Nat
  BY StepsFinite
<1> HIDE DEF Less
<1>3. PICK n \in T : \A m \in T : ~(<<m, n>> \in Less)
  BY <1>1, <1>2, WFMin
<1>4. ASSUME NEW m \in T
      PROVE  n <= m
  <2>1. m < n => <<m, n>> \in Less
    BY <1>2 DEF Less
  <2>2. ~(m < n)
    BY <1>3, <2>1
  <2> QED
    BY <1>2, <2>2
<1> QED
  BY <1>4 DEF Min

\* Segment: the first of the steps that lie ahead, and its group as far as it
\* lies ahead; what is left comes after it.
LEMMA SegmentShape ==
    ASSUME pipe \in Pipes, NEW T \in SUBSET Steps, T # {}
    PROVE  /\ Segment(T) \subseteq T /\ Segment(T) # {}
           /\ \A s \in Segment(T), t \in T : t <= s => t \in Segment(T)
           /\ Grouped(Segment(T), T) /\ Grouped(T \ Segment(T), T)
<1> DEFINE S == Segment(T)
           first == Min(T)
           Group(s) == pipe.steps[s].group
<1>1. first \in T /\ \A t \in T : first <= t
  BY FirstStep
<1>2. T \subseteq Nat
  BY StepsFinite
<1>3. S = {s \in T : \/ s = first
                     \/ /\ Group(first) # ""
                        /\ \A t \in T : t <= s => Group(t) = Group(first)}
  BY DEF Segment
<1> HIDE DEF S, first
<1>4. S \subseteq T /\ S # {}
  BY <1>1, <1>3
<1>5. ASSUME NEW s \in S, NEW t \in T, t <= s
      PROVE  t \in S
  <2>1. CASE s = first
    <3>1. first \in Nat /\ t \in Nat /\ first <= t
      BY <1>1, <1>2
    <3>2. t = first
      BY <1>5, <2>1, <3>1
    <3> QED
      BY <1>3, <3>2
  <2>2. CASE s # first
    <3>1. /\ Group(first) # ""
          /\ \A u \in T : u <= s => Group(u) = Group(first)
      BY <1>3, <2>2
    <3>2. ASSUME NEW u \in T, u <= t
          PROVE  Group(u) = Group(first)
      <4>1. u <= s
        BY <1>2, <1>4, <1>5, <3>2
      <4> QED
        BY <3>1, <4>1
    <3> HIDE DEF Group
    <3> QED
      BY <1>3, <3>1, <3>2
  <2> QED
    BY <2>1, <2>2
\* Whoever is in the group of the first step is in its segment.
<1>6. ASSUME NEW t \in T, Mates(pipe, first, t)
      PROVE  t \in S
  <2>1. Group(t) = Group(first) /\ Group(first) # ""
    BY <1>6 DEF Mates
  <2>2. ASSUME NEW u \in T, u <= t
        PROVE  Group(u) = Group(first)
    <3>1. CASE u = first \/ u = t
      BY <2>1, <3>1
    <3>2. CASE u # first /\ u # t
      <4>1. first < u /\ u < t
        BY <1>1, <1>2, <2>2, <3>2
      <4>2. Mates(pipe, first, u)
        BY <1>1, <1>6, <4>1, StepsShape
      <4> QED
        BY <4>2 DEF Mates
    <3> QED
      BY <3>1, <3>2
  <2> HIDE DEF Group
  <2> QED
    BY <1>3, <2>1, <2>2
<1>7. ASSUME NEW s \in S, NEW t \in T, Mates(pipe, s, t)
      PROVE  Mates(pipe, first, t)
  <2>1. s \in T /\ s <= s
    BY <1>2, <1>4
  <2>2. Group(s) = Group(first)
    BY <1>3, <2>1
  <2> QED
    BY <1>7, <2>2 DEF Mates
<1>8. \A s \in S, t \in T : Mates(pipe, s, t) => t \in S
  BY <1>6, <1>7
<1>9. ASSUME NEW t \in T \ S, NEW s \in T, Mates(pipe, t, s)
      PROVE  s \in T \ S
  <2>1. Mates(pipe, s, t)
    BY <1>9 DEF Mates
  <2> QED
    BY <1>8, <1>9, <2>1
<1>10. Grouped(S, T) /\ Grouped(T \ S, T)
  BY <1>8, <1>9 DEF Grouped
<1> QED
  BY <1>4, <1>5, <1>10 DEF S

\* The first n steps are those of any beginning of that length.
LEMMA FirstOfBeginning ==
    ASSUME pipe \in Pipes, NEW P \in SUBSET Steps, NEW D \in SUBSET P,
           \A d \in D, s \in P : s <= d => s \in D
    PROVE  FirstOf(P, Cardinality(D)) = D
<1> DEFINE upTo(s) == {t \in P : t <= s}
<1>1. P \subseteq Nat /\ IsFiniteSet(P) /\ IsFiniteSet(D) /\ Cardinality(D) \in Nat
  BY StepsFinite
<1>2. \A s : upTo(s) \in SUBSET P
  OBVIOUS
<1>3. ASSUME NEW s \in D
      PROVE  Cardinality(upTo(s)) <= Cardinality(D)
  <2>1. upTo(s) \subseteq D
    OBVIOUS
  <2> QED
    BY <1>1, <2>1, FS_Subset
<1>4. ASSUME NEW s \in P \ D
      PROVE  ~(Cardinality(upTo(s)) <= Cardinality(D))
  <2>1. D \cup {s} \subseteq upTo(s)
    <3>1. ASSUME NEW d \in D
          PROVE  d <= s
      BY <1>1
    <3> QED
      BY <1>1, <3>1
  <2>2. Cardinality(D \cup {s}) = Cardinality(D) + 1
    BY <1>1, FS_AddElement
  <2>3. IsFiniteSet(upTo(s))
    BY <1>1, <1>2, FS_Subset
  <2> HIDE DEF upTo
  <2>4. Cardinality(D \cup {s}) <= Cardinality(upTo(s))
    BY <2>1, <2>3, FS_Subset
  <2>5. Cardinality(upTo(s)) \in Nat
    BY <2>3, FS_CardinalityType
  <2> QED
    BY <1>1, <2>2, <2>4, <2>5
<1>5. FirstOf(P, Cardinality(D)) = {s \in P : Cardinality(upTo(s)) <= Cardinality(D)}
  BY DEF FirstOf
<1> HIDE DEF upTo
<1> QED
  BY <1>3, <1>4, <1>5

-----------------------------------------------------------------------------
(* A phase                                                                 *)

\* Actions line up with steps when nothing is skipped and nothing aborts.
LEMMA ActionsLineUp ==
    ASSUME pipe \in Pipes, NEW P \in SUBSET Steps, NEW T, Rest(T, P)
    PROVE  FirstOf(P, Cardinality(P \ T)) = P \ T
<1>1. P \subseteq Nat
  BY StepsFinite
<1>2. ASSUME NEW d \in P \ T, NEW s \in P, s <= d
      PROVE  s \in P \ T
  BY <1>2 DEF Rest
<1> QED
  BY <1>2, FirstOfBeginning

\* A phase begins with all its steps ahead.
LEMMA PhaseBegins ==
    ASSUME pipe \in Pipes, NEW P \in SUBSET Steps
    PROVE  PhaseOK(P, P, {}, 0, FALSE)
<1>1. Rest(P, P) /\ Rest(P \cup {}, P) /\ Grouped(P, P) /\ Grouped({}, P)
  BY DEF Rest, Grouped
<1>2. P \ (P \cup {}) = {} /\ P \cap {} = {} /\ P \ P = {}
  OBVIOUS
<1>3. Cardinality({}) = 0
  BY FS_EmptySet
<1>4. FirstOf(P, 0) = {}
  BY <1>1, <1>2, <1>3, ActionsLineUp
<1> QED
  BY <1>1, <1>2, <1>3, <1>4 DEF PhaseOK

\* The first segment ahead becomes the one that runs.
LEMMA PhaseGoes ==
    ASSUME pipe \in Pipes, NEW P, NEW T, T # {}, NEW n,
           PhaseOK(P, T, {}, n, FALSE)
    PROVE  PhaseOK(P, T \ Segment(T), Segment(T), n, FALSE)
<1> DEFINE S == Segment(T)
<1>1. T \subseteq P /\ P \subseteq Steps
  BY DEF PhaseOK, Rest
<1>2. /\ S \subseteq T
      /\ \A s \in S, t \in T : t <= s => t \in S
      /\ Grouped(S, T) /\ Grouped(T \ S, T)
  BY <1>1, SegmentShape
<1> HIDE DEF S
<1>3. (T \ S) \cup S = T \cup {} /\ (T \ S) \cap S = {}
  BY <1>2
<1>4. ASSUME NEW t \in T \ S, NEW s \in P, t <= s
      PROVE  s \in T \ S
  BY <1>2, <1>4 DEF PhaseOK, Rest
<1>5. Rest(T \ S, P)
  BY <1>1, <1>4 DEF Rest
<1>6. Grouped(T \ S, P) /\ Grouped(S, P)
  BY <1>2 DEF Grouped, PhaseOK
<1> QED
  BY <1>3, <1>5, <1>6 DEF PhaseOK, S

\* A resumed linear chain passes over its first segment.
LEMMA PhaseSkips ==
    ASSUME pipe \in Pipes, Linear, NEW P, NEW T, T # {}, NEW n,
           PhaseOK(P, T, {}, n, FALSE)
    PROVE  PhaseOK(P, T \ Segment(T), {}, n, FALSE)
<1> DEFINE S == Segment(T)
<1>1. PhaseOK(P, T \ S, S, n, FALSE)
  BY PhaseGoes
<1>2. (T \ S) \cap {} = {} /\ (T \ S) \cup {} = T \ S
  OBVIOUS
<1>3. Grouped({}, P)
  BY DEF Grouped
<1> HIDE DEF S
<1>4. /\ P \ (T \cup {}) \subseteq P \ (T \ S)
      /\ P \ (T \ S) \in SUBSET Steps
  BY DEF PhaseOK
<1>5. Cardinality(P \ (T \cup {})) <= Cardinality(P \ (T \ S))
  BY <1>4, StepsFinite, FS_Subset
<1>6. Cardinality(P \ (T \cup {})) \in Nat /\ Cardinality(P \ (T \ S)) \in Nat
  <2>1. P \ (T \cup {}) \in SUBSET Steps
    BY DEF PhaseOK
  <2> QED
    BY <1>4, <2>1, StepsFinite
<1>7. n \in Nat /\ n <= Cardinality(P \ (T \ S))
  BY <1>5, <1>6 DEF PhaseOK
<1> QED
  BY <1>1, <1>2, <1>3, <1>7 DEF PhaseOK, S

\* A segment that is merged adds an action for each of its steps.
LEMMA PhaseEnds ==
    ASSUME pipe \in Pipes, NEW P, NEW T, NEW S, S \subseteq P, NEW n,
           PhaseOK(P, T, S, n, FALSE)
    PROVE  PhaseOK(P, T, {}, n + Cardinality(S), FALSE)
<1> DEFINE D == P \ (T \cup S)
<1>1. /\ P \subseteq Steps /\ D \in SUBSET Steps /\ S \in SUBSET Steps
      /\ D \cap S = {} /\ P \ (T \cup {}) = D \cup S
  BY DEF PhaseOK
<1>2. /\ IsFiniteSet(D) /\ IsFiniteSet(S)
      /\ Cardinality(D) \in Nat /\ Cardinality(S) \in Nat
  BY <1>1, StepsFinite
<1>3. Cardinality(D \cup S) = Cardinality(D) + Cardinality(S)
  <2>1. Cardinality({}) = 0
    BY FS_EmptySet
  <2>2. Cardinality(D \cup S) = Cardinality(D) + Cardinality(S) - Cardinality(D \cap S)
    BY <1>2, FS_Union
  <2>3. Cardinality(D \cap S) = 0
    BY <1>1, <2>1
  <2> HIDE DEF D
  <2> QED
    BY <1>2, <2>2, <2>3
<1>4. n \in Nat /\ n <= Cardinality(D) /\ (~Linear => n = Cardinality(D))
  BY DEF PhaseOK
<1> HIDE DEF D
<1>5. /\ n + Cardinality(S) \in Nat
      /\ n + Cardinality(S) <= Cardinality(P \ (T \cup {}))
      /\ ~Linear => n + Cardinality(S) = Cardinality(P \ (T \cup {}))
  <2>1. n + Cardinality(S) \in Nat
    BY <1>2, <1>4
  <2>2. n + Cardinality(S) <= Cardinality(D \cup S)
    BY <1>2, <1>3, <1>4
  <2>3. ~Linear => n + Cardinality(S) = Cardinality(D \cup S)
    BY <1>3, <1>4
  <2> QED
    BY <1>1, <2>1, <2>2, <2>3
<1>6. Rest(T \cup {}, P) /\ T \cap {} = {} /\ Grouped({}, P) /\ T \cup {} = T
  <2>1. T \cup {} = T /\ T \cap {} = {}
    OBVIOUS
  <2> QED
    BY <2>1 DEF PhaseOK, Grouped
<1>7. ~Linear => FirstOf(P, n + Cardinality(S)) \subseteq P \ (T \cup {})
  BY <1>1, <1>5, <1>6, ActionsLineUp
<1> QED
  BY <1>5, <1>6, <1>7 DEF PhaseOK

\* A step that aborts leaves nothing ahead.
LEMMA PhaseStops ==
    ASSUME pipe \in Pipes, NEW P, NEW T, NEW S, NEW n,
           PhaseOK(P, T, S, n, FALSE)
    PROVE  PhaseOK(P, {}, {}, n, TRUE)
<1>1. /\ P \ (T \cup S) \subseteq P \ ({} \cup {})
      /\ P \ (T \cup S) \in SUBSET Steps /\ P \ ({} \cup {}) \in SUBSET Steps
  BY DEF PhaseOK
<1>2. /\ Cardinality(P \ (T \cup S)) <= Cardinality(P \ ({} \cup {}))
      /\ Cardinality(P \ (T \cup S)) \in Nat
      /\ Cardinality(P \ ({} \cup {})) \in Nat
  <2>1. IsFiniteSet(P \ ({} \cup {}))
    BY <1>1, StepsFinite
  <2>2. Cardinality(P \ (T \cup S)) <= Cardinality(P \ ({} \cup {}))
    BY <1>1, <2>1, FS_Subset
  <2> QED
    BY <1>1, <2>2, StepsFinite
<1>3. n \in Nat /\ n <= Cardinality(P \ ({} \cup {}))
  BY <1>2 DEF PhaseOK
<1>4. /\ Rest({}, P) /\ Rest({} \cup {}, P) /\ Grouped({}, P)
      /\ {} \cap {} = {}
  BY DEF Rest, Grouped
<1> QED
  BY <1>1, <1>3, <1>4 DEF PhaseOK

\* The actions of a phase are no more than its steps.
LEMMA PhaseCount ==
    ASSUME pipe \in Pipes, NEW P, NEW T, NEW S, NEW n, NEW stopped,
           PhaseOK(P, T, S, n, stopped)
    PROVE  n \in 0 .. Cardinality(Steps) /\ T \subseteq Steps
<1>1. P \ (T \cup S) \in SUBSET Steps
  BY DEF PhaseOK
<1>2. /\ Cardinality(P \ (T \cup S)) \in Nat /\ Cardinality(Steps) \in Nat
      /\ Cardinality(P \ (T \cup S)) <= Cardinality(Steps)
  BY <1>1, StepsFinite
<1>3. n \in Nat /\ n <= Cardinality(P \ (T \cup S)) /\ T \subseteq P /\ P \subseteq Steps
  BY DEF PhaseOK, Rest
<1> QED
  BY <1>2, <1>3

-----------------------------------------------------------------------------
(* A branch                                                                *)

\* What a step with foreach has collected once an element came to out.
Collected(s, out) ==
    IF out = Absent THEN branch[s].vals ELSE Append(branch[s].vals, out)

\* runStep has returned out for one element or iteration of a step.
LEMMA PassEffect ==
    ASSUME NEW s \in Steps, branch[s] \in BranchOf(s), branch[s].st = "run",
           NEW out \in Value, NEW b \in PassEnds(s, out)
    PROVE  /\ b \in BranchOf(s)
           /\ b.st \in {"ok", "run"} /\ b.out = out
           /\ \/ b.all = branch[s].all
              \/ Kind(s) = "each" /\ b.all = Collected(s, out)
           /\ b.st = "run" /\ Kind(s) = "each" =>
                 b.e = branch[s].e + 1 /\ b.vals = Collected(s, out)
<1> DEFINE c == [branch[s] EXCEPT !.out = out, !.try = 1]
           vals == IF out = Absent THEN c.vals ELSE Append(c.vals, out)
           last == [c EXCEPT !.st = "ok", !.vals = <<>>]
           whole1 == [last EXCEPT !.all = vals]
           more == [c EXCEPT !.e = @ + 1]
           more1 == [more EXCEPT !.vals = vals]
<1>1. /\ branch[s].e \in 0 .. Turns(s) - 1 /\ branch[s].vals \in Seq(Value)
      /\ branch[s].all \in {Absent} \cup Seq(Value)
  BY DEF BranchOf
<1>2. /\ c \in BranchOf(s) /\ c.e = branch[s].e /\ c.vals = branch[s].vals
      /\ c.out = out /\ c.all = branch[s].all /\ c.st = "run"
  <2>1. 1 \in 1 .. MaxTries
    BY RunnerAssumption
  <2> QED
    BY <2>1 DEF BranchOf
<1> HIDE DEF c
<1>3. vals = Collected(s, out) /\ vals \in Seq(Value)
  BY <1>1, <1>2 DEF Collected
<1> HIDE DEF vals
<1>4. /\ last \in BranchOf(s) /\ last.st = "ok" /\ last.out = out
      /\ last.all = branch[s].all
  <2>1. <<>> \in Seq(Value)
    OBVIOUS
  <2> QED
    BY <1>2, <2>1 DEF BranchOf
<1>5. /\ whole1 \in BranchOf(s) /\ whole1.st = "ok" /\ whole1.out = out
      /\ whole1.all = Collected(s, out)
  <2> HIDE DEF last
  <2> QED
    BY <1>3, <1>4 DEF BranchOf
<1>6. ASSUME branch[s].e + 1 \in 0 .. Turns(s) - 1
      PROVE  /\ more \in BranchOf(s) /\ more.st = "run" /\ more.out = out
             /\ more.all = branch[s].all /\ more.e = branch[s].e + 1
  BY <1>2, <1>6 DEF BranchOf
<1>7. ASSUME branch[s].e + 1 \in 0 .. Turns(s) - 1
      PROVE  /\ more1 \in BranchOf(s) /\ more1.st = "run" /\ more1.out = out
             /\ more1.all = branch[s].all /\ more1.e = branch[s].e + 1
             /\ more1.vals = Collected(s, out)
  <2> HIDE DEF more
  <2> QED
    BY <1>3, <1>6, <1>7 DEF BranchOf
<1>8. CASE Kind(s) = "each"
  <2>1. PassEnds(s, out) = {IF c.e + 1 = Elements THEN whole1 ELSE more1}
    BY <1>8 DEF PassEnds, c, vals
  <2>2. c.e + 1 = Elements \/ branch[s].e + 1 \in 0 .. Turns(s) - 1
    BY <1>1, <1>2, <1>8, RunnerAssumption DEF Turns
  <2> HIDE DEF last, whole1, more, more1
  <2> QED
    BY <1>5, <1>7, <1>8, <2>1, <2>2
<1>9. CASE Kind(s) = "loop" /\ out # Absent /\ c.e + 1 < MaxIter
  <2>1. PassEnds(s, out) = {last, more}
    BY <1>9 DEF PassEnds, c
  <2>2. branch[s].e + 1 \in 0 .. Turns(s) - 1
    BY <1>1, <1>2, <1>9, RunnerAssumption DEF Turns
  <2> HIDE DEF last, more
  <2> QED
    BY <1>4, <1>6, <1>9, <2>1, <2>2
<1>10. CASE Kind(s) # "each" /\ ~(Kind(s) = "loop" /\ out # Absent /\ c.e + 1 < MaxIter)
  <2>1. PassEnds(s, out) = {last}
    BY <1>10 DEF PassEnds, c
  <2> HIDE DEF last
  <2> QED
    BY <1>4, <1>10, <2>1
<1> QED
  BY <1>8, <1>9, <1>10

\* What a step of a branch leaves of it: a pass that returned something made for
\* this item and element, or nothing; or only its state and attempt move.
BranchMoves(s, b) ==
    /\ b \in BranchOf(s)
    /\ b.st # "idle"
    /\ \/ /\ b.out = branch[s].out /\ b.all = branch[s].all
          /\ b.vals = branch[s].vals /\ b.e = branch[s].e
       \/ \E out \in {Absent, Output(s)} :
             /\ b.out = out
             /\ \/ b.all = branch[s].all
                \/ Kind(s) = "each" /\ b.all = Collected(s, out)
             /\ b.st = "run" /\ Kind(s) = "each" =>
                   b.e = branch[s].e + 1 /\ b.vals = Collected(s, out)

\* What a step puts out is a value, never none.
LEMMA OutputIsValue ==
    ASSUME pipe \in Pipes, ctx \in Contexts, NEW s \in Steps, branch[s] \in BranchOf(s)
    PROVE  Output(s) \in Value /\ Absent \in Value /\ <<>> \in Seq(Value)
<1>1. branch[s].e \in 0 .. Turns(s) - 1
  BY DEF BranchOf
<1>2. branch[s].e \in 0 .. Elements + MaxIter
  BY <1>1, RunnerAssumption DEF Turns
<1>3. ctx.item \in (0 .. pipe.items - 1) \cup {Absent}
  BY DEF Contexts, ContextsOf
<1> QED
  BY <1>2, <1>3 DEF Output, Value, ValueOf

\* A step that runs moves its own branch only.
LEMMA BranchEffect ==
    ASSUME pipe \in Pipes, ctx \in Contexts, BranchesOK, NEW s \in Steps, RunStep(s)
    PROVE  \E b : branch' = [branch EXCEPT ![s] = b] /\ BranchMoves(s, b)
<1>1. branch[s] \in BranchOf(s) /\ Running(s)
  BY RunStepIsInBranch DEF BranchesOK
<1>2. branch[s].st = "run"
  BY <1>1 DEF Running
<1>3. Output(s) \in Value /\ Absent \in Value
  BY <1>1, OutputIsValue
<1>4. ASSUME NEW out \in {Absent, Output(s)}, PassedWith(s, out)
      PROVE  \E b : branch' = [branch EXCEPT ![s] = b] /\ BranchMoves(s, b)
  <2>1. PICK b \in PassEnds(s, out) : branch' = [branch EXCEPT ![s] = b]
    BY <1>4 DEF PassedWith
  <2>2. BranchMoves(s, b)
    BY <1>1, <1>2, <1>3, PassEffect DEF BranchMoves
  <2> QED
    BY <2>1, <2>2
<1>5. ASSUME NEW st \in {"ok", "stop", "err", "cut"}, Becomes(s, st)
      PROVE  \E b : branch' = [branch EXCEPT ![s] = b] /\ BranchMoves(s, b)
  <2> DEFINE b == [branch[s] EXCEPT !.st = st]
  <2>1. branch' = [branch EXCEPT ![s] = b]
    BY <1>5 DEF Becomes
  <2>2. b \in BranchOf(s) /\ b.st = st /\ b.out = branch[s].out /\ b.all = branch[s].all
        /\ b.vals = branch[s].vals /\ b.e = branch[s].e
    BY <1>1 DEF BranchOf
  <2> HIDE DEF b
  <2> QED
    BY <2>1, <2>2 DEF BranchMoves
<1>6. ASSUME Retry(s)
      PROVE  \E b : branch' = [branch EXCEPT ![s] = b] /\ BranchMoves(s, b)
  <2> DEFINE b == [branch[s] EXCEPT !.try = @ + 1]
  <2>1. branch' = [branch EXCEPT ![s] = b]
    BY <1>6 DEF Retry
  <2>2. branch[s].try \in 1 .. MaxTries /\ branch[s].try + 1 \in 1 .. MaxTries
    BY <1>1, <1>6, RunnerAssumption DEF Retry, BranchOf
  <2>3. b \in BranchOf(s) /\ b.st = "run" /\ b.out = branch[s].out /\ b.all = branch[s].all
        /\ b.vals = branch[s].vals /\ b.e = branch[s].e
    BY <1>1, <1>2, <2>2 DEF BranchOf
  <2> HIDE DEF b
  <2> QED
    BY <2>1, <2>3 DEF BranchMoves
<1>7. CASE Succeed(s) \/ Skip(s) \/ Decide(s)
  BY <1>4, <1>5, <1>7 DEF Succeed, Skip, Decide
<1>8. CASE BreakContract(s) \/ PassOver(s) \/ PlatformError(s) \/ Stop(s) \/ Cut(s)
  BY <1>5, <1>8 DEF BreakContract, PassOver, PlatformError, Stop, Cut
<1> QED
  BY <1>6, <1>7, <1>8 DEF RunStep

-----------------------------------------------------------------------------
(* Where the steps are                                                     *)

\* The phase a step leads to is one of the same pipeline.
LEMMA InPhaseThen ==
    ASSUME [Next]_vars
    PROVE  InPhase(stage)' <=> PhaseOK(StepsOf(stage'), todo', seg', acted', aborted')
<1>1. StepsOf(stage)' = StepsOf(stage')
  BY SamePipe DEF StepsOf
<1>2. \A T, P : Grouped(T, P)' = Grouped(T, P)
  BY SameSteps DEF Grouped
<1>3. \A P, T, S, n, a : PhaseOK(P, T, S, n, a)' = PhaseOK(P, T, S, n, a)
  BY <1>2, SamePipe DEF PhaseOK, Rest, FirstOf
<1> QED
  BY <1>1, <1>3 DEF InPhase

\* A step that moves no place in the pipeline keeps the places.
LEMMA PlacesQuiet ==
    ASSUME Places, [Next]_vars, UNCHANGED <<todo, seg, acted, aborted, branch, skip>>,
           stage' = stage \/ stage' \notin Phases
    PROVE  Places'
<1>1. stage' \in Phases => InPhase(stage)'
  BY InPhaseThen DEF Places, InPhase
<1> QED
  BY <1>1, SamePipe DEF Places

\* A phase that is entered has all its steps ahead.
LEMMA PlacesEnter ==
    ASSUME Typed, Places, [Next]_vars, NEW name \in Phases \cup {"head"},
           NEW S \in SUBSET Steps, name \in Phases => S = StepsOf(name),
           EnterPhase(name, S), seg' = {}, skip' = skip
    PROVE  Places'
<1>1. stage' = name /\ todo' = S /\ acted' = 0 /\ aborted' = FALSE
  BY DEF EnterPhase
<1>2. pipe \in Pipes /\ 0 \in 0 .. Cardinality(Steps)
  BY StepsFinite DEF Typed
<1>3. stage' \in Phases => InPhase(stage)'
  <2>1. PhaseOK(S, S, {}, 0, FALSE)
    BY <1>2, PhaseBegins
  <2> QED
    BY <1>1, <2>1, InPhaseThen
<1> QED
  BY <1>1, <1>2, <1>3, SamePipe DEF Places

\* The next segment is taken from what is ahead, or passed over.
LEMMA PlacesSegment ==
    ASSUME Typed, Places, [Next]_vars, NextSegment
    PROVE  Places'
<1> DEFINE P == StepsOf(stage)
<1>1. /\ stage \in Phases /\ stage' = stage /\ seg = {} /\ todo # {}
      /\ aborted = FALSE /\ acted' = acted /\ aborted' = FALSE /\ skip' = skip
      /\ todo' = todo \ Segment(todo)
  BY DEF NextSegment, actVars, procVars, Places
<1>2. pipe \in Pipes /\ PhaseOK(P, todo, {}, acted, FALSE) /\ todo \in SUBSET Steps
  BY <1>1 DEF Typed, Places, InPhase
<1>3. Segment(todo) \subseteq todo /\ Segment(todo) # {}
  BY <1>1, <1>2, SegmentShape
<1> HIDE DEF P
<1>4. CASE Segment(todo) \subseteq skip /\ UNCHANGED segVars
  <2>1. Linear
    BY <1>3, <1>4 DEF Places
  <2>2. PhaseOK(P, todo', seg', acted', aborted')
    BY <1>1, <1>2, <1>4, <2>1, PhaseSkips DEF segVars
  <2>3. InPhase(stage)'
    BY <1>1, <2>2, InPhaseThen DEF P
  <2> QED
    BY <1>1, <1>2, <1>4, <2>3, SamePipe DEF Places, segVars
<1>5. CASE /\ seg' = Segment(todo)
           /\ branch' = [s \in Steps |->
                            IF s \in Segment(todo) THEN BeginBranch(s) ELSE Idle]
  <2>1. PhaseOK(P, todo', seg', acted', aborted')
    BY <1>1, <1>2, <1>5, PhaseGoes
  <2>2. InPhase(stage)'
    BY <1>1, <2>1, InPhaseThen DEF P
  <2>3. \A s \in seg' : branch'[s].st # "idle"
    <3>1. \A s \in seg' : branch'[s] = BeginBranch(s)
      BY <1>2, <1>3, <1>5
    <3>2. \A s \in seg' : BeginBranch(s).st = "run"
      BY DEF BeginBranch, Idle
    <3> QED
      BY <3>1, <3>2
  <2> QED
    BY <1>1, <1>2, <1>3, <1>5, <2>2, <2>3, SamePipe DEF Places
<1> QED
  BY <1>4, <1>5 DEF NextSegment

\* The end of a step or group moves its segment to what is done.
LEMMA PlacesBarrier ==
    ASSUME Typed, Branches, Places, [Next]_vars, EndStep \/ EndGroup
    PROVE  Places'
<1> DEFINE P == StepsOf(stage)
<1>1. /\ seg # {} /\ stage \in Phases /\ aborted = FALSE /\ seg' = {} /\ skip' = skip
  BY DEF EndStep, EndGroup, EndSegment, Returned, Branches, Places, procVars
<1>2. /\ pipe \in Pipes /\ PhaseOK(P, todo, seg, acted, FALSE) /\ todo \in SUBSET Steps
      /\ seg \subseteq P
  <2>1. PhaseOK(P, todo, seg, acted, FALSE)
    BY <1>1 DEF Places, InPhase
  <2> QED
    BY <2>1 DEF Typed, Places, PhaseOK, Rest
<1> HIDE DEF P
<1>3. CASE /\ stage' = stage /\ todo' = todo /\ aborted' = aborted
           /\ acted' = acted + Cardinality(seg)
  <2>1. PhaseOK(P, todo', seg', acted', aborted')
    BY <1>1, <1>2, <1>3, PhaseEnds
  <2>2. acted' \in 0 .. Cardinality(Steps)
    BY <1>2, <2>1, PhaseCount
  <2>3. InPhase(stage)'
    BY <1>3, <2>1, InPhaseThen DEF P
  <2> QED
    BY <1>1, <1>2, <1>3, <2>2, <2>3, SamePipe DEF Places
<1>4. CASE stage' = stage /\ todo' = {} /\ aborted' = TRUE /\ acted' = acted
  <2>1. PhaseOK(P, todo', seg', acted', aborted')
    BY <1>1, <1>2, <1>4, PhaseStops
  <2>2. InPhase(stage)'
    BY <1>4, <2>1, InPhaseThen DEF P
  <2> QED
    BY <1>1, <1>2, <1>4, <2>2, SamePipe DEF Places
<1>5. CASE stage' = "failing" /\ UNCHANGED <<todo, acted, aborted>>
  BY <1>1, <1>2, <1>5, SamePipe DEF Places, Phases
<1>6. CASE EndStep
  <2>1. Cardinality(seg) = 1
    BY <1>6 DEF EndStep
  <2>2. CASE Bad = {}
    <3>1. ~\E s \in seg : branch[s].st = "stop"
      BY <2>2 DEF Bad
    <3>2. acted' = acted + 1 /\ UNCHANGED <<stage, todo, aborted>>
      BY <1>6, <2>2, <3>1 DEF EndStep
    <3> QED
      BY <1>3, <2>1, <3>2
  <2>3. CASE Bad # {} /\ \E s \in seg : branch[s].st = "stop"
    BY <1>4, <1>6, <2>3 DEF EndStep
  <2>4. CASE Bad # {} /\ ~\E s \in seg : branch[s].st = "stop"
    BY <1>5, <1>6, <2>4 DEF EndStep, GiveUp, actVars
  <2> QED
    BY <2>2, <2>3, <2>4
<1>7. CASE EndGroup
  BY <1>3, <1>5, <1>7 DEF EndGroup, GiveUp
<1> QED
  BY <1>6, <1>7

\* What a phase holds is kept by every step of the run.
LEMMA PlacesStep ==
    ASSUME Typed, Branches, Values, Places, [Next]_vars
    PROVE  Places'
<1>1. CASE Start
  <2>1. PreSteps \subseteq Steps /\ StepsOf("pre") = PreSteps /\ "pre" \in Phases
        /\ "head" \notin Phases
    BY PreAreSteps DEF Typed, StepsOf, Phases
  <2>2. seg = {} /\ seg' = {} /\ skip' = skip
    BY <1>1 DEF Start, segVars, procVars, Branches, Phases
  <2>3. EnterPhase("head", PreSteps) \/ EnterPhase("pre", PreSteps)
    BY <1>1 DEF Start
  <2> QED
    BY <2>1, <2>2, <2>3, PlacesEnter
<1>2. CASE Resume
  <2>1. /\ todo' = {} /\ seg' = {} /\ acted' = 0 /\ aborted' = FALSE
        /\ skip' = DoneSteps /\ stage' \notin Phases
    BY <1>2 DEF Resume, Phases
  <2>2. DoneSteps \subseteq Steps /\ (~Linear => DoneSteps = {})
    BY DEF DoneSteps, Typed, JournalType
  <2>3. 0 \in 0 .. Cardinality(Steps)
    BY StepsFinite DEF Typed
  <2> QED
    BY <2>1, <2>2, <2>3, SamePipe DEF Places
<1>3. CASE Crash
  <2>1. /\ todo' = {} /\ seg' = {} /\ acted' = 0 /\ aborted' = FALSE
        /\ skip' = {} /\ stage' \notin Phases
    BY <1>3 DEF Crash, Phases
  <2>2. 0 \in 0 .. Cardinality(Steps)
    BY StepsFinite DEF Typed
  <2> QED
    BY <2>1, <2>2, SamePipe DEF Places
<1>4. CASE Cancel \/ UNCHANGED vars
  BY <1>4, PlacesQuiet DEF Cancel, vars, segVars, actVars
<1>5. CASE StartItem \/ StartPost
  <2>1. LoopSteps \subseteq Steps /\ PostSteps \subseteq Steps
    BY PhasesOfSteps
  <2>2. StepsOf("item") = LoopSteps /\ StepsOf("post") = PostSteps
    BY DEF StepsOf
  <2>3. seg = {} /\ seg' = {} /\ skip' = skip
    BY <1>5 DEF StartItem, StartPost, segVars, procVars, Branches, Phases
  <2>4. EnterPhase("item", LoopSteps) \/ EnterPhase("post", PostSteps)
    BY <1>5 DEF StartItem, StartPost
  <2>5. "item" \in Phases /\ "post" \in Phases
    BY DEF Phases
  <2> QED
    BY <2>1, <2>2, <2>3, <2>4, <2>5, PlacesEnter
<1>6. CASE SegmentCancelled \/ ItemCancelled \/ EndPre \/ EndItem
  BY <1>6, PlacesQuiet DEF SegmentCancelled, ItemCancelled, EndPre, EndItem, GiveUp,
     segVars, actVars, procVars, Phases
<1>7. CASE Seal \/ EndPost \/ Finish \/ FailEvent \/ FailSnapshot
  BY <1>7, PlacesQuiet DEF Seal, EndPost, Finish, FailEvent, FailSnapshot,
     segVars, actVars, procVars, Phases
<1>8. ASSUME NEW s \in Steps, RunStep(s)
      PROVE  Places'
  <2>1. UNCHANGED <<stage, todo, seg, acted, aborted, skip>>
    BY <1>8, RunStepIsInBranch DEF InBranch, actVars, procVars
  <2>2. PICK b : branch' = [branch EXCEPT ![s] = b] /\ BranchMoves(s, b)
    BY <1>8, BranchEffect DEF Values, Typed
  <2>3. \A t \in Steps : branch'[t] = IF t = s THEN b ELSE branch[t]
    BY <2>2 DEF Values, BranchesOK
  <2>4. \A t \in seg : branch'[t].st # "idle"
    BY <2>2, <2>3 DEF BranchMoves, Places
  <2>5. stage' \in Phases => InPhase(stage)'
    BY <2>1, InPhaseThen DEF Places, InPhase
  <2> QED
    BY <2>1, <2>4, <2>5, SamePipe DEF Places
<1> QED
  BY <1>1, <1>2, <1>3, <1>4, <1>5, <1>6, <1>7, <1>8, PlacesSegment, PlacesBarrier
     DEF Next, Proceed

-----------------------------------------------------------------------------
(* Contexts and lists                                                      *)

\* A context is an item, an output for each step and a list for each step.
LEMMA ContextShape ==
    Contexts = [item : Items \cup {Absent}, out : [Steps -> Value],
                all : [Steps -> {Absent} \cup Seq(Value)]]
  BY DEF Contexts, ContextsOf, Items, Steps, Value

\* Merged: the outputs of the segment are in the context, the rest is as before.
LEMMA MergedIs ==
    ASSUME ctx \in Contexts, BranchesOK, seg \subseteq Steps
    PROVE  /\ Merged \in Contexts /\ Merged.item = ctx.item
           /\ \A s \in Steps :
                 /\ Merged.out[s] = IF s \in seg THEN branch[s].out ELSE ctx.out[s]
                 /\ Merged.all[s] = IF s \in seg THEN branch[s].all ELSE ctx.all[s]
<1> DEFINE out == [s \in Steps |-> IF s \in seg THEN branch[s].out ELSE ctx.out[s]]
           all == [s \in Steps |-> IF s \in seg THEN branch[s].all ELSE ctx.all[s]]
<1>1. /\ ctx.item \in Items \cup {Absent} /\ ctx.out \in [Steps -> Value]
      /\ ctx.all \in [Steps -> {Absent} \cup Seq(Value)]
      /\ ctx = [item |-> ctx.item, out |-> ctx.out, all |-> ctx.all]
  BY ContextShape
<1>2. \A s \in Steps : branch[s].out \in Value /\ branch[s].all \in {Absent} \cup Seq(Value)
  BY DEF BranchesOK, BranchOf
<1>3. out \in [Steps -> Value] /\ all \in [Steps -> {Absent} \cup Seq(Value)]
  BY <1>1, <1>2
<1>4. Merged = [item |-> ctx.item, out |-> out, all |-> all]
  <2>1. Merged = [ctx EXCEPT !.out = out, !.all = all]
    BY DEF Merged
  <2> HIDE DEF out, all
  <2> QED
    BY <1>1, <2>1
<1>5. [item |-> ctx.item, out |-> out, all |-> all] \in Contexts
  <2> HIDE DEF out, all
  <2> QED
    BY <1>1, <1>3, ContextShape
<1> QED
  BY <1>4, <1>5

\* Putting the aggregates into a context changes only the lists of steps without
\* foreach.
LEMMA AggregatesIn ==
    ASSUME NEW c \in Contexts, NEW a, ListsOK(a)
    PROVE  /\ WithAggregates(c, a) \in Contexts
           /\ WithAggregates(c, a).item = c.item /\ WithAggregates(c, a).out = c.out
           /\ \A s \in Steps : Kind(s) = "each" => WithAggregates(c, a).all[s] = c.all[s]
<1> DEFINE all == [s \in Steps |-> IF s \in LoopSteps /\ Kind(s) # "each" /\ a[s] # <<>>
                                   THEN a[s] ELSE c.all[s]]
<1>1. /\ c.item \in Items \cup {Absent} /\ c.out \in [Steps -> Value]
      /\ c.all \in [Steps -> {Absent} \cup Seq(Value)]
      /\ c = [item |-> c.item, out |-> c.out, all |-> c.all]
  BY ContextShape
<1>2. \A s \in Steps : Kind(s) # "each" => a[s] \in Seq(Value)
  BY DEF ListsOK, Yields
<1>3. all \in [Steps -> {Absent} \cup Seq(Value)]
  BY <1>1, <1>2
<1>4. WithAggregates(c, a) = [item |-> c.item, out |-> c.out, all |-> all]
  BY <1>1 DEF WithAggregates
<1>5. [item |-> c.item, out |-> c.out, all |-> all] \in Contexts
  <2> HIDE DEF all
  <2> QED
    BY <1>1, <1>3, ContextShape
<1> QED
  BY <1>4, <1>5

\* Before an item the outputs of the chain are forgotten.
LEMMA ItemContext ==
    ASSUME pipe \in Pipes, ctx \in Contexts, StartItem, item \in Nat
    PROVE  /\ ctx' \in Contexts /\ ctx'.item = Loaded
           /\ \A s \in Steps : /\ ctx'.out[s] = IF s \in Stale THEN Absent ELSE ctx.out[s]
                               /\ ctx'.all[s] = IF s \in Stale THEN Absent ELSE ctx.all[s]
<1>1. /\ ctx.item \in Items \cup {Absent} /\ ctx.out \in [Steps -> Value]
      /\ ctx.all \in [Steps -> {Absent} \cup Seq(Value)]
  BY ContextShape
<1>2. Absent \in Value
  BY DEF Value, ValueOf
<1>3. Loaded \in Items \cup {Absent}
  BY SomeItems DEF Loaded, StartItem
<1> DEFINE out == Without(ctx.out, Stale)
           all == Without(ctx.all, Stale)
<1>4. out \in [Steps -> Value] /\ all \in [Steps -> {Absent} \cup Seq(Value)]
  BY <1>1, <1>2 DEF Without
<1>5. /\ \A s \in Steps : out[s] = IF s \in Stale THEN Absent ELSE ctx.out[s]
      /\ \A s \in Steps : all[s] = IF s \in Stale THEN Absent ELSE ctx.all[s]
  BY DEF Without
<1>6. ctx' = [item |-> Loaded, out |-> out, all |-> all]
  BY DEF StartItem
<1> HIDE DEF out, all
<1>7. [item |-> Loaded, out |-> out, all |-> all] \in Contexts
  BY <1>3, <1>4, ContextShape
<1> QED
  BY <1>5, <1>6, <1>7

\* What runWithStore takes from a step for its aggregate.
LEMMA YieldIs ==
    ASSUME NEW c \in Contexts, NEW s \in Steps, Yield(c, s) # Absent
    PROVE  Yield(c, s) \in Yields(s)
<1>1. c.out[s] \in Value /\ c.all[s] \in {Absent} \cup Seq(Value)
  BY ContextShape
<1> QED
  BY <1>1 DEF Yield, Yields

\* Aggregates stay lists of outputs.
LEMMA AggregatedIs ==
    ASSUME ctx \in Contexts, ListsOK(agg)
    PROVE  ListsOK(Aggregated)
<1>1. ASSUME NEW s \in Steps
      PROVE  Aggregated[s] \in Seq(Yields(s))
  <2>1. agg[s] \in Seq(Yields(s))
    BY DEF ListsOK
  <2>2. Aggregated[s] = agg[s]
        \/ (Yield(ctx, s) # Absent /\ Aggregated[s] = Append(agg[s], Yield(ctx, s)))
    BY DEF Aggregated
  <2>3. Yield(ctx, s) # Absent => Yield(ctx, s) \in Yields(s)
    BY YieldIs
  <2> QED
    BY <2>1, <2>2, <2>3
<1> QED
  BY <1>1 DEF ListsOK, Aggregated

\* So does the history of what was made.
LEMMA RememberedIs ==
    ASSUME NEW c \in Contexts, ListsOK(made), Remember(c)
    PROVE  /\ made' = [s \in Steps |-> made'[s]]
           /\ \A s \in Steps : made'[s] \in Seq(Yields(s))
<1>1. ASSUME NEW s \in Steps
      PROVE  made'[s] \in Seq(Yields(s))
  <2>1. made[s] \in Seq(Yields(s))
    BY DEF ListsOK
  <2>2. made'[s] = made[s]
        \/ (Yield(c, s) # Absent /\ made'[s] = Append(made[s], Yield(c, s)))
    BY DEF Remember
  <2>3. Yield(c, s) # Absent => Yield(c, s) \in Yields(s)
    BY YieldIs
  <2> QED
    BY <2>1, <2>2, <2>3
<1> QED
  BY <1>1 DEF Remember

\* A fresh context, no aggregates and no branches have their types.
LEMMA NothingYet ==
    /\ Fresh \in Contexts
    /\ ListsOK(NoAgg)
    /\ pipe \in Pipes => /\ NoBranch = [s \in Steps |-> NoBranch[s]]
                         /\ \A s \in Steps : NoBranch[s] \in BranchOf(s)
<1>1. Absent \in Value
  BY DEF Value, ValueOf
<1>2. Fresh \in Contexts
  BY <1>1, ContextShape DEF Fresh, Nothing
<1>3. ListsOK(NoAgg)
  BY DEF ListsOK, NoAgg
<1>4. ASSUME NEW s \in Steps
      PROVE  Idle \in BranchOf(s)
  <2>1. Turns(s) \in Nat \ {0} /\ 1 \in 1 .. MaxTries
    BY RunnerAssumption DEF Turns
  <2>2. 0 \in 0 .. Turns(s) - 1
    BY <2>1
  <2>3. <<>> \in Seq(Value)
    OBVIOUS
  <2> QED
    BY <1>1, <2>1, <2>2, <2>3 DEF Idle, BranchOf
<1> QED
  BY <1>2, <1>3, <1>4 DEF NoBranch

\* A step of a live process writes at most one event or one snapshot, which is
\* the context as it leaves it.
LEMMA WritesOnce ==
    ASSUME Proceed
    PROVE  UNCHANGED ioVars \/ Save(ctx') \/ \E j : Log(j)
<1>1. ASSUME NEW s \in Steps, RunStep(s)
      PROVE  UNCHANGED ioVars \/ \E j : Log(j)
  BY <1>1 DEF RunStep, Succeed, BreakContract, PassOver, PlatformError, Retry, Skip,
         Stop, Decide, Cut, StepEnd
<1>2. CASE EndStep \/ EndGroup \/ SegmentCancelled \/ NextSegment \/ ItemCancelled
  BY <1>2 DEF EndStep, EndGroup, SegmentCancelled, NextSegment, ItemCancelled
<1>3. CASE EndPre \/ StartItem \/ Seal \/ EndItem \/ StartPost
  BY <1>3 DEF EndPre, StartItem, Seal, EndItem, StartPost
<1>4. CASE EndPost \/ Finish \/ FailEvent \/ FailSnapshot
  BY <1>4 DEF EndPost, Finish, FailEvent, FailSnapshot
<1> QED
  BY <1>1, <1>2, <1>3, <1>4 DEF Proceed

\* A snapshot that reaches the disk is the context.
LEMMA DiskIsContext ==
    ASSUME [Next]_vars
    PROVE  disk' = disk \/ disk' = ctx'
<1>1. CASE Proceed
  BY <1>1, WritesOnce DEF ioVars, Save, Log
<1>2. CASE ~Proceed
  BY <1>2 DEF Next, Start, Log, Resume, Cancel, Crash, ioVars, vars
<1> QED
  BY <1>1, <1>2

\* Failing writes are counted.
LEMMA FaultsStep ==
    ASSUME faults \in 0 .. MaxFaults, [Next]_vars
    PROVE  faults' \in 0 .. MaxFaults
<1>1. MaxFaults \in Nat
  BY RunnerAssumption
<1>2. ASSUME NEW n \in {1, 2}, Fail(n)
      PROVE  faults' \in 0 .. MaxFaults
  BY <1>1, <1>2 DEF Fail
<1>3. ASSUME NEW j, Log(j)
      PROVE  faults' \in 0 .. MaxFaults
  BY <1>2, <1>3 DEF Log
<1>4. ASSUME NEW c, Save(c)
      PROVE  faults' \in 0 .. MaxFaults
  BY <1>2, <1>4 DEF Save, NoteLoss
<1>5. CASE Proceed
  BY <1>3, <1>4, <1>5, WritesOnce DEF ioVars
<1>6. CASE Start \/ Resume
  BY <1>2, <1>3, <1>6 DEF Start, Resume
<1>7. CASE Cancel \/ Crash \/ UNCHANGED vars
  BY <1>7 DEF Cancel, Crash, ioVars, vars
<1> QED
  BY <1>5, <1>6, <1>7 DEF Next

\* A step leads from stage to stage.
LEMMA StageStep ==
    ASSUME stage \in Stages, [Next]_vars
    PROVE  stage' \in Stages
<1>1. ASSUME NEW s \in Steps, RunStep(s)
      PROVE  stage' = stage
  BY <1>1, RunStepIsInBranch DEF InBranch
<1>2. CASE Start \/ Resume \/ Cancel \/ Crash \/ UNCHANGED vars
  BY <1>2 DEF Start, EnterPhase, Resume, Cancel, Crash, vars, Stages, Working, Phases
<1>3. CASE EndStep \/ EndGroup \/ SegmentCancelled \/ NextSegment \/ ItemCancelled
  BY <1>3 DEF EndStep, EndGroup, SegmentCancelled, NextSegment, ItemCancelled, GiveUp,
     Stages, Working
<1>4. CASE EndPre \/ StartItem \/ Seal \/ EndItem \/ StartPost
  BY <1>4 DEF EndPre, StartItem, Seal, EndItem, StartPost, EnterPhase,
     Stages, Working, Phases
<1>5. CASE EndPost \/ Finish \/ FailEvent \/ FailSnapshot
  BY <1>5 DEF EndPost, Finish, FailEvent, FailSnapshot, Stages, Working
<1> QED
  BY <1>1, <1>2, <1>3, <1>4, <1>5 DEF Next, Proceed

\* What moves in a step, by variable.
LEMMA BranchMovers ==
    ASSUME Branches, [Next]_vars
    PROVE  \/ UNCHANGED branch
           \/ branch' = NoBranch
           \/ NextSegment /\ branch' = [s \in Steps |->
                  IF s \in Segment(todo) THEN BeginBranch(s) ELSE Idle]
           \/ \E s \in Steps : RunStep(s)
<1>1. CASE Start \/ Resume \/ Cancel \/ Crash \/ UNCHANGED vars
  BY <1>1 DEF Start, Resume, Cancel, Crash, vars, segVars
<1>2. CASE EndStep \/ EndGroup \/ SegmentCancelled \/ NextSegment \/ ItemCancelled
  BY <1>2 DEF EndStep, EndGroup, EndSegment, SegmentCancelled, NextSegment, ItemCancelled,
     segVars
<1>3. CASE EndPre \/ StartItem \/ Seal \/ EndItem \/ StartPost
  BY <1>3 DEF EndPre, StartItem, Seal, EndItem, StartPost, segVars
<1>4. CASE EndPost \/ Finish \/ FailEvent \/ FailSnapshot
  BY <1>4 DEF EndPost, Finish, FailEvent, FailSnapshot, segVars
<1> QED
  BY <1>1, <1>2, <1>3, <1>4 DEF Next, Proceed

\* What may change the context.
LEMMA ContextMovers ==
    ASSUME [Next]_vars
    PROVE  \/ UNCHANGED ctx
           \/ Resume /\ disk # Absent /\ ctx' = disk
           \/ Crash /\ ctx' = Fresh
           \/ (EndStep \/ EndGroup) /\ ctx' = Merged
           \/ StartItem
           \/ Seal /\ ~Linear /\ ctx' = WithAggregates(ctx, Aggregated)
           \/ StartPost /\ ctx' = WithAggregates(ctx, agg)
<1>1. ASSUME NEW s \in Steps, RunStep(s)
      PROVE  ctx' = ctx
  BY <1>1, RunStepIsInBranch DEF InBranch
<1>2. CASE Start \/ Resume \/ Cancel \/ Crash \/ UNCHANGED vars
  BY <1>2 DEF Start, Resume, Cancel, Crash, vars
<1>3. CASE EndStep \/ EndGroup
  BY <1>3 DEF EndStep, EndGroup
<1>4. CASE SegmentCancelled \/ NextSegment \/ ItemCancelled \/ EndPre
  BY <1>4 DEF SegmentCancelled, NextSegment, ItemCancelled, EndPre
<1>5. CASE StartItem \/ Seal \/ EndItem \/ StartPost
  BY <1>5 DEF StartItem, Seal, EndItem, StartPost
<1>6. CASE EndPost \/ Finish \/ FailEvent \/ FailSnapshot
  BY <1>6 DEF EndPost, Finish, FailEvent, FailSnapshot
<1> QED
  BY <1>1, <1>2, <1>3, <1>4, <1>5, <1>6 DEF Next, Proceed

\* What may change the aggregates and the history of what was made.
LEMMA ListMovers ==
    ASSUME [Next]_vars
    PROVE  /\ agg' = agg \/ (Seal /\ agg' = Aggregated) \/ agg' = NoAgg
           /\ \/ made' = made
              \/ (EndStep \/ EndGroup) /\ Remember(ctx')
              \/ made' = NoAgg
<1>1. ASSUME NEW s \in Steps, RunStep(s)
      PROVE  agg' = agg /\ made' = made
  BY <1>1, RunStepIsInBranch DEF InBranch, pastVars
<1>2. CASE Start \/ Resume \/ Cancel \/ Crash \/ UNCHANGED vars
  BY <1>2 DEF Start, Resume, Cancel, Crash, vars, pastVars
<1>3. CASE EndStep \/ EndGroup
  BY <1>3 DEF EndStep, EndGroup, EndSegment, pastVars
<1>4. CASE SegmentCancelled \/ NextSegment \/ ItemCancelled \/ EndPre
  BY <1>4 DEF SegmentCancelled, NextSegment, ItemCancelled, EndPre, pastVars
<1>5. CASE StartItem \/ Seal \/ EndItem \/ StartPost
  BY <1>5 DEF StartItem, Seal, EndItem, StartPost, pastVars
<1>6. CASE EndPost \/ Finish \/ FailEvent \/ FailSnapshot
  BY <1>6 DEF EndPost, Finish, FailEvent, FailSnapshot, pastVars
<1> QED
  BY <1>1, <1>2, <1>3, <1>4, <1>5, <1>6 DEF Next, Proceed

\* Branches keep their types, retries and iterations their limits.
LEMMA BranchesOKStep ==
    ASSUME Typed, Branches, Values, Places, [Next]_vars
    PROVE  BranchesOK'
<1> SUFFICES /\ branch' = [s \in Steps |-> branch'[s]]
             /\ \A s \in Steps : branch'[s] \in BranchOf(s)
  BY SamePipe, SameSteps DEF BranchesOK
<1>1. CASE UNCHANGED branch
  BY <1>1 DEF Values, BranchesOK
<1>2. CASE branch' = NoBranch
  BY <1>2, NothingYet DEF Typed
<1>3. CASE NextSegment /\ branch' = [s \in Steps |->
                  IF s \in Segment(todo) THEN BeginBranch(s) ELSE Idle]
  <2>1. ASSUME NEW s \in Steps
        PROVE  Idle \in BranchOf(s) /\ BeginBranch(s) \in BranchOf(s)
    <3>1. Idle \in BranchOf(s)
      BY NothingYet DEF Typed, NoBranch
    <3>2. ctx.out[s] \in Value /\ ctx.all[s] \in {Absent} \cup Seq(Value)
      BY ContextShape DEF Values
    <3> QED
      BY <3>1, <3>2 DEF BeginBranch, BranchOf
  <2> QED
    BY <1>3, <2>1
<1>4. ASSUME NEW s \in Steps, RunStep(s)
      PROVE  /\ branch' = [t \in Steps |-> branch'[t]]
             /\ \A t \in Steps : branch'[t] \in BranchOf(t)
  <2>1. PICK b : branch' = [branch EXCEPT ![s] = b] /\ BranchMoves(s, b)
    BY <1>4, BranchEffect DEF Values, Typed
  <2> QED
    BY <2>1 DEF Values, BranchesOK, BranchMoves
<1> QED
  BY <1>1, <1>2, <1>3, <1>4, BranchMovers

\* The context keeps its type.
LEMMA ContextStep ==
    ASSUME Typed, Values, Places, [Next]_vars
    PROVE  ctx' \in Contexts
<1>1. ctx \in Contexts /\ BranchesOK /\ seg \subseteq Steps /\ ListsOK(agg)
      /\ disk \in Contexts \cup {Absent} /\ pipe \in Pipes
  BY DEF Values, Places, Typed
<1>2. CASE UNCHANGED ctx
  BY <1>1, <1>2
<1>3. CASE Resume /\ disk # Absent /\ ctx' = disk
  BY <1>1, <1>3
<1>4. CASE Crash /\ ctx' = Fresh
  BY <1>4, NothingYet
<1>5. CASE (EndStep \/ EndGroup) /\ ctx' = Merged
  BY <1>1, <1>5, MergedIs
<1>6. CASE StartItem
  <2>1. item \in Nat
    BY SomeItems DEF Typed
  <2> QED
    BY <1>1, <1>6, <2>1, ItemContext
<1>7. CASE Seal /\ ctx' = WithAggregates(ctx, Aggregated)
  BY <1>1, <1>7, AggregatedIs, AggregatesIn
<1>8. CASE StartPost /\ ctx' = WithAggregates(ctx, agg)
  BY <1>1, <1>8, AggregatesIn
<1> QED
  BY <1>2, <1>3, <1>4, <1>5, <1>6, <1>7, <1>8, ContextMovers

\* The lists keep theirs.
LEMMA ListsStep ==
    ASSUME Typed, Values, Places, [Next]_vars
    PROVE  ListsOK(agg)' /\ ListsOK(made)'
<1> DEFINE OK(lists) == /\ lists = [s \in Steps |-> lists[s]]
                        /\ \A s \in Steps : lists[s] \in Seq(Yields(s))
<1> SUFFICES OK(agg') /\ OK(made')
  BY SamePipe, SameSteps DEF ListsOK
<1>1. ctx \in Contexts /\ ListsOK(agg) /\ ListsOK(made) /\ ctx' \in Contexts
  BY ContextStep DEF Values
<1>2. OK(NoAgg) /\ OK(agg) /\ OK(made) /\ OK(Aggregated)
  BY <1>1, NothingYet, AggregatedIs DEF ListsOK
<1>3. Remember(ctx') => OK(made')
  BY <1>1, RememberedIs
<1> HIDE DEF OK
<1> QED
  BY <1>2, <1>3, ListMovers

\* All values keep their types.
LEMMA ValuesStep ==
    ASSUME Typed, Branches, Values, Places, [Next]_vars
    PROVE  Values'
<1>1. Contexts' = Contexts
  BY SamePipe
<1>2. disk' \in Contexts \cup {Absent}
  BY ContextStep, DiskIsContext DEF Values
<1>3. resumes' \in 0 .. MaxResumes
  <2>1. resumes' = resumes \/ Resume
    BY ProceedKeeps DEF Next, Start, Cancel, Crash, vars, procVars
  <2> QED
    BY <2>1, RunnerAssumption DEF Resume, Values
<1> QED
  BY <1>1, <1>2, <1>3, StageStep, BranchesOKStep, ContextStep, ListsStep, FaultsStep
     DEF Values

\* What all of the following rests on.
Shape == IInv /\ Values /\ Places

\* A run starts in shape.
LEMMA ShapeStart == Init => Shape
<1> SUFFICES ASSUME Init PROVE Values /\ Places
  BY InitInv DEF Shape
<1>1. pipe \in Pipes
  BY DEF Init
<1>2. Values
  <2>1. 0 \in 0 .. MaxFaults /\ 0 \in 0 .. MaxResumes
    BY RunnerAssumption
  <2>2. BranchesOK
    BY <1>1, NothingYet DEF Init, BranchesOK
  <2> QED
    BY <2>1, <2>2, NothingYet DEF Init, Values, Stages
<1>3. Places
  <2>1. 0 \in 0 .. Cardinality(Steps)
    BY <1>1, StepsFinite
  <2> QED
    BY <2>1 DEF Init, Places, Phases
<1> QED
  BY <1>2, <1>3

\* Shape is inductive.
LEMMA ShapeStep ==
    ASSUME Shape, [Next]_vars
    PROVE  Shape'
  BY StepInv, ValuesStep, PlacesStep DEF Shape, IInv

\* Where the steps of a phase are, and what every variable may hold.
THEOREM ShapeInvariant == RunSpec => []Shape
<1>1. Shape /\ [Next]_vars => Shape'
  BY ShapeStep
<1> QED
  BY <1>1, ShapeStart, PTL DEF RunSpec

\* Type correctness: the actions of a phase are no more than the steps there
\* are, elements, iterations and attempts stay within their limits, and the
\* context, the snapshot and the journal hold nothing but what steps produce.
THEOREM RunTypeCorrect == RunSpec => []RTypeOK
<1> SUFFICES ASSUME Shape PROVE RTypeOK
  BY ShapeInvariant, PTL
<1>1. ASSUME NEW s \in Steps
      PROVE  /\ branch[s].st \in {"idle", "run", "ok", "stop", "err", "cut"}
             /\ branch[s].try \in 1 .. MaxTries
             /\ branch[s].e \in 0 .. Elements + MaxIter
  <2>1. /\ branch[s].st \in {"idle", "run", "ok", "stop", "err", "cut"}
        /\ branch[s].try \in 1 .. MaxTries
        /\ branch[s].e \in 0 .. Turns(s) - 1
    BY DEF Shape, Values, BranchesOK, BranchOf
  <2>2. branch[s].e \in 0 .. Elements + MaxIter
    BY <2>1, RunnerAssumption DEF Turns
  <2> QED
    BY <2>1, <2>2
<1>2. /\ journal.stepOk \subseteq Steps
      /\ \A i \in Items : journal.ended[i] \in {"none", "ok", "aborted"}
  BY DEF Shape, IInv, Typed, JournalType
<1> QED
  BY <1>1, <1>2 DEF Shape, IInv, Typed, Values, Places, RTypeOK

-----------------------------------------------------------------------------
(* What a resume passes over                                               *)

\* The steps that a linear chain has not come to.
Ahead == IF stage = "head" /\ item = 0 THEN Steps
         ELSE IF stage \in {"head", "sealed"} THEN PostSteps
         ELSE IF stage = "item" THEN todo \cup PostSteps
         ELSE IF stage = "post" THEN todo ELSE {}

\* The outputs of the steps to pass over are in the context until then.
Skips ==
    /\ stage \in {"new", "pre"} => skip = {}
    /\ Linear => \A s \in skip \cap Ahead : ctx.out[s] # Absent

\* A step keeps what is known if it looks no further ahead and leaves the
\* outputs of what lies ahead alone.
LEMMA SkipsKept ==
    ASSUME Skips, [Next]_vars, skip' = skip, stage' \notin {"new", "pre"} \/ stage' = stage,
           Linear => Ahead' \subseteq Ahead,
           Linear => \A s \in Ahead' : ctx'.out[s] = ctx.out[s]
    PROVE  Skips'
  BY SamePipe DEF Skips

\* What a resume skips and lies ahead keeps its output.
LEMMA SkipsStep ==
    ASSUME Shape, Skips, [Next]_vars
    PROVE  Skips'
<1>1. PostSteps' = PostSteps /\ Steps' = Steps /\ Linear' = Linear
  BY SamePipe
<1>2. /\ Typed /\ Branches /\ Chains /\ Values /\ Places /\ pipe \in Pipes
      /\ ctx \in Contexts /\ BranchesOK /\ seg \subseteq Steps /\ PostSteps \subseteq Steps
  BY DEF Shape, IInv, Values, Places, Typed, PostSteps
<1>3. Linear => pipe.items = 1
  <2>1. PipeOK(pipe)
    BY <1>2, RunnerAssumption
  <2> QED
    BY <2>1 DEF PipeOK, Linear
<1>4. CASE Start
  BY <1>1, <1>4 DEF Start, Skips, EnterPhase, procVars
<1>5. CASE Resume
  <2>1. /\ stage' \in {"head", "over"} /\ skip' = DoneSteps /\ ctx' = disk
    BY <1>5 DEF Resume
  <2> QED
    BY <1>1, <2>1 DEF Skips, DoneSteps
<1>6. CASE Crash
  BY <1>6 DEF Crash, Skips
<1>7. CASE Cancel \/ UNCHANGED vars
  BY <1>1, <1>7, SkipsKept DEF Cancel, vars, Ahead
<1>8. CASE EndStep \/ EndGroup
  <2>1. /\ stage \in Phases /\ stage' \in {stage, "failing"} /\ skip' = skip
        /\ todo' \subseteq todo /\ item' = item
    BY <1>2, <1>8 DEF EndStep, EndGroup, EndSegment, GiveUp, Returned, Branches, procVars
  <2>2. todo \cap seg = {} /\ (stage = "item" => seg \subseteq LoopSteps)
    BY <1>2, <2>1 DEF Places, InPhase, PhaseOK, Rest, StepsOf
  <2>3. Ahead' \subseteq Ahead /\ (stage # "pre" => Ahead' \cap seg = {})
    BY <1>1, <2>1, <2>2 DEF Ahead, LoopSteps, Phases
  <2>4. ctx' = ctx \/ ctx' = Merged
    BY <1>8 DEF EndStep, EndGroup
  <2>5. \A s \in Steps : s \notin seg => ctx'.out[s] = ctx.out[s]
    BY <1>2, <2>4, MergedIs
  <2>6. Ahead' \subseteq Steps
    BY <1>1, <1>2, <2>1 DEF Ahead, Places
  <2>7. stage = "pre" => Ahead' = {}
    BY <2>1 DEF Ahead, Phases
  <2> QED
    BY <2>1, <2>3, <2>5, <2>6, <2>7, SkipsKept
<1>9. CASE StartItem
  <2>1. /\ stage = "head" /\ stage' = "item" /\ item < pipe.items /\ item' = item
        /\ todo' = LoopSteps /\ skip' = skip
    BY <1>9 DEF StartItem, EnterPhase, procVars
  <2>2. item \in Nat
    BY <1>2, SomeItems DEF Typed
  <2>3. Linear => Ahead = Steps
    BY <1>3, <2>1, <2>2 DEF Ahead
  <2>4. Ahead' \subseteq Steps
    BY <1>1, <1>2, <2>1 DEF Ahead, LoopSteps
  <2>5. Linear => \A s \in Steps : ctx'.out[s] = ctx.out[s]
    <3>1. Linear => Stale = {}
      BY DEF Stale, Linear
    <3> QED
      BY <1>2, <1>9, <2>2, <3>1, ItemContext
  <2> QED
    BY <2>1, <2>3, <2>4, <2>5, SkipsKept
<1>10. CASE Seal
  <2>1. /\ stage = "item" /\ stage' = "sealed" /\ skip' = skip
    BY <1>10 DEF Seal, PhaseDone, procVars
  <2>2. ctx'.out = ctx.out
    BY <1>2, <1>10, AggregatedIs, AggregatesIn DEF Seal, Values
  <2> QED
    BY <1>1, <2>1, <2>2, SkipsKept DEF Ahead
<1>11. CASE EndItem
  <2>1. /\ stage = "sealed" /\ stage' = "head" /\ skip' = skip /\ ctx' = ctx
        /\ item' = item + 1
    BY <1>11 DEF EndItem, procVars
  <2>2. item' # 0
    BY <1>2, <2>1, SomeItems DEF Typed
  <2> QED
    BY <1>1, <2>1, <2>2, SkipsKept DEF Ahead
<1>12. CASE StartPost
  <2>1. /\ stage = "head" /\ stage' = "post" /\ skip' = skip /\ todo' = PostSteps
    BY <1>12 DEF StartPost, EnterPhase, procVars
  <2>2. ctx'.out = ctx.out
    BY <1>2, <1>12, AggregatesIn DEF StartPost, Values
  <2> QED
    BY <1>1, <1>2, <2>1, <2>2, SkipsKept DEF Ahead
<1>13. CASE NextSegment
  <2>1. stage' = stage /\ item' = item /\ skip' = skip /\ ctx' = ctx /\ todo' \subseteq todo
    BY <1>13 DEF NextSegment, procVars
  <2> QED
    BY <1>1, <2>1, SkipsKept DEF Ahead
<1>14. CASE EndPre
  <2>1. stage = "pre" /\ skip' = skip /\ stage' \in {"over", "head"}
    BY <1>14 DEF EndPre, PhaseDone, procVars
  <2> QED
    BY <2>1 DEF Skips
<1>15. CASE SegmentCancelled \/ ItemCancelled \/ EndPost \/ Finish \/ FailEvent \/ FailSnapshot
  <2>1. skip' = skip /\ stage' \in {"failing", "ending", "over", "failed"}
    BY <1>15 DEF SegmentCancelled, ItemCancelled, EndPost, Finish, FailEvent, FailSnapshot,
       GiveUp, procVars
  <2>2. Ahead' = {}
    BY <2>1 DEF Ahead
  <2> QED
    BY <2>1, <2>2, SkipsKept
<1>16. ASSUME NEW s \in Steps, RunStep(s)
      PROVE  Skips'
  <2>1. UNCHANGED <<stage, item, todo, ctx, skip>>
    BY <1>16, RunStepIsInBranch DEF InBranch, procVars
  <2> QED
    BY <1>1, <2>1, SkipsKept DEF Ahead
<1> QED
  BY <1>4, <1>5, <1>6, <1>7, <1>8, <1>9, <1>10, <1>11, <1>12, <1>13, <1>14, <1>15, <1>16
     DEF Next, Proceed

\* At the start nothing is skipped.
LEMMA SkipsStart == Init => Skips
  BY DEF Init, Skips

\* So it is in every behaviour.
LEMMA SkipsInvariant == RunSpec => [](Shape /\ Skips)
<1>1. Shape /\ Skips /\ [Next]_vars => Shape' /\ Skips'
  BY ShapeStep, SkipsStep
<1> QED
  BY <1>1, ShapeStart, SkipsStart, PTL DEF RunSpec

\* runner.go, resume of a linear chain: however far the snapshot was behind the
\* journal, a step is passed over as done only if its output is in the context.
THEOREM SkippedAlwaysHaveOutputs == RunSpec => SkippedHaveOutputs
<1> DEFINE Passed(s) == /\ stage \in Phases /\ stage' = stage
                        /\ seg = {} /\ seg' = {}
                        /\ s \in todo /\ s \notin todo'
<1>1. ASSUME Shape, Skips, [Next]_vars, NEW s \in Steps, Passed(s)
      PROVE  ctx.out[s] # Absent
  <2>1. todo # {} /\ todo \subseteq Steps /\ pipe \in Pipes
    BY <1>1 DEF Shape, Places, IInv, Typed
  <2>2. NextSegment
    <3>1. ~(Start \/ Resume \/ Cancel \/ Crash \/ UNCHANGED vars)
      BY <1>1 DEF Start, Resume, Cancel, Crash, vars, Phases
    <3>2. ~(EndStep \/ EndGroup \/ SegmentCancelled \/ ItemCancelled \/ EndPre)
      BY <1>1 DEF EndStep, EndGroup, Returned, SegmentCancelled, ItemCancelled, EndPre
    <3>3. ~(StartItem \/ Seal \/ EndItem \/ StartPost)
      BY <1>1 DEF StartItem, Seal, EndItem, StartPost, Phases
    <3>4. ~(EndPost \/ Finish \/ FailEvent \/ FailSnapshot)
      BY <1>1 DEF EndPost, Finish, FailEvent, FailSnapshot
    <3>5. \A t \in Steps : ~RunStep(t)
      BY <1>1, RunStepIsInBranch DEF InBranch
    <3> QED
      BY <1>1, <3>1, <3>2, <3>3, <3>4, <3>5 DEF Next, Proceed
  <2>3. s \in Segment(todo) /\ Segment(todo) \subseteq skip
    BY <1>1, <2>2 DEF NextSegment, segVars
  <2>4. Linear /\ stage # "pre"
    BY <1>1, <2>3 DEF Shape, Places, Skips
  <2>5. s \in Ahead
    BY <1>1, <2>4 DEF Ahead, Phases
  <2> QED
    BY <1>1, <2>3, <2>4, <2>5 DEF Skips
<1>2. Shape /\ Skips /\ [Next]_vars => [\A s \in Steps : Passed(s) => ctx.out[s] # Absent]_vars
  BY <1>1
<1> QED
  BY <1>2, SkipsInvariant, PTL DEF RunSpec, SkippedHaveOutputs

-----------------------------------------------------------------------------
(* What the snapshot knows of the items that have ended                    *)

\* A context that was made for item i or for one after it.
Reached(c, i) == ~Linear => c.item \in Items /\ c.item >= i

HasEnded(i) == journal.ended[i] # "none"

\* While the first process is at an item its context is of that item; an item
\* that has ended lies behind, and the snapshot of it was written before it
\* ended, unless it was lost.
Snaps ==
    /\ stage \in {"item", "sealed"} /\ ~Linear => ctx.item = item
    /\ resumes = 0 /\ stage # "dead" =>
          \A i \in Items : HasEnded(i) => i < item /\ Reached(ctx, i)
    /\ resumes = 0 /\ ~everLost =>
          \A i \in Items : HasEnded(i) => disk # Absent /\ Reached(disk, i)
    /\ resumes = 0 /\ ~everLost /\ stage = "sealed" =>
          disk # Absent /\ Reached(disk, item)

\* How an item has ended is written only at its end.
LEMMA EndedMoves ==
    ASSUME Typed, Branches, Chains, [Next]_vars
    PROVE  \/ journal'.ended = journal.ended
           \/ /\ EndItem
              /\ \A i \in Items : i # item => journal'.ended[i] = journal.ended[i]
<1>1. CASE Proceed
  <2>1. CASE UNCHANGED ioVars
    BY <2>1 DEF ioVars
  <2>2. ASSUME NEW c, Save(c)
        PROVE  journal'.ended = journal.ended
    BY <2>2, SaveEffect
  <2>3. ASSUME NEW j \in JournalType, Log(j), j.ended = journal.ended
        PROVE  journal'.ended = journal.ended
    BY <2>3 DEF Log
  <2>4. CASE EndItem
    <3> DEFINE j == [journal EXCEPT !.ended[item] = status]
    <3>1. Log(j)
      BY <2>4 DEF EndItem
    <3>2. \A i \in Items : i # item => j.ended[i] = journal.ended[i]
      BY DEF Typed, JournalType
    <3> HIDE DEF j
    <3>3. journal' = j \/ journal' = journal
      BY <3>1 DEF Log
    <3> QED
      BY <2>4, <3>2, <3>3
  <2> QED
    BY <1>1, <2>1, <2>2, <2>3, <2>4, ProceedWrites
<1>2. CASE Start
  <2> DEFINE j == [journal EXCEPT !.started = TRUE, !.last = "run_start"]
  <2>1. j.ended = journal.ended
    BY DEF Typed, JournalType
  <2> QED
    BY <1>2, <2>1 DEF Start, Log
<1>3. CASE Resume
  <2> DEFINE j == [journal EXCEPT !.last = "run_resumed"]
  <2>1. j.ended = journal.ended
    BY DEF Typed, JournalType
  <2> QED
    BY <1>3, <2>1 DEF Resume
<1>4. CASE Cancel \/ Crash \/ UNCHANGED vars
  BY <1>4 DEF Cancel, Crash, ioVars, vars
<1> QED
  BY <1>1, <1>2, <1>3, <1>4 DEF Next

\* What a process that is neither resumed nor killed in this step does with all
\* that Snaps speaks of.
LEMMA SnapMoves ==
    ASSUME Shape, [Next]_vars, ~Resume, ~Crash
    PROVE  /\ resumes' = resumes /\ (everLost => everLost')
           /\ stage = "dead" => stage' = "dead" /\ UNCHANGED <<journal, disk>>
           /\ item' = item \/ (EndItem /\ item' = item + 1)
           /\ stage' \in {"item", "sealed"} => StartItem \/ stage \in {"item", "sealed"}
           /\ stage' = "sealed" => Seal \/ UNCHANGED <<stage, disk>>
<1>1. Branches /\ Typed
  BY DEF Shape, IInv
<1>2. CASE Start
  BY <1>2 DEF Start, Log, EnterPhase, procVars
<1>3. CASE Cancel \/ UNCHANGED vars
  BY <1>3 DEF Cancel, ioVars, vars
<1>4. CASE Proceed
  <2>1. resumes' = resumes /\ stage # "dead" /\ (~EndItem => item' = item)
    BY <1>1, <1>4, ProceedKeeps, ProceedMoves DEF procVars, Working, Phases
  <2>2. everLost => everLost'
    BY <1>4, WritesOnce DEF ioVars, Save, NoteLoss, Log
  <2>3. EndItem => item' = item + 1
    BY DEF EndItem
  <2>4. stage' \in {"item", "sealed"} => StartItem \/ stage \in {"item", "sealed"}
    <3>1. CASE EndStep \/ EndGroup \/ SegmentCancelled \/ NextSegment \/ ItemCancelled
      BY <3>1 DEF EndStep, EndGroup, SegmentCancelled, NextSegment, ItemCancelled, GiveUp
    <3>2. CASE EndPre \/ Seal \/ EndItem \/ StartPost
      BY <3>2 DEF EndPre, Seal, PhaseDone, EndItem, StartPost, EnterPhase
    <3>3. CASE EndPost \/ Finish \/ FailEvent \/ FailSnapshot
      BY <3>3 DEF EndPost, Finish, FailEvent, FailSnapshot
    <3>4. ASSUME NEW s \in Steps, RunStep(s) PROVE stage' = stage
      BY <3>4, RunStepIsInBranch DEF InBranch
    <3> QED
      BY <1>4, <3>1, <3>2, <3>3, <3>4 DEF Proceed
  <2>5. stage' = "sealed" => Seal
    <3>1. CASE EndStep \/ EndGroup \/ SegmentCancelled \/ NextSegment \/ ItemCancelled
      BY <1>1, <3>1 DEF EndStep, EndGroup, Returned, Branches, SegmentCancelled, NextSegment,
         ItemCancelled, GiveUp, Phases
    <3>2. CASE EndPre \/ StartItem \/ EndItem \/ StartPost
      BY <3>2 DEF EndPre, PhaseDone, StartItem, EndItem, StartPost, EnterPhase
    <3>3. CASE EndPost \/ Finish \/ FailEvent \/ FailSnapshot
      BY <3>3 DEF EndPost, Finish, FailEvent, FailSnapshot
    <3>4. ASSUME NEW s \in Steps, RunStep(s) PROVE stage' # "sealed"
      BY <1>1, <3>4, RunStepIsInBranch DEF InBranch, Running, Branches, Phases
    <3> QED
      BY <1>4, <3>1, <3>2, <3>3, <3>4 DEF Proceed
  <2> QED
    BY <2>1, <2>2, <2>3, <2>4, <2>5
<1> QED
  BY <1>2, <1>3, <1>4 DEF Next

\* The item of the context.
LEMMA ItemOfContext ==
    ASSUME Shape, [Next]_vars, ~Resume, ~Crash
    PROVE  IF StartItem THEN ctx'.item = Loaded /\ ctx \in Contexts ELSE ctx'.item = ctx.item
<1>1. /\ ctx \in Contexts /\ BranchesOK /\ seg \subseteq Steps /\ ListsOK(agg)
      /\ pipe \in Pipes /\ item \in Nat
  BY SomeItems DEF Shape, IInv, Values, Places, Typed
<1>2. CASE (EndStep \/ EndGroup) /\ ctx' = Merged
  BY <1>1, <1>2, MergedIs DEF EndStep, EndGroup, Returned, StartItem
<1>3. CASE StartItem
  BY <1>1, <1>3, ItemContext
<1>4. CASE Seal /\ ~Linear /\ ctx' = WithAggregates(ctx, Aggregated)
  BY <1>1, <1>4, AggregatedIs, AggregatesIn DEF Seal, PhaseDone, StartItem
<1>5. CASE StartPost /\ ctx' = WithAggregates(ctx, agg)
  BY <1>1, <1>5, AggregatesIn DEF StartPost, StartItem, EnterPhase
<1> QED
  BY <1>1, <1>2, <1>3, <1>4, <1>5, ContextMovers

\* Only a kill ends a process without a word.
LEMMA OnlyCrashKills ==
    ASSUME Shape, [Next]_vars, ~Crash
    PROVE  stage' = "dead" => stage = "dead"
<1>1. Proceed => stage' # "dead"
  BY ProceedMoves DEF Shape, IInv
<1> QED
  BY <1>1 DEF Next, Start, EnterPhase, Resume, Cancel, vars

\* An item's end is logged after its snapshot was saved, or the loss is known.
LEMMA SnapsStep ==
    ASSUME Shape, Snaps, [Next]_vars
    PROVE  Snaps'
<1>1. /\ Items' = Items /\ Linear' = Linear /\ Contexts' = Contexts
      /\ \A c, i : Reached(c, i)' = Reached(c', i')
  BY SamePipe DEF Reached
<1>2. /\ Typed /\ Branches /\ Chains /\ pipe \in Pipes /\ item \in Nat
      /\ \A i \in Items : i \in Nat
  BY SomeItems DEF Shape, IInv, Typed
<1>3. CASE Resume
  <2>1. stage' \in {"head", "over"} /\ resumes' # 0
    BY <1>3 DEF Resume, Shape, Values
  <2> QED
    BY <2>1 DEF Snaps
<1>4. CASE Crash
  BY <1>1, <1>4 DEF Crash, Snaps, HasEnded, Reached
<1>5. CASE ~Resume /\ ~Crash
  <2>1. stage' \in {"item", "sealed"} /\ ~Linear => ctx'.item = item'
    <3>1. CASE StartItem
      BY <1>5, <3>1, ItemOfContext DEF StartItem, Loaded
    <3>2. CASE ~StartItem /\ ~EndItem
      BY <1>5, <3>2, ItemOfContext, SnapMoves DEF Snaps
    <3>3. CASE EndItem
      BY <3>3 DEF EndItem
    <3> QED
      BY <3>1, <3>2, <3>3
  <2>2. ASSUME resumes' = 0, stage' # "dead", NEW i \in Items, HasEnded(i)'
        PROVE  i < item' /\ Reached(ctx', i)
    <3>1. resumes = 0 /\ stage # "dead"
      BY <1>5, <2>2, SnapMoves
    <3>2. CASE HasEnded(i)
      <4>1. i < item /\ Reached(ctx, i) /\ i \in Nat
        BY <1>2, <3>1, <3>2 DEF Snaps
      <4>2. i < item'
        BY <1>2, <1>5, <4>1, SnapMoves
      <4>3. Reached(ctx', i)
        <5>1. CASE StartItem
          <6>1. item \in Items
            BY <1>2, <5>1, SomeItems DEF StartItem
          <6> QED
            BY <1>2, <1>5, <4>1, <5>1, <6>1, ItemOfContext DEF Reached, Loaded
        <5>2. CASE ~StartItem
          BY <1>5, <4>1, <5>2, ItemOfContext DEF Reached
        <5> QED
          BY <5>1, <5>2
      <4> QED
        BY <4>2, <4>3
    <3>3. CASE ~HasEnded(i)
      <4>1. EndItem /\ i = item
        BY <1>2, <2>2, <3>3, EndedMoves DEF HasEnded
      <4>2. item' = item + 1 /\ ctx' = ctx /\ stage = "sealed"
        BY <4>1 DEF EndItem
      <4> QED
        BY <1>2, <2>2, <4>1, <4>2 DEF Snaps, Reached
    <3> QED
      BY <3>2, <3>3
  <2>3. ctx' \in Contexts /\ Absent \notin Contexts
    BY <1>2, ContextStep, RunnerAssumption DEF Shape, Contexts
  <2>4. ASSUME resumes' = 0, ~everLost', NEW i \in Items, HasEnded(i)'
        PROVE  disk' # Absent /\ Reached(disk', i)
    <3>1. resumes = 0 /\ ~everLost
      BY <1>5, <2>4, SnapMoves
    <3>2. CASE stage' = "dead"
      <4>1. stage = "dead" /\ UNCHANGED <<journal, disk>>
        BY <1>5, <3>2, SnapMoves, OnlyCrashKills
      <4> QED
        BY <2>4, <3>1, <4>1 DEF Snaps, HasEnded
    <3>3. CASE stage' # "dead" /\ disk' = ctx'
      BY <2>2, <2>3, <2>4, <3>3
    <3>4. CASE disk' = disk /\ HasEnded(i)
      BY <3>1, <3>4 DEF Snaps
    <3>5. CASE disk' = disk /\ ~HasEnded(i)
      <4>1. EndItem /\ i = item
        BY <1>2, <2>4, <3>5, EndedMoves DEF HasEnded
      <4> QED
        BY <3>1, <3>5, <4>1 DEF Snaps, EndItem
    <3> QED
      BY <3>2, <3>3, <3>4, <3>5, DiskIsContext
  <2>5. ASSUME resumes' = 0, ~everLost', stage' = "sealed"
        PROVE  disk' # Absent /\ Reached(disk', item')
    <3>1. resumes = 0 /\ ~everLost
      BY <1>5, <2>5, SnapMoves
    <3>2. CASE Seal
      <4>1. disk' = ctx'
        BY <2>5, <3>2 DEF Seal, Save, NoteLoss
      <4>2. item' = item /\ item \in Items
        BY <1>2, <3>2, SomeItems DEF Seal, Chains, PhaseDone
      <4> QED
        BY <1>2, <2>1, <2>3, <2>5, <4>1, <4>2 DEF Reached
    <3>3. CASE ~Seal
      <4>1. stage = "sealed" /\ disk' = disk /\ item' = item
        BY <1>5, <2>5, <3>3, SnapMoves DEF EndItem
      <4> QED
        BY <3>1, <4>1 DEF Snaps
    <3> QED
      BY <3>2, <3>3
  <2> QED
    BY <1>1, <2>1, <2>2, <2>4, <2>5 DEF Snaps
<1> QED
  BY <1>3, <1>4, <1>5

\* So it is in every behaviour.
LEMMA SnapsInvariant == RunSpec => []Snaps
<1>1. Init => Snaps
  BY DEF Init, Snaps, HasEnded, NoJournal
<1>2. Shape /\ Snaps /\ [Next]_vars => Snaps'
  BY SnapsStep
<1> QED
  BY <1>1, <1>2, ShapeInvariant, PTL DEF RunSpec

\* runWithStore: the snapshot of an item is written before the journal says
\* that the item has ended, so whoever reads the end finds the item in the
\* snapshot, however the process was killed since, if no snapshot was lost.
THEOREM SnapshotAlwaysBeforeEnd == RunSpec => []SnapshotBeforeEnd
<1>1. ASSUME Shape, Snaps
      PROVE  SnapshotBeforeEnd
  <2>1. Absent \notin Items
    <3>1. pipe \in Pipes
      BY <1>1 DEF Shape, IInv, Typed
    <3>2. Absent \notin Nat
      BY RunnerAssumption
    <3>3. \A i \in Items : i \in Nat
      BY <3>1, SomeItems
    <3> QED
      BY <3>2, <3>3
  <2> QED
    BY <1>1, <2>1 DEF Snaps, HasEnded, Reached, SnapshotBeforeEnd
<1> QED
  BY <1>1, ShapeInvariant, SnapsInvariant, PTL

\* finish and runWithStore: what the journal says has happened, of the run and of
\* each item.
THEOREM JournalStaysHonest == RunSpec => []JournalIsHonest
  BY RunEndIsHonest, SnapshotAlwaysBeforeEnd, PTL DEF JournalIsHonest

-----------------------------------------------------------------------------
(* What a step finds of the items before                                   *)

\* No two entries are the same.
Apart(q) == \A i, j \in DOMAIN q : q[i] = q[j] => i = j

\* The entries were made for elements before the n-th, one after another.
Rising(q, n) ==
    /\ \A i \in DOMAIN q : q[i][2] \in Nat /\ q[i][2] < n
    /\ \A i, j \in DOMAIN q : i < j => q[i][2] < q[j][2]

\* An output and a list of outputs that a step may find in the item at hand.
Own(s, out, all) ==
    /\ out # Absent => out[1] = item
    /\ Kind(s) = "each" /\ all # Absent => Apart(all)

Leaks ==
    stage = "item" /\ ~Linear =>
        /\ \A s \in LoopSteps : Own(s, ctx.out[s], ctx.all[s])
        /\ \A s \in seg :
              /\ Own(s, branch[s].out, branch[s].all)
              /\ branch[s].st = "run" /\ Kind(s) = "each" =>
                    Rising(branch[s].vals, branch[s].e)

\* A foreach collects one output of each element, in their order.
LEMMA RisingIsApart ==
    ASSUME NEW V, NEW q \in Seq(V), NEW n, Rising(q, n)
    PROVE  Apart(q)
<1> SUFFICES ASSUME NEW i \in DOMAIN q, NEW j \in DOMAIN q, q[i] = q[j]
             PROVE  i = j
  BY DEF Apart
<1>1. i \in Nat /\ j \in Nat
  OBVIOUS
<1>2. ~(i < j) /\ ~(j < i)
  BY DEF Rising
<1> QED
  BY <1>1, <1>2

\* A list that rises goes on rising with the next element.
LEMMA RisingGoesOn ==
    ASSUME NEW V, NEW q \in Seq(V), NEW n \in Nat, Rising(q, n)
    PROVE  /\ Rising(q, n + 1)
           /\ \A v \in V : v[2] = n => Rising(Append(q, v), n + 1)
<1>1. Rising(q, n + 1)
  BY DEF Rising
<1>2. ASSUME NEW v \in V, v[2] = n
      PROVE  Rising(Append(q, v), n + 1)
  <2> DEFINE r == Append(q, v)
  <2>1. /\ DOMAIN r = 1 .. Len(q) + 1 /\ Len(q) \in Nat /\ DOMAIN q = 1 .. Len(q)
        /\ \A i \in 1 .. Len(q) : r[i] = q[i]
        /\ r[Len(q) + 1] = v
    OBVIOUS
  <2> HIDE DEF r
  <2>2. ASSUME NEW i \in DOMAIN r
        PROVE  r[i][2] \in Nat /\ r[i][2] < n + 1
    <3>1. CASE i \in DOMAIN q
      BY <2>1, <3>1 DEF Rising
    <3>2. CASE i = Len(q) + 1
      BY <1>2, <2>1, <3>2
    <3> QED
      BY <2>1, <3>1, <3>2
  <2>3. ASSUME NEW i \in DOMAIN r, NEW j \in DOMAIN r, i < j
        PROVE  r[i][2] < r[j][2]
    <3>1. i \in DOMAIN q /\ r[i] = q[i]
      BY <2>1, <2>3
    <3>2. CASE j \in DOMAIN q
      BY <2>1, <2>3, <3>1, <3>2 DEF Rising
    <3>3. CASE j = Len(q) + 1
      BY <1>2, <2>1, <3>1, <3>3 DEF Rising
    <3> QED
      BY <2>1, <3>2, <3>3
  <2>4. Rising(r, n + 1)
    BY <2>2, <2>3 DEF Rising
  <2> QED
    BY <2>4 DEF r
<1> QED
  BY <1>1, <1>2

\* What a pass leaves of a branch is of the item at hand.
LEMMA BranchIsOwn ==
    ASSUME pipe \in Pipes, ctx \in Contexts, ctx.item = item,
           NEW s \in Steps, branch[s] \in BranchOf(s),
           Own(s, branch[s].out, branch[s].all),
           Kind(s) = "each" => Rising(branch[s].vals, branch[s].e),
           NEW b, BranchMoves(s, b)
    PROVE  /\ Own(s, b.out, b.all)
           /\ b.st = "run" /\ Kind(s) = "each" => Rising(b.vals, b.e)
<1>1. Output(s) \in Value /\ Output(s)[1] = item /\ Output(s)[2] = branch[s].e
  BY OutputIsValue DEF Output
<1>2. branch[s].e \in Nat /\ branch[s].vals \in Seq(Value)
  BY RunnerAssumption DEF BranchOf, Turns
<1>3. ASSUME NEW out \in {Absent, Output(s)}, Kind(s) = "each"
      PROVE  /\ Collected(s, out) \in Seq(Value)
             /\ Rising(Collected(s, out), branch[s].e + 1)
  BY <1>1, <1>2, <1>3, RisingGoesOn DEF Collected
<1>4. CASE /\ b.out = branch[s].out /\ b.all = branch[s].all
           /\ b.vals = branch[s].vals /\ b.e = branch[s].e
  BY <1>4 DEF Own
<1>5. ASSUME NEW out \in {Absent, Output(s)}, b.out = out,
             b.all = branch[s].all \/ (Kind(s) = "each" /\ b.all = Collected(s, out)),
             b.st = "run" /\ Kind(s) = "each" =>
                 b.e = branch[s].e + 1 /\ b.vals = Collected(s, out)
      PROVE  /\ Own(s, b.out, b.all)
             /\ b.st = "run" /\ Kind(s) = "each" => Rising(b.vals, b.e)
  <2>1. b.out # Absent => b.out[1] = item
    BY <1>1, <1>5
  <2>2. Kind(s) = "each" => Apart(Collected(s, out))
    BY <1>3, RisingIsApart
  <2>3. Kind(s) = "each" /\ b.all # Absent => Apart(b.all)
    BY <1>5, <2>2 DEF Own
  <2> QED
    BY <1>3, <1>5, <2>1, <2>3 DEF Own
<1> QED
  BY <1>4, <1>5 DEF BranchMoves

\* No step brings an output of another item into the chain.
LEMMA LeaksStep ==
    ASSUME Shape, Snaps, Leaks, [Next]_vars
    PROVE  Leaks'
<1>1. /\ Linear' = Linear /\ LoopSteps' = LoopSteps
      /\ \A s : Kind(s)' = Kind(s)
  BY SamePipe, SameSteps
<1>2. /\ Typed /\ Branches /\ Values /\ Places /\ BranchesOK /\ pipe \in Pipes
      /\ ctx \in Contexts /\ seg \subseteq Steps /\ LoopSteps \subseteq Steps
      /\ ListsOK(agg) /\ item \in Nat
  BY SomeItems DEF Shape, IInv, Typed, Values, Places, LoopSteps
<1> SUFFICES ASSUME stage' = "item", ~Linear
             PROVE  Leaks'
  BY <1>1 DEF Leaks
<1>3. CASE stage # "item"
  <2>1. StartItem
    <3>1. ~(Start \/ Resume \/ Cancel \/ Crash \/ UNCHANGED vars)
      BY <1>3 DEF Start, EnterPhase, Resume, Cancel, Crash, vars
    <3>2. ~(EndStep \/ EndGroup \/ SegmentCancelled \/ NextSegment \/ ItemCancelled)
      BY <1>3 DEF EndStep, EndGroup, SegmentCancelled, NextSegment, ItemCancelled, GiveUp
    <3>3. ~(EndPre \/ Seal \/ EndItem \/ StartPost)
      BY <1>3 DEF EndPre, Seal, EndItem, StartPost, EnterPhase
    <3>4. ~(EndPost \/ Finish \/ FailEvent \/ FailSnapshot)
      BY <1>3 DEF EndPost, Finish, FailEvent, FailSnapshot
    <3>5. \A t \in Steps : ~RunStep(t)
      BY <1>3, RunStepIsInBranch DEF InBranch
    <3> QED
      BY <3>1, <3>2, <3>3, <3>4, <3>5 DEF Next, Proceed
  <2>2. seg = {} /\ seg' = {}
    BY <1>2, <2>1 DEF StartItem, segVars, Branches, Phases
  <2>3. LoopSteps \subseteq Stale
    BY <1>2 DEF Stale, Linear
  <2>4. \A s \in LoopSteps : ctx'.out[s] = Absent /\ ctx'.all[s] = Absent
    BY <1>2, <2>1, <2>3, ItemContext
  <2> QED
    BY <1>1, <2>2, <2>4 DEF Leaks, Own
<1>4. CASE stage = "item"
  <2>1. item' = item /\ ctx.item = item
    <3>1. ~Resume /\ ~Crash /\ ~EndItem
      BY <1>4 DEF Resume, Crash, EndItem
    <3> QED
      BY <1>4, <3>1, SnapMoves DEF Snaps
  <2>2. /\ \A s \in LoopSteps : Own(s, ctx.out[s], ctx.all[s])
        /\ \A s \in seg : Own(s, branch[s].out, branch[s].all)
        /\ \A s \in seg : branch[s].st = "run" /\ Kind(s) = "each" =>
                              Rising(branch[s].vals, branch[s].e)
    BY <1>4 DEF Leaks
  <2>3. \A s, out, all : Own(s, out, all) <=>
            /\ out # Absent => out[1] = item'
            /\ Kind(s)' = "each" /\ all # Absent => Apart(all)
    BY <1>1, <2>1 DEF Own
  <2>4. CASE \E s \in Steps : RunStep(s)
    <3>1. PICK s \in Steps : RunStep(s)
      BY <2>4
    <3>2. PICK b : branch' = [branch EXCEPT ![s] = b] /\ BranchMoves(s, b)
      BY <1>2, <3>1, BranchEffect
    <3>3. /\ \A t \in Steps : branch'[t] = IF t = s THEN b ELSE branch[t]
          /\ branch[s] \in BranchOf(s)
      BY <3>2, <1>2 DEF BranchesOK
    <3>4. s \in seg /\ branch[s].st = "run" /\ UNCHANGED <<seg, ctx>>
      BY <3>1, RunStepIsInBranch DEF Running, InBranch
    <3>5. /\ Own(s, b.out, b.all)
          /\ b.st = "run" /\ Kind(s) = "each" => Rising(b.vals, b.e)
      <4>1. /\ Own(s, branch[s].out, branch[s].all)
            /\ Kind(s) = "each" => Rising(branch[s].vals, branch[s].e)
        BY <2>2, <3>4
      <4> QED
        BY <1>2, <2>1, <3>2, <3>3, <4>1, BranchIsOwn
    <3>6. \A t \in seg' :
             /\ Own(t, branch'[t].out, branch'[t].all)
             /\ branch'[t].st = "run" /\ Kind(t) = "each" =>
                    Rising(branch'[t].vals, branch'[t].e)
      BY <1>2, <2>2, <3>3, <3>4, <3>5
    <3> QED
      BY <1>1, <2>2, <2>3, <3>4, <3>6 DEF Leaks, Own
  <2>5. CASE NextSegment
    <3>1. ctx' = ctx
      BY <2>5 DEF NextSegment
    <3>2. CASE UNCHANGED segVars
      BY <1>1, <2>2, <2>3, <3>1, <3>2 DEF Leaks, Own, segVars
    <3>3. CASE seg' = Segment(todo) /\ branch' = [s \in Steps |->
                  IF s \in Segment(todo) THEN BeginBranch(s) ELSE Idle]
      <4>1. Segment(todo) \subseteq LoopSteps
        BY <1>2, <1>4 DEF Segment, Places, InPhase, PhaseOK, Rest, StepsOf, Phases
      <4>2. \A s \in seg' : branch'[s] = BeginBranch(s)
        BY <1>2, <3>3, <4>1
      <4>3. ASSUME NEW s \in seg'
            PROVE  /\ branch'[s].out = ctx.out[s] /\ branch'[s].all = ctx.all[s]
                   /\ Rising(branch'[s].vals, branch'[s].e)
        <5>1. branch'[s] = [st |-> "run", e |-> 0, try |-> 1, out |-> ctx.out[s],
                            all |-> ctx.all[s], vals |-> <<>>]
          <6>1. branch'[s] = BeginBranch(s)
            BY <4>2
          <6> QED
            BY <6>1 DEF BeginBranch, Idle
        <5>2. Rising(<<>>, 0)
          BY DEF Rising
        <5> QED
          BY <5>1, <5>2
      <4>4. \A s \in seg' : Own(s, branch'[s].out, branch'[s].all)
        BY <2>2, <3>3, <4>1, <4>3
      <4> QED
        BY <1>1, <2>2, <2>3, <3>1, <4>3, <4>4 DEF Leaks, Own
    <3> QED
      BY <2>5, <3>2, <3>3 DEF NextSegment
  <2>6. CASE EndStep \/ EndGroup
    <3>1. seg' = {} /\ (ctx' = ctx \/ ctx' = Merged)
      BY <2>6 DEF EndStep, EndGroup, EndSegment
    <3>2. \A s \in LoopSteps : Own(s, ctx'.out[s], ctx'.all[s])
      BY <1>2, <2>2, <3>1, MergedIs
    <3> QED
      BY <1>1, <2>3, <3>1, <3>2 DEF Leaks, Own
  <2>7. CASE UNCHANGED vars \/ Cancel
    <3>1. UNCHANGED <<seg, branch, ctx>>
      BY <2>7 DEF vars, Cancel, segVars
    <3> QED
      BY <1>1, <2>2, <2>3, <3>1 DEF Leaks, Own
  <2>8. ~(Start \/ Resume \/ Crash)
    BY <1>4 DEF Start, Resume, Crash
  <2>9. ~(SegmentCancelled \/ ItemCancelled \/ EndPre \/ StartItem \/ Seal \/ EndItem)
    BY <1>4 DEF SegmentCancelled, ItemCancelled, GiveUp, EndPre, PhaseDone, StartItem,
       Seal, EndItem
  <2>10. ~(StartPost \/ EndPost \/ Finish \/ FailEvent \/ FailSnapshot)
    BY <1>4 DEF StartPost, EndPost, PhaseDone, Finish, FailEvent, FailSnapshot
  <2> QED
    BY <2>4, <2>5, <2>6, <2>7, <2>8, <2>9, <2>10 DEF Next, Proceed
<1> QED
  BY <1>3, <1>4

\* steps.go: whatever an earlier item, pass or attempt left behind, a step of a
\* chain finds only outputs of the item at hand, and the list of a foreach
\* holds each output once.
THEOREM NothingLeaks == RunSpec => []NoLeak
<1>1. Init => Leaks
  BY DEF Init, Leaks
<1>2. Shape /\ Snaps /\ Leaks /\ [Next]_vars => Leaks'
  BY LeaksStep
<1>3. Leaks => NoLeak
  BY DEF Leaks, Own, Apart, NoLeak
<1> QED
  BY <1>1, <1>2, <1>3, ShapeInvariant, SnapsInvariant, PTL DEF RunSpec

-----------------------------------------------------------------------------
(* What is aggregated                                                      *)

\* Between the items the aggregates are what the steps came to; at an item the
\* actions that are there give what is missing.
Aggs ==
    ~Linear =>
        /\ stage \in {"new", "pre", "head", "sealed", "post"} =>
              \A s \in LoopSteps : agg[s] = made[s]
        /\ stage = "item" => \A s \in LoopSteps : Aggregated[s] = made[s]

\* Sealing an item adds to a step's list what the step yielded, if it had its turn.
LEMMA AggregatedAt ==
    ASSUME NEW s \in Steps
    PROVE  Aggregated[s] = IF s \in FirstOf(LoopSteps, acted) /\ Yield(ctx, s) # Absent
                           THEN Append(agg[s], Yield(ctx, s)) ELSE agg[s]
  BY DEF Aggregated

\* A segment has come to its end: what Remember keeps is what is aggregated.
LEMMA AggsBarrier ==
    ASSUME Shape, Aggs, [Next]_vars, ~Linear, EndStep \/ EndGroup,
           stage = "item", stage' = "item"
    PROVE  \A s \in LoopSteps : Aggregated'[s] = made'[s]
<1>1. /\ pipe \in Pipes /\ ctx \in Contexts /\ BranchesOK /\ seg \subseteq Steps
      /\ LoopSteps \subseteq Steps /\ ListsOK(agg) /\ seg # {} /\ aborted = FALSE
      /\ LoopSteps' = LoopSteps /\ Steps' = Steps /\ \A s : Kind(s)' = Kind(s)
  <2>1. /\ pipe \in Pipes /\ ctx \in Contexts /\ BranchesOK /\ seg \subseteq Steps
        /\ LoopSteps \subseteq Steps /\ ListsOK(agg)
    BY DEF Shape, IInv, Typed, Values, Places, LoopSteps
  <2>2. seg # {}
    BY DEF EndStep, EndGroup, Returned
  <2>3. aborted = FALSE
    BY <2>2 DEF Shape, Places
  <2> QED
    BY <2>1, <2>2, <2>3, SamePipe, SameSteps
<1>2. /\ seg \subseteq LoopSteps /\ PhaseOK(LoopSteps, todo, seg, acted, FALSE)
      /\ seg \cap todo = {} /\ acted \in Nat
  <2>1. InPhase("item") /\ StepsOf("item") = LoopSteps
    BY DEF Shape, Places, Phases, StepsOf
  <2>2. PhaseOK(LoopSteps, todo, seg, acted, FALSE)
    BY <1>1, <2>1 DEF InPhase
  <2> QED
    BY <2>2 DEF PhaseOK, Rest
<1>3. /\ FirstOf(LoopSteps, acted) = LoopSteps \ (todo \cup seg)
      /\ FirstOf(LoopSteps, acted + Cardinality(seg)) = LoopSteps \ todo
  <2>1. FirstOf(LoopSteps, acted) = LoopSteps \ (todo \cup seg)
    <3>1. Rest(todo \cup seg, LoopSteps) /\ acted = Cardinality(LoopSteps \ (todo \cup seg))
      BY <1>2 DEF PhaseOK
    <3> QED
      BY <1>1, <3>1, ActionsLineUp
  <2> DEFINE n == acted + Cardinality(seg)
  <2>2. PhaseOK(LoopSteps, todo, {}, n, FALSE)
    BY <1>1, <1>2, PhaseEnds
  <2> HIDE DEF n
  <2>3. FirstOf(LoopSteps, n) = LoopSteps \ todo
    <3>1. todo \cup {} = todo
      OBVIOUS
    <3>2. Rest(todo, LoopSteps) /\ n = Cardinality(LoopSteps \ todo)
      BY <2>2, <3>1 DEF PhaseOK
    <3> QED
      BY <1>1, <3>2, ActionsLineUp
  <2> QED
    BY <2>1, <2>3 DEF n
<1>4. ASSUME NEW s \in LoopSteps
      PROVE  /\ agg'[s] = agg[s]
             /\ s \in Steps'
             /\ made[s] = IF s \in LoopSteps \ (todo \cup seg) /\ Yield(ctx, s) # Absent
                          THEN Append(agg[s], Yield(ctx, s)) ELSE agg[s]
  <2>1. agg' = agg
    BY DEF EndStep, EndGroup, EndSegment
  <2> QED
    BY <1>1, <1>3, <2>1, AggregatedAt DEF Aggs
<1>5. ASSUME NEW s \in Steps
      PROVE  Aggregated'[s] =
                 IF s \in FirstOf(LoopSteps, acted') /\ Yield(ctx', s) # Absent
                 THEN Append(agg'[s], Yield(ctx', s)) ELSE agg'[s]
  <2>1. FirstOf(LoopSteps, acted)' = FirstOf(LoopSteps, acted')
    BY <1>1 DEF FirstOf
  <2>2. Yield(ctx, s)' = Yield(ctx', s)
    BY <1>1 DEF Yield
  <2> QED
    BY <1>1, <2>1, <2>2 DEF Aggregated
<1>6. ASSUME NEW s \in Steps, s \notin seg, ctx' = Merged
      PROVE  Yield(ctx', s) = Yield(ctx, s)
  BY <1>1, <1>6, MergedIs DEF Yield
<1>7. CASE ctx' = Merged /\ acted' = acted + Cardinality(seg) /\ Remember(ctx')
  <2>1. ASSUME NEW s \in LoopSteps
        PROVE  made'[s] = IF s \in seg /\ Yield(ctx', s) # Absent
                          THEN Append(made[s], Yield(ctx', s)) ELSE made[s]
    BY <1>1, <1>7 DEF Remember
  <2>2. ASSUME NEW s \in LoopSteps
        PROVE  Aggregated'[s] = IF s \in LoopSteps \ todo /\ Yield(ctx', s) # Absent
                                THEN Append(agg[s], Yield(ctx', s)) ELSE agg[s]
    BY <1>1, <1>3, <1>4, <1>5, <1>7
  <2>3. ASSUME NEW s \in LoopSteps
        PROVE  Aggregated'[s] = made'[s]
    <3>1. CASE s \in seg
      BY <1>2, <1>4, <2>1, <2>2, <3>1
    <3>2. CASE s \notin seg
      BY <1>1, <1>4, <1>6, <1>7, <2>1, <2>2, <3>2
    <3> QED
      BY <3>1, <3>2
  <2> QED
    BY <2>3
<1>8. CASE ctx' = Merged /\ acted' = acted /\ made' = made
  <2>1. ASSUME NEW s \in LoopSteps
        PROVE  Aggregated'[s] = made'[s]
    <3>1. Aggregated'[s] =
              IF s \in LoopSteps \ (todo \cup seg) /\ Yield(ctx', s) # Absent
              THEN Append(agg[s], Yield(ctx', s)) ELSE agg[s]
      BY <1>1, <1>3, <1>4, <1>5, <1>8
    <3> QED
      BY <1>1, <1>4, <1>6, <1>8, <3>1
  <2> QED
    BY <2>1
<1>9. CASE EndStep
  <2>1. ctx' = Merged /\ Cardinality(seg) = 1
    BY <1>9 DEF EndStep
  <2>2. CASE Bad = {}
    <3>1. ~\E s \in seg : branch[s].st = "stop"
      BY <2>2 DEF Bad
    <3>2. acted' = acted + 1 /\ Remember(ctx')
      BY <1>9, <2>2, <3>1 DEF EndStep
    <3> QED
      BY <1>7, <2>1, <3>2
  <2>3. CASE Bad # {} /\ \E s \in seg : branch[s].st = "stop"
    BY <1>8, <1>9, <2>1, <2>3 DEF EndStep, pastVars
  <2>4. CASE Bad # {} /\ ~\E s \in seg : branch[s].st = "stop"
    BY <1>9, <2>4 DEF EndStep, GiveUp
  <2> QED
    BY <2>2, <2>3, <2>4
<1>10. CASE EndGroup
  BY <1>7, <1>10 DEF EndGroup, GiveUp
<1> QED
  BY <1>9, <1>10

\* No action belongs to no step.
LEMMA FirstOfNone ==
    ASSUME pipe \in Pipes
    PROVE  FirstOf(LoopSteps, 0) = {}
<1>1. PhaseOK(LoopSteps, LoopSteps, {}, 0, FALSE)
  BY PhaseBegins DEF LoopSteps
<1>2. Rest(LoopSteps, LoopSteps) /\ LoopSteps \ LoopSteps = {} /\ Cardinality({}) = 0
  BY FS_EmptySet DEF Rest
<1> QED
  BY <1>2, ActionsLineUp DEF LoopSteps

\* What is aggregated of an item stays so while nothing of it changes.
LEMMA AggregatedStays ==
    ASSUME pipe \in Pipes, [Next]_vars, UNCHANGED <<ctx, agg, acted>>
    PROVE  \A s \in LoopSteps : Aggregated'[s] = Aggregated[s]
<1>1. LoopSteps' = LoopSteps /\ Steps' = Steps /\ \A s : Kind(s)' = Kind(s)
  BY SamePipe, SameSteps
<1>2. FirstOf(LoopSteps, acted)' = FirstOf(LoopSteps, acted)
  BY <1>1 DEF FirstOf
<1>3. \A s : Yield(ctx, s)' = Yield(ctx, s)
  BY <1>1 DEF Yield
<1> QED
  BY <1>1, <1>2, <1>3 DEF Aggregated

\* Aggregates and what was made stay in step.
LEMMA AggsStep ==
    ASSUME Shape, Aggs, [Next]_vars
    PROVE  Aggs'
<1> SUFFICES ASSUME ~Linear PROVE Aggs'
  <2>1. Linear' = Linear
    BY SamePipe
  <2> QED
    BY <2>1 DEF Aggs
<1>1. /\ pipe \in Pipes /\ LoopSteps \subseteq Steps
      /\ LoopSteps' = LoopSteps /\ Steps' = Steps
  BY SamePipe, PhasesOfSteps DEF Shape, IInv, Typed
<1>2. ASSUME UNCHANGED <<stage, ctx, agg, acted, made>>
      PROVE  Aggs'
  BY <1>1, <1>2, AggregatedStays DEF Aggs
<1>3. ASSUME \A s \in LoopSteps : agg'[s] = made'[s], stage' # "item"
      PROVE  Aggs'
  BY <1>1, <1>3 DEF Aggs
<1>4. ASSUME stage \in {"new", "pre", "head", "sealed", "post"},
             UNCHANGED <<agg, made>>, stage' # "item"
      PROVE  Aggs'
  BY <1>3, <1>4 DEF Aggs
<1>5. ASSUME stage' \notin {"new", "pre", "head", "sealed", "post", "item"}
      PROVE  Aggs'
  BY <1>5 DEF Aggs
<1>6. CASE Start \/ EndPre \/ EndItem \/ StartPost
  BY <1>4, <1>6 DEF Start, EndPre, PhaseDone, EndItem, StartPost, EnterPhase, pastVars
<1>7. CASE SegmentCancelled \/ ItemCancelled \/ EndPost \/ Finish \/ FailEvent \/ FailSnapshot
  BY <1>5, <1>7 DEF SegmentCancelled, ItemCancelled, GiveUp, EndPost, Finish, FailEvent,
     FailSnapshot
<1>8. CASE Crash
  BY <1>5, <1>8 DEF Crash
<1>9. CASE Resume
  <2>1. agg' = NoAgg /\ made' = NoAgg /\ stage' # "item"
    BY <1>9 DEF Resume
  <2> QED
    BY <1>3, <2>1
<1>10. CASE UNCHANGED vars \/ Cancel \/ NextSegment
  BY <1>2, <1>10 DEF vars, Cancel, NextSegment, actVars, pastVars
<1>11. ASSUME NEW s \in Steps, RunStep(s)
       PROVE  Aggs'
  BY <1>2, <1>11, RunStepIsInBranch DEF InBranch, actVars, pastVars
<1>12. CASE StartItem
  <2>1. stage = "head" /\ stage' = "item" /\ acted' = 0 /\ agg' = agg /\ made' = made
    BY <1>12 DEF StartItem, EnterPhase, pastVars
  <2>2. FirstOf(LoopSteps, acted)' = {}
    <3>1. FirstOf(LoopSteps, acted)' = FirstOf(LoopSteps, 0)
      BY <1>1, <2>1 DEF FirstOf
    <3> QED
      BY <1>1, <3>1, FirstOfNone
  <2>3. ASSUME NEW s \in LoopSteps
        PROVE  Aggregated'[s] = made'[s]
    <3>1. Aggregated'[s] = agg'[s]
      BY <1>1, <2>2 DEF Aggregated
    <3> QED
      BY <2>1, <3>1 DEF Aggs
  <2> QED
    BY <1>1, <2>1, <2>3 DEF Aggs
<1>13. CASE Seal
  <2>1. stage = "item" /\ stage' = "sealed" /\ agg' = Aggregated /\ made' = made
    BY <1>13 DEF Seal, PhaseDone
  <2> QED
    BY <1>3, <2>1 DEF Aggs
<1>14. CASE EndStep \/ EndGroup
  <2>1. /\ stage \in Phases /\ agg' = agg
        /\ stage' = stage \/ stage' = "failing"
        /\ made' = made \/ Remember(ctx')
    <3>1. seg # {}
      BY <1>14 DEF EndStep, EndGroup, Returned
    <3>2. stage \in Phases
      BY <3>1 DEF Shape, IInv, Branches
    <3> QED
      BY <1>14, <3>2 DEF EndStep, EndGroup, EndSegment, GiveUp, pastVars
  <2>2. CASE stage' = "failing"
    BY <1>5, <2>2
  <2>3. CASE stage = "item" /\ stage' = "item"
    <3>1. \A s \in LoopSteps : Aggregated'[s] = made'[s]
      BY <1>14, <2>3, AggsBarrier
    <3> QED
      BY <1>1, <2>3, <3>1 DEF Aggs
  <2>4. CASE stage \in {"pre", "post"} /\ stage' = stage
    <3>1. seg \subseteq StepsOf(stage)
      BY <2>1 DEF Shape, Places, InPhase, PhaseOK, Rest
    <3>2. \A s \in LoopSteps : s \notin seg
      BY <2>4, <3>1, PhasesOfSteps DEF StepsOf
    <3>3. \A s \in LoopSteps : made'[s] = made[s]
      BY <1>1, <2>1, <3>2 DEF Remember
    <3> QED
      BY <1>3, <2>1, <2>4, <3>3 DEF Aggs
  <2> QED
    BY <2>1, <2>2, <2>3, <2>4 DEF Phases
<1> QED
  BY <1>6, <1>7, <1>8, <1>9, <1>10, <1>11, <1>12, <1>13, <1>14 DEF Next, Proceed

\* steps.go, runWithStore: acts[i] is taken for the action of the i-th step of
\* the chain, and what the foreach aggregates of it is what the step gave.
THEOREM AggregatesStayOutputs == RunSpec => []AggregatesAreOutputs
<1>1. Init => Aggs
  BY DEF Init, Aggs
<1>2. Shape /\ Aggs /\ [Next]_vars => Aggs'
  BY AggsStep
<1>3. Aggs => AggregatesAreOutputs
  BY DEF Aggs, AggregatesAreOutputs
<1> QED
  BY <1>1, <1>2, <1>3, ShapeInvariant, PTL DEF RunSpec

-----------------------------------------------------------------------------
(* Whole groups                                                            *)

\* Where a branch has its output, the others of its group and phase have come
\* to their end.
WholeIn(c) ==
    \A s, t \in Steps :
        Mates(pipe, s, t) /\ SamePhase(s, t) /\ s # t /\ c.out[s] # Absent
        => t \in whole

Wholes == WholeIn(ctx) /\ (disk # Absent => WholeIn(disk))

\* A step that has come to its end once has done so for good.
LEMMA WholeGrows ==
    ASSUME [Next]_vars
    PROVE  whole \subseteq whole'
<1>1. ASSUME NEW s \in Steps, RunStep(s)
      PROVE  whole' = whole
  BY <1>1, RunStepIsInBranch DEF InBranch, pastVars
<1>2. CASE Start \/ Resume \/ Cancel \/ Crash \/ UNCHANGED vars
  BY <1>2 DEF Start, Resume, Cancel, Crash, vars, pastVars
<1>3. CASE EndStep \/ EndGroup
  BY <1>3 DEF EndStep, EndGroup, Remember, pastVars
<1>4. CASE SegmentCancelled \/ NextSegment \/ ItemCancelled \/ EndPre
  BY <1>4 DEF SegmentCancelled, NextSegment, ItemCancelled, EndPre, pastVars
<1>5. CASE StartItem \/ Seal \/ EndItem \/ StartPost
  BY <1>5 DEF StartItem, Seal, EndItem, StartPost, pastVars
<1>6. CASE EndPost \/ Finish \/ FailEvent \/ FailSnapshot
  BY <1>6 DEF EndPost, Finish, FailEvent, FailSnapshot, pastVars
<1> QED
  BY <1>1, <1>2, <1>3, <1>4, <1>5, <1>6 DEF Next, Proceed

\* Nothing but the outputs of a segment comes into a context.
LEMMA WholeKept ==
    ASSUME [Next]_vars, NEW c, WholeIn(c), NEW d,
           \A s \in Steps : d.out[s] # Absent => c.out[s] # Absent
    PROVE  WholeIn(d)'
<1>1. /\ Steps' = Steps /\ whole \subseteq whole'
      /\ \A s, t : Mates(pipe, s, t)' = Mates(pipe, s, t)
      /\ \A s, t : SamePhase(s, t)' = SamePhase(s, t)
  BY SamePipe, SameSteps, WholeGrows
<1> QED
  BY <1>1 DEF WholeIn

\* The steps that run are a whole group of their phase.
LEMMA SegmentIsGroup ==
    ASSUME Shape, stage \in Phases,
           NEW s \in seg, NEW t \in Steps, Mates(pipe, s, t), SamePhase(s, t)
    PROVE  t \in seg
<1> DEFINE P == StepsOf(stage)
<1>1. PhaseOK(P, todo, seg, acted, aborted)
  BY DEF Shape, Places, InPhase
<1>2. Grouped(seg, P) /\ s \in P
  BY <1>1 DEF PhaseOK, Rest
<1>3. P \in {PreSteps, LoopSteps, PostSteps}
  BY DEF StepsOf, Phases
<1>4. PICK S \in {PreSteps, LoopSteps, PostSteps} : s \in S /\ t \in S
  BY DEF SamePhase
<1>5. P = S
  BY <1>2, <1>3, <1>4, PhasesOfSteps
<1> QED
  BY <1>2, <1>4, <1>5 DEF Grouped

\* A merge adds all outputs of a group or none.
LEMMA WholeMerged ==
    ASSUME Shape, WholeIn(ctx), [Next]_vars, EndStep \/ EndGroup, ctx' = Merged
    PROVE  WholeIn(ctx)'
<1>1. /\ ctx \in Contexts /\ BranchesOK /\ seg \subseteq Steps
      /\ seg # {} /\ stage \in Phases
  BY DEF Shape, IInv, Branches, Values, Places, EndStep, EndGroup, Returned
<1>2. /\ Steps' = Steps /\ whole \subseteq whole'
      /\ \A s, t : Mates(pipe, s, t)' = Mates(pipe, s, t)
      /\ \A s, t : SamePhase(s, t)' = SamePhase(s, t)
  BY SamePipe, SameSteps, WholeGrows
<1> SUFFICES ASSUME NEW s \in Steps, NEW t \in Steps, Mates(pipe, s, t),
                    SamePhase(s, t), s # t, Merged.out[s] # Absent
             PROVE  t \in whole'
  BY <1>2 DEF WholeIn
<1>3. CASE s \notin seg
  <2>1. Merged.out[s] = ctx.out[s]
    BY <1>1, <1>3, MergedIs
  <2> QED
    BY <1>2, <2>1 DEF WholeIn
<1>4. CASE s \in seg
  <2>1. t \in seg
    BY <1>1, <1>4, SegmentIsGroup
  <2>2. Cardinality(seg) # 1
    <3>1. IsFiniteSet(seg)
      BY <1>1, StepsFinite DEF Shape, IInv, Typed
    <3>2. ~\E x : seg = {x}
      BY <1>4, <2>1
    <3> QED
      BY <3>1, <3>2, FS_Singleton
  <2>3. EndGroup
    BY <2>2 DEF EndStep
  <2>4. CASE Bad = {}
    <3>1. branch[t].st \in {"idle", "run", "ok", "stop", "err", "cut"}
      BY <1>1 DEF BranchesOK, BranchOf
    <3>2. branch[t].st \notin {"idle", "run", "cut", "err", "stop"}
      BY <2>1, <2>3, <2>4 DEF EndGroup, Returned, Shape, Places, Bad
    <3>3. Remember(ctx')
      BY <2>3, <2>4 DEF EndGroup
    <3> QED
      BY <2>1, <3>1, <3>2, <3>3 DEF Remember
  <2>5. CASE Bad # {}
    <3>1. Merged = ctx
      BY <2>3, <2>5 DEF EndGroup
    <3> QED
      BY <1>2, <3>1 DEF WholeIn
  <2> QED
    BY <2>4, <2>5
<1> QED
  BY <1>3, <1>4

\* Contexts and snapshots hold groups whole.
LEMMA WholesStep ==
    ASSUME Shape, Wholes, [Next]_vars
    PROVE  Wholes'
<1>1. /\ pipe \in Pipes /\ ctx \in Contexts /\ ListsOK(agg) /\ item \in Nat
      /\ WholeIn(ctx) /\ (disk # Absent => WholeIn(disk))
  BY SomeItems DEF Shape, IInv, Typed, Values, Wholes
<1>2. WholeIn(ctx)'
  <2>1. CASE UNCHANGED ctx
    BY <1>1, <2>1, WholeKept
  <2>2. CASE Resume /\ disk # Absent /\ ctx' = disk
    BY <1>1, <2>2, WholeKept
  <2>3. CASE Crash /\ ctx' = Fresh
    <3>1. \A s \in Steps : ctx'.out[s] = Absent
      BY <2>3 DEF Fresh, Nothing
    <3> QED
      BY <1>1, <3>1, WholeKept
  <2>4. CASE (EndStep \/ EndGroup) /\ ctx' = Merged
    BY <1>1, <2>4, WholeMerged
  <2>5. CASE StartItem
    <3>1. \A s \in Steps : ctx'.out[s] # Absent => ctx.out[s] # Absent
      BY <1>1, <2>5, ItemContext
    <3> QED
      BY <1>1, <3>1, WholeKept
  <2>6. CASE Seal /\ ~Linear /\ ctx' = WithAggregates(ctx, Aggregated)
    <3>1. ctx'.out = ctx.out
      BY <1>1, <2>6, AggregatedIs, AggregatesIn
    <3> QED
      BY <1>1, <3>1, WholeKept
  <2>7. CASE StartPost /\ ctx' = WithAggregates(ctx, agg)
    <3>1. ctx'.out = ctx.out
      BY <1>1, <2>7, AggregatesIn
    <3> QED
      BY <1>1, <3>1, WholeKept
  <2> QED
    BY <2>1, <2>2, <2>3, <2>4, <2>5, <2>6, <2>7, ContextMovers
<1>3. CASE disk' = disk
  BY <1>1, <1>2, <1>3, WholeKept DEF Wholes
<1>4. CASE disk' = ctx'
  BY <1>2, <1>4 DEF Wholes, WholeIn
<1> QED
  BY <1>3, <1>4, DiskIsContext

\* parallel.go, the barrier: what a snapshot holds of a group that stands in
\* one phase is never the work of some of its branches only.
THEOREM GroupsStayWhole == RunSpec => []GroupsAreWhole
<1>1. Init => Wholes
  BY DEF Init, Wholes, WholeIn, Fresh, Nothing
<1>2. Shape /\ Wholes /\ [Next]_vars => Wholes'
  BY WholesStep
<1>3. Wholes => GroupsAreWhole
  BY DEF Wholes, WholeIn, GroupsAreWhole
<1> QED
  BY <1>1, <1>2, <1>3, ShapeInvariant, PTL DEF RunSpec

-----------------------------------------------------------------------------
(* How the run looks from outside: Runner implements RunLedger             *)

\* A branch is cut, and a run given up as cancelled, only once it is cancelled;
\* what is resumed has said something.
LifeInv ==
    /\ cancelled \in BOOLEAN
    /\ stage = "new" => ~cancelled
    /\ \A s \in Steps : branch[s].st = "cut" => cancelled
    /\ stage = "failing" => status \in {"run_failed", "run_cancelled"}
    /\ stage = "failing" /\ status = "run_cancelled" => cancelled
    /\ journal.started => journal.last # "none"

\* Of the events about the whole run, a live process writes only its verdict.
LEMMA VerdictIsLast ==
    ASSUME Typed, Branches, Chains, Proceed, ~Finish, ~FailEvent
    PROVE  journal'.last = journal.last /\ journal'.started = journal.started
<1>1. ASSUME NEW c, Save(c)
      PROVE  journal'.last = journal.last /\ journal'.started = journal.started
  <2>1. journal' = journal \/ journal' = [journal EXCEPT !.noted = @ \/ ~lost]
    BY <1>1 DEF Save, NoteLoss
  <2> QED
    BY <2>1 DEF Typed, JournalType
<1>2. ASSUME NEW s \in Steps, RunStep(s)
      PROVE  journal'.last = journal.last /\ journal'.started = journal.started
  <2>1. UNCHANGED ioVars \/ StepEnd(s)
    BY <1>2 DEF RunStep, Succeed, BreakContract, PassOver, PlatformError, Retry, Skip,
       Stop, Decide, Cut
  <2>2. CASE StepEnd(s)
    <3> DEFINE j == [journal EXCEPT !.stepOk = @ \cup {s}]
    <3>1. j.last = journal.last /\ j.started = journal.started
      BY DEF Typed, JournalType
    <3> HIDE DEF j
    <3>2. CASE Linear
      <4>1. Log(j)
        BY <2>2, <3>2 DEF StepEnd, j
      <4> QED
        BY <3>1, <4>1 DEF Log
    <3>3. CASE ~Linear
      BY <2>2, <3>3 DEF StepEnd, Log
    <3> QED
      BY <3>2, <3>3
  <2> QED
    BY <2>1, <2>2 DEF ioVars
<1>3. CASE EndItem
  <2> DEFINE j == [journal EXCEPT !.ended[item] = status]
  <2>1. j.last = journal.last /\ j.started = journal.started
    BY DEF Typed, JournalType
  <2>2. Log(j)
    BY <1>3 DEF EndItem
  <2> HIDE DEF j
  <2> QED
    BY <2>1, <2>2 DEF Log
<1>4. CASE EndStep \/ EndGroup \/ SegmentCancelled \/ NextSegment \/ ItemCancelled
  BY <1>1, <1>4 DEF EndStep, EndGroup, SegmentCancelled, NextSegment, ItemCancelled, ioVars
<1>5. CASE EndPre \/ StartItem \/ Seal \/ StartPost \/ EndPost \/ FailSnapshot
  BY <1>1, <1>5 DEF EndPre, StartItem, Seal, StartPost, EndPost, FailSnapshot, ioVars
<1> QED
  BY <1>2, <1>3, <1>4, <1>5 DEF Proceed

\* A live process goes from stage to stage; only Finish, FailSnapshot and a
\* phase before the items that came to nothing bring it back to its caller.
LEMMA StageOfProcess ==
    ASSUME Branches, Proceed
    PROVE  /\ stage \in Working /\ stage' \in Working \cup {"over"}
           /\ stage' = "failed" <=> FailEvent
           /\ stage = "failed" <=> FailSnapshot
           /\ stage' = "over" => EndPre \/ Finish \/ FailSnapshot
           /\ stage' = "failing" /\ ~(\E s \in Steps : RunStep(s))
                 => EndStep \/ EndGroup \/ SegmentCancelled \/ ItemCancelled
<1>1. ASSUME NEW s \in Steps, RunStep(s)
      PROVE  stage' = stage /\ stage \in Phases
  BY <1>1, RunStepIsInBranch DEF InBranch, Running, Branches
<1>2. CASE EndStep \/ EndGroup
  <2>1. stage \in Phases /\ stage' \in {stage, "failing"}
    BY <1>2 DEF EndStep, EndGroup, GiveUp, Returned, Branches
  <2>2. ~FailEvent /\ ~FailSnapshot
    BY <2>1 DEF FailEvent, FailSnapshot, Phases
  <2> QED
    BY <1>2, <2>1, <2>2 DEF Working, Phases
<1>3. CASE SegmentCancelled \/ NextSegment \/ ItemCancelled \/ StartItem \/ StartPost
  BY <1>3 DEF SegmentCancelled, NextSegment, ItemCancelled, StartItem, StartPost, GiveUp,
     EnterPhase, FailEvent, FailSnapshot, Working, Phases
<1>4. CASE EndPre \/ Seal \/ EndItem \/ EndPost
  BY <1>4 DEF EndPre, Seal, EndItem, EndPost, PhaseDone, FailEvent, FailSnapshot, Working, Phases
<1>5. CASE Finish \/ FailEvent \/ FailSnapshot
  BY <1>5 DEF Finish, FailEvent, FailSnapshot, Working, Phases
<1> QED
  <2>1. CASE \E s \in Steps : RunStep(s)
    BY <1>1, <2>1 DEF FailEvent, FailSnapshot, Working, Phases
  <2> QED
    BY <1>2, <1>3, <1>4, <1>5, <2>1 DEF Proceed

\* A step function cuts its branch only when the run is cancelled.
LEMMA OnlyCancelCuts ==
    ASSUME BranchesOK, NEW s \in Steps, RunStep(s), NEW t \in Steps, branch'[t].st = "cut"
    PROVE  branch[t].st = "cut" \/ cancelled
<1>1. branch = [u \in Steps |-> branch[u]] /\ branch[s] \in BranchOf(s) /\ branch[s].st = "run"
  BY RunStepIsInBranch DEF BranchesOK, Running
<1>2. ASSUME NEW b, branch' = [branch EXCEPT ![s] = b], b.st # "cut"
      PROVE  branch[t].st = "cut"
  BY <1>1, <1>2
<1>3. ASSUME NEW out, PassedWith(s, out)
      PROVE  branch[t].st = "cut"
  <2>1. PICK b \in PassEnds(s, out) : branch' = [branch EXCEPT ![s] = b]
    BY <1>3 DEF PassedWith
  <2>2. b.st \in {"ok", "run"}
    BY <1>1, <2>1 DEF PassEnds, BranchOf
  <2> QED
    BY <1>2, <2>1, <2>2
<1>4. ASSUME NEW st \in {"ok", "stop", "err"}, Becomes(s, st)
      PROVE  branch[t].st = "cut"
  <2>1. [branch[s] EXCEPT !.st = st].st = st
    BY <1>1 DEF BranchOf
  <2> QED
    BY <1>2, <1>4, <2>1 DEF Becomes
<1>5. CASE Retry(s)
  <2>1. [branch[s] EXCEPT !.try = @ + 1].st = "run"
    BY <1>1 DEF BranchOf
  <2> QED
    BY <1>2, <1>5, <2>1 DEF Retry
<1>6. CASE Succeed(s) \/ Skip(s) \/ Decide(s)
  BY <1>3, <1>4, <1>6 DEF Succeed, Skip, Decide
<1>7. CASE BreakContract(s) \/ PassOver(s) \/ PlatformError(s) \/ Stop(s)
  BY <1>4, <1>7 DEF BreakContract, PassOver, PlatformError, Stop
<1>8. CASE Cut(s)
  BY <1>8 DEF Cut
<1> QED
  BY <1>5, <1>6, <1>7, <1>8 DEF RunStep

\* The verdict of a segment is "cancelled" only if one of its branches was cut.
LEMMA CutsAreCancelled ==
    ASSUME Shape, LifeInv, EndStep \/ EndGroup, stage' = "failing"
    PROVE  /\ status' \in {"run_failed", "run_cancelled"}
           /\ status' = "run_cancelled" => cancelled
<1>1. stage \in Phases /\ status' = Verdict /\ seg \subseteq Steps
  BY DEF EndStep, EndGroup, GiveUp, Returned, Shape, IInv, Branches, Values, Phases, Places, Typed
<1>2. Cuts # {} => cancelled
  BY <1>1 DEF Cuts, LifeInv
<1> QED
  BY <1>1, <1>2 DEF Verdict

\* Who cuts a branch was cancelled, and a failed run knows its verdict.
LEMMA LifeStep ==
    ASSUME Shape, LifeInv, [Next]_vars
    PROVE  LifeInv'
<1>1. /\ Typed /\ Branches /\ Chains /\ Steps' = Steps /\ NoBranch' = NoBranch
  BY PipeFixed DEF Shape, IInv
<1>2. CASE Proceed
  <2>1. cancelled' = cancelled /\ stage \in Working /\ stage' # "new"
    BY <1>1, <1>2, ProceedKeeps, StageOfProcess DEF procVars, Working, Phases
  <2>2. \A s \in Steps : branch'[s].st = "cut" => cancelled
    <3>1. CASE \E s \in Steps : RunStep(s)
      <4>1. PICK s \in Steps : RunStep(s)
        BY <3>1
      <4>2. ASSUME NEW t \in Steps, branch'[t].st = "cut"
            PROVE  branch[t].st = "cut" \/ cancelled
        BY <1>1, <4>1, <4>2, OnlyCancelCuts DEF Shape, Values
      <4> QED
        BY <4>2 DEF LifeInv
    <3>2. CASE branch' = NoBranch
      BY <3>2 DEF NoBranch, Idle
    <3>3. CASE NextSegment /\ branch' = [s \in Steps |->
                  IF s \in Segment(todo) THEN BeginBranch(s) ELSE Idle]
      BY <3>3 DEF BeginBranch, Idle
    <3> QED
      BY <1>1, <3>1, <3>2, <3>3, BranchMovers DEF LifeInv
  <2>3. ASSUME stage' = "failing"
        PROVE  /\ status' \in {"run_failed", "run_cancelled"}
               /\ status' = "run_cancelled" => cancelled
    <3>1. CASE \E s \in Steps : RunStep(s)
      BY <2>3, <3>1, RunStepIsInBranch DEF InBranch, LifeInv
    <3>2. CASE SegmentCancelled \/ ItemCancelled
      BY <3>2 DEF SegmentCancelled, ItemCancelled, GiveUp
    <3> QED
      BY <1>1, <1>2, <2>3, <3>1, <3>2, CutsAreCancelled, StageOfProcess
  <2>4. journal'.started => journal'.last # "none"
    <3>1. CASE Finish \/ FailEvent
      <4>1. PICK v \in {"run_end", "run_failed", "run_cancelled"} : Log([journal EXCEPT !.last = v])
        BY <3>1 DEF Finish, FailEvent, LifeInv
      <4>2. [journal EXCEPT !.last = v].last = v
        BY <1>1 DEF Typed, JournalType
      <4> QED
        BY <4>1, <4>2 DEF Log, LifeInv
    <3> QED
      BY <1>1, <1>2, <3>1, VerdictIsLast DEF LifeInv
  <2> QED
    BY <1>1, <2>1, <2>2, <2>3, <2>4 DEF LifeInv
<1>3. CASE Start
  <2>1. /\ cancelled' = cancelled /\ UNCHANGED branch /\ stage' # "failing" /\ stage' # "new"
        /\ Log([journal EXCEPT !.started = TRUE, !.last = "run_start"])
    BY <1>3 DEF Start, EnterPhase, procVars, segVars
  <2>2. [journal EXCEPT !.started = TRUE, !.last = "run_start"].last = "run_start"
    BY <1>1 DEF Typed, JournalType
  <2> QED
    BY <1>1, <2>1, <2>2 DEF Log, LifeInv
<1>4. CASE Resume
  <2>1. /\ cancelled' = FALSE /\ branch' = NoBranch /\ stage' \in {"head", "over"}
        /\ journal' \in {journal, [journal EXCEPT !.last = "run_resumed"]}
    BY <1>4 DEF Resume
  <2>2. [journal EXCEPT !.last = "run_resumed"].last = "run_resumed"
    BY <1>1 DEF Typed, JournalType
  <2> QED
    BY <1>1, <2>1, <2>2 DEF LifeInv, NoBranch, Idle
<1>5. CASE Cancel
  <2>1. cancelled' = TRUE /\ UNCHANGED <<branch, stage, status, journal>> /\ stage # "new"
    BY <1>5 DEF Cancel, segVars, ioVars, Working, Phases
  <2> QED
    BY <1>1, <2>1 DEF LifeInv
<1>6. CASE Crash
  BY <1>1, <1>6 DEF Crash, LifeInv, NoBranch, Idle
<1>7. CASE UNCHANGED vars
  BY <1>1, <1>7 DEF vars, segVars, ioVars, procVars, LifeInv
<1> QED
  BY <1>2, <1>3, <1>4, <1>5, <1>6, <1>7 DEF Next

\* So it is in every behaviour.
LEMMA LifeInvariant == RunSpec => [](Shape /\ LifeInv)
<1>1. Init => LifeInv
  <2> SUFFICES ASSUME Init PROVE LifeInv
    OBVIOUS
  <2>1. stage = "new" /\ cancelled = FALSE /\ branch = NoBranch /\ journal.started = FALSE
    BY DEF Init, NoJournal
  <2>2. \A s \in Steps : branch[s].st = "idle"
    BY <2>1 DEF NoBranch, Idle
  <2> QED
    BY <2>1, <2>2 DEF LifeInv
<1>2. Shape /\ LifeInv /\ [Next]_vars => LifeInv'
  BY LifeStep
<1> QED
  BY <1>1, <1>2, ShapeInvariant, PTL DEF RunSpec

Outside == [r \in {"run"} |-> Seen]

\* What the ledger becomes.
LEMMA LedgerBecomes ==
    ASSUME NEW life, NEW told, NEW c, Life' = life, journal'.last = told,
           (stage' \in Working /\ cancelled') = c
    PROVE  Ledger!Becomes("run", life, told, c)
<1>1. Seen' = [life |-> life, told |-> told, cancelled |-> c]
  BY DEF Seen
<1>2. [r \in {"run"} |-> Seen]'
         = [[r \in {"run"} |-> Seen] EXCEPT !["run"] = [life |-> life, told |-> told, cancelled |-> c]]
  BY <1>1
<1> QED
  BY <1>2 DEF Ledger!Becomes

\* A step of the run is a step of the ledger, or is not seen from outside.
LEMMA LedgerStep ==
    ASSUME Shape, LifeInv, [Next]_vars
    PROVE  Ledger!LedgerNext \/ Outside' = Outside
<1>1. /\ Typed /\ Branches /\ Chains /\ cancelled \in BOOLEAN
      /\ Outside["run"] = Seen
      /\ Seen.life = Life /\ Seen.told = journal.last /\ Seen.cancelled = (stage \in Working /\ cancelled)
  BY DEF Shape, IInv, LifeInv, Outside, Seen
<1>2. ASSUME stage' = stage, journal'.last = journal.last, cancelled' = cancelled
      PROVE  Outside' = Outside
  BY <1>2 DEF Outside, Seen, Life
<1>3. CASE Start
  <2>1. /\ stage = "new" /\ stage' \in Working \ {"failed"} /\ cancelled' = cancelled /\ cancelled = FALSE
        /\ Log([journal EXCEPT !.started = TRUE, !.last = "run_start"])
    BY <1>3 DEF Start, EnterPhase, procVars, Working, Phases, LifeInv
  <2>2. [journal EXCEPT !.started = TRUE, !.last = "run_start"].last = "run_start"
    BY <1>1 DEF Typed, JournalType
  <2>3. journal'.last \in {journal.last, "run_start"}
    BY <2>1, <2>2 DEF Log
  <2>4. Life = "new" /\ Life' = "working"
    BY <2>1 DEF Life, Working, Phases
  <2>5. Ledger!Becomes("run", "working", journal'.last, Seen.cancelled)
    BY <1>1, <2>1, <2>4, LedgerBecomes DEF Working, Phases
  <2> QED
    BY <1>1, <2>3, <2>4, <2>5 DEF Ledger!LedgerNext, Ledger!Begin, Ledger!Told, Outside
<1>4. CASE Cancel
  <2>1. stage' = stage /\ stage \in Working /\ cancelled' = TRUE /\ journal' = journal
    BY <1>4 DEF Cancel, ioVars
  <2>2. Life' = Life /\ Life # "rest"
    BY <2>1 DEF Life, Working, Phases
  <2>3. Ledger!Becomes("run", Seen.life, Seen.told, TRUE)
    BY <1>1, <2>1, <2>2, LedgerBecomes
  <2> QED
    BY <1>1, <2>2, <2>3 DEF Ledger!LedgerNext, Ledger!Cancel, Outside
<1>5. CASE Crash
  <2>1. stage \in Working /\ stage' = "dead" /\ journal' = journal
    BY <1>5 DEF Crash
  <2>2. Life # "rest" /\ Life' = "rest"
    BY <2>1 DEF Life, Working, Phases
  <2>3. Ledger!Becomes("run", "rest", Seen.told, FALSE)
    BY <1>1, <2>1, <2>2, LedgerBecomes DEF Working, Phases
  <2> QED
    BY <1>1, <2>2, <2>3 DEF Ledger!LedgerNext, Ledger!Leave, Outside
<1>6. CASE Resume
  <2>1. /\ stage \in {"over", "dead"} /\ stage' \in {"head", "over"} /\ cancelled' = FALSE /\ journal.started
        /\ journal' \in {journal, [journal EXCEPT !.last = "run_resumed"]}
    BY <1>6 DEF Resume
  <2>2. [journal EXCEPT !.last = "run_resumed"].last = "run_resumed"
    BY <1>1 DEF Typed, JournalType
  <2>3. journal'.last \in {journal.last, "run_resumed"} /\ journal.last # "none"
    BY <2>1, <2>2 DEF LifeInv
  <2>4. Life = "rest" /\ Life' \in {"working", "rest"}
    BY <2>1 DEF Life
  <2>5. Ledger!Becomes("run", Life', journal'.last, FALSE)
    BY <2>1, LedgerBecomes
  <2> QED
    BY <1>1, <2>3, <2>4, <2>5 DEF Ledger!LedgerNext, Ledger!Resume, Ledger!Told, Outside
<1>7. CASE Proceed
  <2>1. /\ stage \in Working /\ stage' \in Working \cup {"over"} /\ cancelled' = cancelled
        /\ stage' = "failed" <=> FailEvent
        /\ stage = "failed" <=> FailSnapshot
        /\ stage' = "over" => EndPre \/ Finish \/ FailSnapshot
    BY <1>1, <1>7, StageOfProcess, ProceedKeeps DEF procVars
  <2>2. CASE FailEvent
    <3>1. /\ stage = "failing" /\ stage' = "failed" /\ Log([journal EXCEPT !.last = status])
          /\ status \in {"run_failed", "run_cancelled"} /\ (status = "run_cancelled" => cancelled)
      BY <2>2 DEF FailEvent, LifeInv
    <3>2. [journal EXCEPT !.last = status].last = status
      BY <1>1 DEF Typed, JournalType
    <3>3. journal'.last \in {journal.last, status}
      BY <3>1, <3>2 DEF Log
    <3>4. Life = "working" /\ Life' = "concluded"
      BY <3>1 DEF Life
    <3>5. Ledger!Becomes("run", "concluded", journal'.last, Seen.cancelled)
      BY <1>1, <2>1, <3>1, <3>4, LedgerBecomes DEF Working, Phases
    <3>6. Ledger!Conclude("run")
      BY <1>1, <3>1, <3>3, <3>4, <3>5 DEF Ledger!Conclude, Ledger!Told, Ledger!Verdicts, Outside, Working
    <3> QED
      BY <3>6 DEF Ledger!LedgerNext
  <2>3. CASE Finish
    <3>1. /\ stage = "ending" /\ stage' = "over" /\ Log([journal EXCEPT !.last = status'])
          /\ status' \in {"run_failed", "run_end"}
      BY <2>3 DEF Finish
    <3>2. [journal EXCEPT !.last = status'].last = status'
      BY <1>1 DEF Typed, JournalType
    <3>3. journal'.last \in {journal.last, status'}
      BY <3>1, <3>2 DEF Log
    <3>4. Life = "working" /\ Life' = "rest"
      BY <3>1 DEF Life
    <3>5. Ledger!Becomes("run", "rest", journal'.last, FALSE)
      BY <3>1, <3>4, LedgerBecomes DEF Working, Phases
    <3>6. Ledger!Conclude("run")
      BY <1>1, <3>1, <3>3, <3>4, <3>5 DEF Ledger!Conclude, Ledger!Told, Ledger!Verdicts, Outside
    <3> QED
      BY <3>6 DEF Ledger!LedgerNext
  <2>4. CASE ~FailEvent /\ ~Finish
    <3>1. journal'.last = journal.last
      BY <1>1, <1>7, <2>4, VerdictIsLast
    <3>2. CASE stage' = "over"
      <4>1. Life # "rest" /\ Life' = "rest"
        BY <2>1, <3>2 DEF Life, Working, Phases
      <4>2. Ledger!Becomes("run", "rest", Seen.told, FALSE)
        BY <1>1, <3>1, <3>2, <4>1, LedgerBecomes DEF Working, Phases
      <4> QED
        BY <1>1, <4>1, <4>2 DEF Ledger!LedgerNext, Ledger!Leave, Outside
    <3>3. CASE stage' # "over"
      <4>1. stage # "failed" /\ stage' # "failed" /\ stage' \in Working
        BY <2>1, <2>4, <3>3 DEF FailSnapshot
      <4>2. Life = "working" /\ Life' = "working"
        BY <2>1, <4>1 DEF Life, Working, Phases
      <4> QED
        BY <2>1, <3>1, <4>1, <4>2 DEF Outside, Seen
    <3> QED
      BY <3>2, <3>3
  <2> QED
    BY <2>2, <2>3, <2>4
<1>8. CASE UNCHANGED vars
  BY <1>2, <1>8 DEF vars, ioVars, procVars
<1> QED
  BY <1>3, <1>4, <1>5, <1>6, <1>7, <1>8 DEF Next

\* finish and failEvent keep the promise of RunLedger, for every pipeline and
\* however writes fail, processes die, runs are cancelled and resumed: one
\* verdict per process, the last that it says, and "cancelled" only of a run
\* that was.
THEOREM RunKeepsItsLedger == RunSpec => RunKeepsLedger
<1>1. Init => Ledger!LedgerInit
  <2> SUFFICES ASSUME Init PROVE Ledger!LedgerInit
    OBVIOUS
  <2>1. Life = "new" /\ journal.last = "none" /\ (stage \in Working /\ cancelled) = FALSE
    BY DEF Init, Life, NoJournal, Working, Phases
  <2> QED
    BY <2>1 DEF Ledger!LedgerInit, Seen
<1>2. Shape /\ LifeInv /\ [Next]_vars => [Ledger!LedgerNext]_Outside
  BY LedgerStep
<1> QED
  BY <1>1, <1>2, LifeInvariant, PTL DEF RunSpec, RunKeepsLedger, Ledger!LedgerSpec, Outside

=============================================================================
