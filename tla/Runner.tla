------------------------------- MODULE Runner -------------------------------
(***************************************************************************)
(* One pipeline run (internal/execution: runWithStore, the step functions, *)
(* the parallel groups) with what it leaves on disk: the journal and the   *)
(* snapshot of its context (internal/journal/writer.go).  The process may  *)
(* be killed between any two steps, writes may fail, the run may be        *)
(* cancelled, and it may be resumed from what is on disk.                  *)
(*                                                                         *)
(* An output is the pair <<item, element>> it was made for, the item being *)
(* Absent in a pipeline without foreach.  Of the journal only what a       *)
(* resume reads back is kept, and the last event about the whole run.      *)
(***************************************************************************)
EXTENDS Naturals, Sequences, FiniteSets, FiniteSetsExt

CONSTANTS
    Pipes,        \* pipelines to consider, see PipeOK
    Elements,     \* elements of the array of a step with foreach
    MaxIter,      \* iterations of a step with loop
    MaxTries,     \* attempts of a step with on_error: retry
    MaxFaults,    \* bound on failed writes
    MaxResumes,   \* bound on resumes
    Absent        \* no value in the context, no snapshot

StepKinds == {"plain", "each", "loop", "gate"}

\* A step: how it runs, its parallel_group ("" for none), on_error, and
\* whether it comes after the items (after_foreach).
StepRecord == [kind : StepKinds, onError : {"stop", "skip", "retry"},
               post : BOOLEAN, group : STRING]

\* Two steps of one parallel_group.
Mates(p, s, t) == p.steps[s].group = p.steps[t].group /\ p.steps[s].group # ""

\* The steps of a group stand next to each other (E_PARALLEL_SPLIT), and no
\* gate or foreach is among them (E_GATE_PARALLEL, E_FOREACH_COMBO).
\* source: the last step before the items, whose output they are when the
\* pipeline's foreach is over steps.*; 0 otherwise.
PipeOK(p) ==
    /\ p.foreach \in {"none", "input", "steps"}
    /\ p.items \in Nat \ {0}
    /\ p.foreach = "none" => p.items = 1
    /\ p.steps \in Seq(StepRecord)
    /\ \A s \in DOMAIN p.steps :
           p.steps[s].group # "" => p.steps[s].kind \in {"plain", "loop"}
    /\ \A s, t, u \in DOMAIN p.steps :
           s < t /\ t < u /\ Mates(p, s, u) => Mates(p, s, t)
    /\ p.source \in IF p.foreach = "steps" THEN DOMAIN p.steps ELSE {0}

\* What a context may hold: an output is made for an item and an element, an
\* aggregate is a list of outputs.
ValueOf(p) ==
    {Absent} \cup (((0 .. p.items - 1) \cup {Absent}) \X (0 .. Elements + MaxIter))
ContextsOf(p) ==
    [item : (0 .. p.items - 1) \cup {Absent},
     out : [DOMAIN p.steps -> ValueOf(p)],
     all : [DOMAIN p.steps -> {Absent} \cup Seq(ValueOf(p))]]

ASSUME RunnerAssumption ==
    /\ \A p \in Pipes : PipeOK(p)
    /\ \A p \in Pipes : Absent \notin ContextsOf(p)
    /\ Absent \notin Nat
    /\ Elements \in Nat \ {0}
    /\ MaxIter \in Nat \ {0}
    /\ MaxTries \in Nat \ {0}
    /\ MaxFaults \in Nat
    /\ MaxResumes \in Nat

VARIABLES
    pipe,       \* the pipeline, the same in every process (pipeline_hash)
    stage,      \* where runWithStore is, see Stages
    item,       \* index of the item at hand
    todo,       \* steps of this phase that lie ahead
    seg,        \* steps of the segment that is running, {} between segments
    branch,     \* what each step of the segment has come to
    acted,      \* actions other than abort_item in acts
    aborted,    \* acts ends in abort_item
    ctx,        \* the context: outputs and aggregates of the steps
    agg,        \* agg of runWithStore
    skip,       \* opts.SkipSteps
    status,     \* itemStatus; the run's verdict from "failing" on
    cancelled,  \* opts.Ctx is cancelled
    lost,       \* snapshots were lost by this process
    prior,      \* ... and by an earlier one, as far as the journal tells
    werr,       \* journal events were lost by this process
    journal,    \* journal.jsonl
    disk,       \* context.json
    faults,     \* writes that have failed so far
    resumes,    \* resumes so far
    hidden,     \* history: a snapshot was lost, and the notice of it as well
    everLost,   \* history: some process lost a snapshot
    sealed,     \* history: items whose chain came to its end in this process
    whole,      \* history: steps that once came to their end
    made        \* history: the outputs of each step in this process

segVars == <<seg, branch>>
actVars == <<acted, aborted>>
ioVars == <<lost, werr, journal, disk, faults, hidden, everLost>>
procVars == <<pipe, skip, cancelled, prior, resumes>>
pastVars == <<sealed, whole, made>>
vars == <<pipe, stage, item, todo, seg, branch, acted, aborted, ctx, agg, skip,
          status, cancelled, lost, prior, werr, journal, disk, faults, resumes,
          hidden, everLost, sealed, whole, made>>

Phases == {"pre", "item", "post"}
Working == Phases \cup {"head", "sealed", "ending", "failing", "failed"}
Stages == Working \cup {"new", "over", "dead"}

-----------------------------------------------------------------------------
(* The shape of a pipeline                                                 *)

Steps == DOMAIN pipe.steps
Items == 0 .. pipe.items - 1
Kind(s) == pipe.steps[s].kind
OnError(s) == pipe.steps[s].onError
Linear == pipe.foreach = "none"

PreSteps == 1 .. pipe.source
PostSteps == {s \in Steps \ PreSteps : pipe.steps[s].post}
LoopSteps == Steps \ (PreSteps \cup PostSteps)

\* segmentSteps: the first of the steps S alone, or with those right after it
\* that are of the same group.
Segment(S) ==
    LET first == Min(S)
        group == pipe.steps[first].group
    IN  {s \in S : \/ s = first
                   \/ /\ group # ""
                      /\ \A t \in S : t <= s => pipe.steps[t].group = group}

\* The first n of the steps S, in the order of the list.
FirstOf(S, n) == {s \in S : Cardinality({t \in S : t <= s}) <= n}

Nothing == [s \in Steps |-> Absent]
Fresh == [item |-> Absent, out |-> Nothing, all |-> Nothing]
NoAgg == [s \in Steps |-> <<>>]
Idle == [st |-> "idle", e |-> 0, try |-> 1,
         out |-> Absent, all |-> Absent, vals |-> <<>>]
NoBranch == [s \in Steps |-> Idle]
NoJournal == [started |-> FALSE, ended |-> [i \in Items |-> "none"],
              stepOk |-> {}, noted |-> FALSE, last |-> "none"]

Init ==
    /\ pipe \in Pipes
    /\ stage = "new"
    /\ item = 0 /\ todo = {} /\ seg = {} /\ skip = {}
    /\ acted = 0 /\ aborted = FALSE
    /\ branch = NoBranch
    /\ ctx = Fresh
    /\ agg = NoAgg
    /\ status = "ok"
    /\ cancelled = FALSE /\ lost = FALSE /\ prior = FALSE /\ werr = FALSE
    /\ journal = NoJournal
    /\ disk = Absent
    /\ faults = 0 /\ resumes = 0
    /\ hidden = FALSE /\ everLost = FALSE
    /\ sealed = {} /\ whole = {}
    /\ made = NoAgg

-----------------------------------------------------------------------------
(* Journal.Event and Journal.Snapshot                                      *)

Fail(n) == faults + n <= MaxFaults /\ faults' = faults + n

\* Event: the journal becomes j, or the event is lost and counted.
Log(j) ==
    /\ \/ journal' = j /\ UNCHANGED <<faults, werr>>
       \/ Fail(1) /\ werr' = TRUE /\ UNCHANGED journal
    /\ UNCHANGED <<lost, disk, hidden, everLost>>

\* noteSnapshotLoss: the first loss of a process is written to the journal,
\* which may fail like any event.
NoteLoss ==
    /\ lost' = TRUE /\ everLost' = TRUE /\ werr' = TRUE
    /\ \/ /\ Fail(1)
          /\ journal' = [journal EXCEPT !.noted = @ \/ ~lost]
          /\ UNCHANGED hidden
       \/ ~lost /\ Fail(2) /\ hidden' = TRUE /\ UNCHANGED journal

\* Snapshot: temporary file and rename, so the old snapshot or the new one.
Save(c) ==
    \/ disk' = c /\ UNCHANGED <<lost, werr, journal, faults, hidden, everLost>>
    \/ NoteLoss /\ UNCHANGED disk

-----------------------------------------------------------------------------
(* Start of a run                                                          *)

EnterPhase(name, S) ==
    /\ stage' = name
    /\ todo' = S
    /\ acted' = 0 /\ aborted' = FALSE

Start ==
    /\ stage = "new"
    /\ Log([journal EXCEPT !.started = TRUE, !.last = "run_start"])
    /\ EnterPhase(IF Linear \/ pipe.foreach = "input" THEN "head" ELSE "pre",
                  PreSteps)
    /\ UNCHANGED <<item, segVars, ctx, agg, status, procVars, pastVars>>

\* Mutant: what the journal calls done is skipped, wherever its output is.
JournalledSteps == IF Linear THEN journal.stepOk ELSE {}

\* The steps of a linear chain that need not run again.
DoneSteps ==
    IF Linear THEN {s \in journal.stepOk : disk.out[s] # Absent} ELSE {}

\* resumeCursor: the first item that has not ended well.
Cursor == Min({i \in 0 .. pipe.items :
                  i = pipe.items \/ journal.ended[i] # "ok"})

\* --resume: the cursor is computed and reported, but assigned to a variable
\* of the block, so the items start at 0; the steps before the items are not
\* run again, their outputs must be in the snapshot.
Resume ==
    /\ stage \in {"over", "dead"}
    /\ resumes < MaxResumes
    /\ resumes' = resumes + 1
    /\ journal.started
    /\ disk # Absent
    /\ ctx' = disk
    /\ skip' = DoneSteps
    /\ prior' = journal.noted
    /\ \/ /\ journal' = [journal EXCEPT !.last = "run_resumed"]
          /\ werr' = FALSE /\ UNCHANGED faults
       \/ /\ Fail(1) /\ werr' = TRUE /\ UNCHANGED journal
    /\ IF pipe.foreach = "steps" /\ disk.out[pipe.source] = Absent
       THEN stage' = "over" /\ status' = "unreported"
       ELSE stage' = "head" /\ status' = "ok"
    /\ item' = 0 /\ todo' = {} /\ seg' = {} /\ branch' = NoBranch
    /\ acted' = 0 /\ aborted' = FALSE
    /\ agg' = NoAgg
    /\ cancelled' = FALSE /\ lost' = FALSE
    /\ sealed' = {} /\ made' = NoAgg
    /\ UNCHANGED <<pipe, disk, hidden, everLost, whole>>

-----------------------------------------------------------------------------
(* runParallelSegments                                                     *)

GiveUp(verdict) == stage' = "failing" /\ status' = verdict

SegmentCancelled ==
    /\ stage \in Phases /\ seg = {} /\ todo # {} /\ ~aborted
    /\ cancelled
    /\ GiveUp("run_cancelled")
    /\ UNCHANGED <<item, todo, segVars, actVars, ctx, agg, procVars, ioVars,
                   pastVars>>

\* A branch of a group starts from a copy of the context.
BeginBranch(s) == [Idle EXCEPT !.st = "run", !.out = ctx.out[s],
                               !.all = ctx.all[s]]

NextSegment ==
    /\ stage \in Phases /\ seg = {} /\ todo # {} /\ ~aborted
    /\ ~cancelled
    /\ LET S == Segment(todo) IN
         /\ todo' = todo \ S
         /\ IF S \subseteq skip
            THEN UNCHANGED segVars
            ELSE /\ seg' = S
                 /\ branch' = [s \in Steps |->
                                  IF s \in S THEN BeginBranch(s) ELSE Idle]
    /\ UNCHANGED <<stage, item, actVars, ctx, agg, status, procVars, ioVars,
                   pastVars>>

Cuts == {s \in seg : branch[s].st = "cut"}
Bad == {s \in seg : branch[s].st \in {"cut", "err", "stop"}}
Verdict == IF Min(Bad) \in Cuts THEN "run_cancelled" ELSE "run_failed"

\* The context once the outputs of the segment are in it.
Merged ==
    [ctx EXCEPT
        !.out = [s \in Steps |-> IF s \in seg THEN branch[s].out ELSE @[s]],
        !.all = [s \in Steps |-> IF s \in seg THEN branch[s].all ELSE @[s]]]

\* What runWithStore aggregates of a step: the outputs of a foreach, or one.
Yield(c, s) == IF Kind(s) = "each" THEN c.all[s] ELSE c.out[s]

Remember(c) ==
    /\ whole' = whole \cup {s \in seg : branch[s].st = "ok"}
    /\ made' = [s \in Steps |-> IF s \in seg /\ Yield(c, s) # Absent
                                THEN Append(made[s], Yield(c, s)) ELSE made[s]]
    /\ UNCHANGED sealed

Returned == seg # {} /\ \A s \in seg : branch[s].st # "run"

EndSegment ==
    /\ seg' = {} /\ branch' = NoBranch
    /\ UNCHANGED <<item, agg, procVars>>

\* A step that runs alone writes the context as it goes, a failing one too.
EndStep ==
    /\ Returned /\ Cardinality(seg) = 1
    /\ EndSegment
    /\ ctx' = Merged
    /\ CASE Bad = {} ->
              /\ acted' = acted + 1
              /\ Remember(ctx')
              /\ UNCHANGED <<stage, todo, aborted, status>>
         [] \E s \in seg : branch[s].st = "stop" ->
              /\ aborted' = TRUE
              /\ todo' = {}
              /\ UNCHANGED <<stage, acted, status, pastVars>>
         [] OTHER ->
              /\ GiveUp(Verdict)
              /\ UNCHANGED <<todo, actVars, pastVars>>
    /\ UNCHANGED ioVars

\* Mutant: the group is left as soon as one branch has failed.
EndGroupEarly ==
    /\ Returned \/ Bad # {}
    /\ Cardinality(seg) > 1
    /\ UNCHANGED <<todo, aborted>>
    /\ IF Bad = {}
       THEN /\ EndSegment
            /\ ctx' = Merged
            /\ acted' = acted + Cardinality(seg)
            /\ Remember(ctx')
            /\ Save(ctx')
            /\ UNCHANGED <<stage, status>>
       ELSE /\ GiveUp(Verdict)
            /\ UNCHANGED <<item, agg, procVars, segVars, ctx, acted, ioVars,
                           pastVars>>

\* Mutant: the outputs of a group are merged before its failures are seen.
EndGroupMerging ==
    /\ Returned /\ Cardinality(seg) > 1
    /\ EndSegment
    /\ ctx' = Merged
    /\ UNCHANGED <<todo, aborted>>
    /\ IF Bad = {}
       THEN /\ acted' = acted + Cardinality(seg)
            /\ Remember(ctx')
            /\ Save(ctx')
            /\ UNCHANGED <<stage, status>>
       ELSE /\ GiveUp(Verdict)
            /\ UNCHANGED <<acted, ioVars, pastVars>>

\* Mutant: a branch without output returns no action.
EndGroupShort ==
    /\ Returned /\ Cardinality(seg) > 1
    /\ EndSegment
    /\ UNCHANGED <<todo, aborted>>
    /\ IF Bad = {}
       THEN /\ ctx' = Merged
            /\ acted' = acted + Cardinality({s \in seg : branch[s].out # Absent})
            /\ Remember(ctx')
            /\ Save(ctx')
            /\ UNCHANGED <<stage, status>>
       ELSE /\ GiveUp(Verdict)
            /\ UNCHANGED <<ctx, acted, ioVars, pastVars>>

\* The barrier: every branch has returned.  One that failed or stopped fails
\* the run and nothing is merged.
EndGroup ==
    /\ Returned /\ Cardinality(seg) > 1
    /\ EndSegment
    /\ UNCHANGED <<todo, aborted>>
    /\ IF Bad = {}
       THEN /\ ctx' = Merged
            /\ acted' = acted + Cardinality(seg)
            /\ Remember(ctx')
            /\ Save(ctx')
            /\ UNCHANGED <<stage, status>>
       ELSE /\ GiveUp(Verdict)
            /\ UNCHANGED <<ctx, acted, ioVars, pastVars>>

-----------------------------------------------------------------------------
(* runStepFlow, runStepForeach, runStepLoop, runStep                       *)

Running(s) == s \in seg /\ branch[s].st = "run"
Untouched(s) == branch[s].e = 0 /\ branch[s].try = 1

\* Only a branch moves.
InBranch ==
    UNCHANGED <<stage, item, todo, seg, actVars, ctx, agg, status, procVars,
                pastVars>>

Becomes(s, st) == branch' = [branch EXCEPT ![s].st = st]

\* What a branch may be after runStep has returned "ok" with that output:
\* through, or at the next element or iteration.  steps.<id>_all is set only
\* when all elements are through.
PassEnds(s, out) ==
    LET b == [branch[s] EXCEPT !.out = out, !.try = 1]
        vals == IF out = Absent THEN b.vals ELSE Append(b.vals, out)
        last == [b EXCEPT !.st = "ok", !.vals = <<>>]
        more == [b EXCEPT !.e = @ + 1]
    IN  CASE Kind(s) = "each" ->
               {IF b.e + 1 = Elements THEN [last EXCEPT !.all = vals]
                                      ELSE [more EXCEPT !.vals = vals]}
          [] Kind(s) = "loop" /\ out # Absent /\ b.e + 1 < MaxIter ->
               {last, more}
          [] OTHER -> {last}

PassedWith(s, out) ==
    \E b \in PassEnds(s, out) : branch' = [branch EXCEPT ![s] = b]

Output(s) == <<ctx.item, branch[s].e>>

\* step_end with status ok; a resume asks for it only in a linear chain.
StepEnd(s) ==
    Log(IF Linear THEN [journal EXCEPT !.stepOk = @ \cup {s}] ELSE journal)

Succeed(s) ==
    /\ Running(s) /\ Kind(s) # "gate"
    /\ StepEnd(s)
    /\ PassedWith(s, Output(s))
    /\ InBranch

\* The plugin exits well, then EnforceOutput refuses its output.
BreakContract(s) ==
    /\ Running(s) /\ Kind(s) # "gate"
    /\ StepEnd(s)
    /\ Becomes(s, "err")
    /\ InBranch

\* when is false, or a gate is rejected with on_reject: continue.
PassOver(s) ==
    /\ Running(s) /\ Untouched(s)
    /\ Becomes(s, "ok")
    /\ InBranch /\ UNCHANGED ioVars

\* when cannot be evaluated, no manifest, a platform error.
PlatformError(s) ==
    /\ Running(s)
    /\ Becomes(s, "err")
    /\ InBranch /\ UNCHANGED ioVars

\* Mutant: one attempt too many.
RetryOnceMore(s) ==
    /\ Running(s) /\ Kind(s) # "gate"
    /\ OnError(s) = "retry"
    /\ branch[s].try <= MaxTries
    /\ branch' = [branch EXCEPT ![s].try = @ + 1]
    /\ InBranch /\ UNCHANGED ioVars

\* Mutant: the attempts start over.
RetryAnew(s) ==
    /\ Running(s) /\ Kind(s) # "gate"
    /\ OnError(s) = "retry"
    /\ branch' = [branch EXCEPT ![s].try = IF @ = MaxTries THEN 1 ELSE @ + 1]
    /\ InBranch /\ UNCHANGED ioVars

Retry(s) ==
    /\ Running(s) /\ Kind(s) # "gate"
    /\ OnError(s) = "retry"
    /\ branch[s].try < MaxTries
    /\ branch' = [branch EXCEPT ![s].try = @ + 1]
    /\ InBranch /\ UNCHANGED ioVars

\* Mutant: the output of the pass before stays in the context.
SkipKeeping(s) ==
    /\ Running(s) /\ Kind(s) # "gate"
    /\ OnError(s) = "skip"
    /\ PassedWith(s, branch[s].out)
    /\ InBranch /\ UNCHANGED ioVars

\* A domain error or an input that cannot be put together: no output.
Skip(s) ==
    /\ Running(s) /\ Kind(s) # "gate"
    /\ OnError(s) = "skip"
    /\ PassedWith(s, Absent)
    /\ InBranch /\ UNCHANGED ioVars

\* abort_item; the steps with foreach and loop make an error of it.
Stop(s) ==
    /\ Running(s) /\ Kind(s) # "gate"
    /\ OnError(s) # "skip"
    /\ Becomes(s, IF Kind(s) = "plain" THEN "stop" ELSE "err")
    /\ InBranch /\ UNCHANGED ioVars

\* A gate is answered; not so when the run is cancelled by then.
Decide(s) ==
    /\ Running(s) /\ Kind(s) = "gate" /\ ~cancelled
    /\ \/ PassedWith(s, Output(s))
       \/ Becomes(s, "stop")
    /\ InBranch /\ UNCHANGED ioVars

\* Mutant: a plugin killed by its timeout is taken for one that was cancelled.
CutByTimeout(s) ==
    /\ Running(s)
    /\ Becomes(s, "cut")
    /\ InBranch /\ UNCHANGED ioVars

\* The plugin is killed, the wait before a retry or the gate is broken off.
Cut(s) ==
    /\ Running(s) /\ cancelled
    /\ Becomes(s, "cut")
    /\ InBranch /\ UNCHANGED ioVars

RunStep(s) ==
    \/ Succeed(s)
    \/ BreakContract(s)
    \/ PassOver(s)
    \/ PlatformError(s)
    \/ Retry(s)
    \/ Skip(s)
    \/ Stop(s)
    \/ Decide(s)
    \/ Cut(s)

-----------------------------------------------------------------------------
(* runWithStore: the phases                                                *)

PhaseDone(name) == stage = name /\ seg = {} /\ (todo = {} \/ aborted)

\* The steps before the items: an abort among them, or no array to go over,
\* ends the run with an error and no event.
EndPre ==
    /\ PhaseDone("pre")
    /\ IF aborted
       THEN stage' = "over" /\ status' = "unreported" /\ UNCHANGED ioVars
       ELSE /\ Save(ctx)
            /\ IF ctx.out[pipe.source] = Absent
               THEN stage' = "over" /\ status' = "unreported"
               ELSE stage' = "head" /\ UNCHANGED status
    /\ UNCHANGED <<item, todo, segVars, actVars, ctx, agg, procVars, pastVars>>

ItemCancelled ==
    /\ stage = "head" /\ item < pipe.items
    /\ cancelled
    /\ GiveUp("run_cancelled")
    /\ UNCHANGED <<item, todo, segVars, actVars, ctx, agg, procVars, ioVars,
                   pastVars>>

\* The outputs to forget before an item.
Stale == CASE Linear -> {}
           [] pipe.foreach = "input" -> Steps
           [] OTHER -> LoopSteps

Without(f, S) == [s \in Steps |-> IF s \in S THEN Absent ELSE f[s]]

\* input.<foreach_item> of the context.
Loaded == IF Linear THEN Absent ELSE item

\* Mutant: the outputs of the item before are still there.
StartItemDirty ==
    /\ stage = "head" /\ item < pipe.items
    /\ ~cancelled
    /\ ctx' = [ctx EXCEPT !.item = Loaded]
    /\ EnterPhase("item", LoopSteps)
    /\ status' = "ok"
    /\ UNCHANGED <<item, segVars, agg, procVars, ioVars, pastVars>>

StartItem ==
    /\ stage = "head" /\ item < pipe.items
    /\ ~cancelled
    /\ ctx' = [item |-> Loaded, out |-> Without(ctx.out, Stale),
               all |-> Without(ctx.all, Stale)]
    /\ EnterPhase("item", LoopSteps)
    /\ status' = "ok"
    /\ UNCHANGED <<item, segVars, agg, procVars, ioVars, pastVars>>

\* acts[i] is taken for the action of loopRefs[i].
Aggregated ==
    [s \in Steps |-> IF s \in FirstOf(LoopSteps, acted) /\ Yield(ctx, s) # Absent
                     THEN Append(agg[s], Yield(ctx, s)) ELSE agg[s]]

\* writeAggregates
WithAggregates(c, a) ==
    [c EXCEPT !.all = [s \in Steps |->
        IF s \in LoopSteps /\ Kind(s) # "each" /\ a[s] # <<>>
        THEN a[s] ELSE @[s]]]

Seal ==
    /\ PhaseDone("item")
    /\ agg' = Aggregated
    /\ ctx' = IF Linear THEN ctx ELSE WithAggregates(ctx, agg')
    /\ status' = IF aborted THEN "aborted" ELSE "ok"
    /\ Save(ctx')
    /\ stage' = "sealed"
    /\ sealed' = sealed \cup {item}
    /\ UNCHANGED <<item, todo, segVars, actVars, procVars, whole, made>>

EndItem ==
    /\ stage = "sealed"
    /\ Log([journal EXCEPT !.ended[item] = status])
    /\ item' = item + 1
    /\ stage' = "head"
    /\ UNCHANGED <<todo, segVars, actVars, ctx, agg, status, procVars, pastVars>>

StartPost ==
    /\ stage = "head" /\ item = pipe.items
    /\ ctx' = IF PostSteps = {} THEN ctx ELSE WithAggregates(ctx, agg)
    /\ EnterPhase("post", PostSteps)
    /\ UNCHANGED <<item, segVars, agg, status, procVars, ioVars, pastVars>>

EndPost ==
    /\ PhaseDone("post")
    /\ IF PostSteps = {} THEN UNCHANGED ioVars ELSE Save(ctx)
    /\ stage' = "ending"
    /\ UNCHANGED <<item, todo, segVars, actVars, ctx, agg, status, procVars,
                   pastVars>>

\* Mutant: losses of an earlier process do not count.
FinishForgetting ==
    /\ stage = "ending"
    /\ status' = IF lost THEN "run_failed" ELSE "run_end"
    /\ Log([journal EXCEPT !.last = status'])
    /\ stage' = "over"
    /\ UNCHANGED <<item, todo, segVars, actVars, ctx, agg, procVars, pastVars>>

\* finish: run_end only if no snapshot was lost, now or before.
Finish ==
    /\ stage = "ending"
    /\ status' = IF lost \/ prior THEN "run_failed" ELSE "run_end"
    /\ Log([journal EXCEPT !.last = status'])
    /\ stage' = "over"
    /\ UNCHANGED <<item, todo, segVars, actVars, ctx, agg, procVars, pastVars>>

\* failEvent: the event, then a snapshot.
FailEvent ==
    /\ stage = "failing"
    /\ Log([journal EXCEPT !.last = status])
    /\ stage' = "failed"
    /\ UNCHANGED <<item, todo, segVars, actVars, ctx, agg, status, procVars,
                   pastVars>>

FailSnapshot ==
    /\ stage = "failed"
    /\ Save(ctx)
    /\ stage' = "over"
    /\ UNCHANGED <<item, todo, segVars, actVars, ctx, agg, status, procVars,
                   pastVars>>

-----------------------------------------------------------------------------
(* The world                                                               *)

Cancel ==
    /\ stage \in Working
    /\ ~cancelled
    /\ cancelled' = TRUE
    /\ UNCHANGED <<pipe, stage, item, todo, segVars, actVars, ctx, agg, skip,
                   status, prior, resumes, ioVars, pastVars>>

\* Only the disk is left.
Crash ==
    /\ stage \in Working
    /\ stage' = "dead"
    /\ item' = 0 /\ todo' = {} /\ seg' = {} /\ branch' = NoBranch
    /\ acted' = 0 /\ aborted' = FALSE
    /\ ctx' = Fresh /\ agg' = NoAgg /\ skip' = {} /\ status' = "ok"
    /\ cancelled' = FALSE /\ lost' = FALSE /\ prior' = FALSE /\ werr' = FALSE
    /\ sealed' = {} /\ made' = NoAgg
    /\ UNCHANGED <<pipe, journal, disk, faults, resumes, hidden, everLost, whole>>

\* What a live process does on its own.
Proceed ==
    \/ SegmentCancelled
    \/ NextSegment
    \/ EndStep
    \/ EndGroup
    \/ EndPre
    \/ ItemCancelled
    \/ StartItem
    \/ Seal
    \/ EndItem
    \/ StartPost
    \/ EndPost
    \/ Finish
    \/ FailEvent
    \/ FailSnapshot
    \/ \E s \in Steps : RunStep(s)

Next == Start \/ Proceed \/ Resume \/ Cancel \/ Crash

RunSpec == Init /\ [][Next]_vars

\* The process is scheduled, and a plugin comes back, if only by its timeout.
FairRunSpec == RunSpec /\ WF_vars(Proceed)

-----------------------------------------------------------------------------
Contexts == ContextsOf(pipe)

RTypeOK ==
    /\ pipe \in Pipes
    /\ stage \in Stages
    /\ item \in 0 .. pipe.items
    /\ todo \subseteq Steps /\ seg \subseteq Steps /\ skip \subseteq Steps
    /\ acted \in 0 .. Cardinality(Steps) /\ aborted \in BOOLEAN
    /\ \A s \in Steps :
          /\ branch[s].st \in {"idle", "run", "ok", "stop", "err", "cut"}
          /\ branch[s].try \in 1 .. MaxTries
          /\ branch[s].e \in 0 .. Elements + MaxIter
    /\ ctx \in Contexts
    /\ disk \in Contexts \cup {Absent}
    /\ journal.stepOk \subseteq Steps
    /\ \A i \in Items : journal.ended[i] \in {"none", "ok", "aborted"}
    /\ faults \in 0 .. MaxFaults /\ resumes \in 0 .. MaxResumes

Ended == stage \in {"over", "dead"}

\* finish: a run that ends well has taken every item through its chain, and
\* what it left on disk was never behind, in this process or in an earlier
\* one, unless the notice of it could not be written either.  When the caller
\* gets no journal_write error, the journal says so of the run and each item.
EndIsHonest ==
    stage = "over" /\ status = "run_end" =>
        /\ sealed = Items
        /\ everLost => hidden
        /\ ~lost /\ ~journal.noted
        /\ ~werr => /\ journal.last = "run_end"
                    /\ \A i \in Items : journal.ended[i] # "none"

\* steps.go, deletion on skip, and the reset before each item: what a step
\* finds in the context of an item was made for that item, and each output
\* of a foreach is collected once.
NoLeak ==
    stage = "item" /\ ~Linear =>
        \A s \in LoopSteps :
            /\ ctx.out[s] # Absent => ctx.out[s][1] = item
            /\ Kind(s) = "each" /\ ctx.all[s] # Absent =>
                  \A i, j \in DOMAIN ctx.all[s] :
                      ctx.all[s][i] = ctx.all[s][j] => i = j

\* The aggregates of a foreach are the outputs of its steps, one for each
\* item that has one, in the order of the items.
AggregatesAreOutputs ==
    ~Linear /\ stage = "post" /\ seg = {} =>
        \A s \in LoopSteps : agg[s] = made[s]

\* runner.go, resume of a linear chain: a step that is passed over as done has
\* its output in the context, however far the snapshot was behind the journal.
\* (A step that is done is run again with the others of its group.)
SkippedHaveOutputs ==
    [][\A s \in Steps :
          /\ stage \in Phases /\ stage' = stage
          /\ seg = {} /\ seg' = {}
          /\ s \in todo /\ s \notin todo'
          => ctx.out[s] # Absent]_vars

\* An item that ended in the journal is in the snapshot, if none was lost.
SnapshotBeforeEnd ==
    resumes = 0 /\ ~everLost =>
        \A i \in Items : journal.ended[i] # "none" =>
            disk # Absent /\ (~Linear => disk.item # Absent /\ disk.item >= i)

\* What the journal says has happened: the terminal event is earned, and an
\* item's end is not ahead of the snapshot.
JournalIsHonest == EndIsHonest /\ SnapshotBeforeEnd

\* parallel.go: when a phase is over, however it ended, no branch is at work.
BarrierHolds ==
    stage \notin Phases => \A s \in Steps : branch[s].st # "run"

\* runParallelSegments is called with the steps of one phase.
SamePhase(s, t) ==
    \E S \in {PreSteps, LoopSteps, PostSteps} : s \in S /\ t \in S

\* parallel.go, "the barrier bears no halves": a snapshot holds the output of
\* a branch only if all branches of its group have come to their end.
GroupsAreWhole ==
    disk # Absent =>
        \A s, t \in Steps :
            Mates(pipe, s, t) /\ SamePhase(s, t) /\ s # t /\ disk.out[s] # Absent
            => t \in whole

\* model.go:87-88: the steps of a group run together, and the barrier waits for
\* all of them.
GroupsRunTogether ==
    \A s \in seg, t \in Steps : Mates(pipe, s, t) => t \in seg

\* A chain without gates always ends: retries, loops and segments are bounded,
\* and a failure or a cancellation is never waited for.
RunEnds == (stage \in Working /\ \A s \in Steps : Kind(s) # "gate") ~> Ended

\* How a run looks from outside: whether a process works on it, and the last
\* event about the whole run.
Life == CASE stage = "new" -> "new"
          [] stage = "failed" -> "concluded"
          [] stage \in {"over", "dead"} -> "rest"
          [] OTHER -> "working"
Seen == [life |-> Life, told |-> journal.last, cancelled |-> stage \in Working /\ cancelled]

Ledger == INSTANCE RunLedger WITH Runs <- {"run"}, ledger <- [r \in {"run"} |-> Seen]

\* finish and failEvent: one verdict per process, the last it writes, and
\* run_cancelled only of a run that was cancelled, whichever branch of a group
\* failed first and whatever was lost.
RunKeepsLedger == Ledger!LedgerSpec

\* docs/resume.md: a resumed run goes on after the items that have ended.
ResumeContinues ==
    [][stage = "head" /\ stage' = "item" /\ resumes > 0 /\ ~Linear
          => item >= Cursor]_vars

\* docs/resume.md: a step with foreach is redone as a whole; what a resume
\* skips has once come to its end.
SkippedAreWhole == skip \subseteq whole

\* runParallelSegments returns the actions in the order of the steps: after
\* the items each output is in the aggregate of its step.
ChainAggregates ==
    Linear /\ stage = "post" /\ PostSteps # {} /\ status = "ok" =>
        \A s \in LoopSteps : Kind(s) # "each" /\ ctx.out[s] # Absent
            => ctx.all[s] # Absent
=============================================================================
