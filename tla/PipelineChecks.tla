---------------------------- MODULE PipelineChecks ----------------------------
(***************************************************************************)
(* What is promised before a pipeline runs, against the order in which it  *)
(* then runs: validation (internal/pipeline/validate_issues.go,            *)
(* validator.go), the requirement of a human gate ahead of every dangerous *)
(* step (gate_policy.go), and the phases, items and parallel groups of the *)
(* runner (internal/execution), as a pipeline goes through run_pipeline.   *)
(*                                                                         *)
(* A step is known by its position in the list. Its bind is the set of the *)
(* positions it reads; ports, types and formats are left out. A manifest   *)
(* that cannot be read counts as dangerous. How a step fails is the        *)
(* subject of Runner: here it ends well or aborts the item.                *)
(***************************************************************************)
EXTENDS Naturals, FiniteSets, Sequences

CONSTANTS
    Pipelines, \* steps, foreach ("none", "input", "steps") and its source
    MaxItems   \* bound on the items of a foreach

StepKinds == [kind : {"gate", "danger", "plain"}, cond : BOOLEAN, onError : {"stop", "skip"},
              onReject : {"stop", "continue"}, after : BOOLEAN, group : Nat, bind : SUBSET Nat]

ASSUME PipelineAssumption ==
    /\ MaxItems \in Nat
    /\ \A p \in Pipelines :
          /\ p.steps \in Seq(StepKinds)
          /\ p.foreach \in {"none", "input", "steps"}
          /\ p.foreach = "steps" => p.source \in 1 .. Len(p.steps)

VARIABLES
    pipeline,  \* the pipeline of this run
    stage,     \* asked, refused, or where the run is
    todo,      \* positions left in this phase
    itemsLeft, \* items after this one
    had,       \* positions that had their turn, as this item sees it
    accepted,  \* gates a human accepted, as this item sees it
    everAccepted, \* gates a human accepted in this run
    starved,   \* history: steps that ran before one they read
    unapproved \* history: dangerous steps that ran with no accepted gate ahead

pipelineVars == <<pipeline, stage, todo, itemsLeft, had, accepted, everAccepted, starved, unapproved>>

Positions(p) == DOMAIN p.steps
IsGate(p, i) == p.steps[i].kind = "gate"

-----------------------------------------------------------------------------
(* Validation                                                              *)

\* prior: the steps validated so far.
Prior(p, i) == 1 .. i - 1

\* DetectCycle over the binds.
HasCycle(p) ==
    \E loop \in SUBSET Positions(p) \ {{}} : \A i \in loop : p.steps[i].bind \cap loop # {}

\* The errors of ValidateIssues that concern the order of steps.
HasErrors(p) ==
    \/ HasCycle(p)
    \/ \E i \in Positions(p) :
          \/ ~ p.steps[i].bind \subseteq Prior(p, i)
          \/ IsGate(p, i) /\ (p.steps[i].group # 0 \/ p.steps[i].bind # {})
    \/ \E i, k \in Positions(p) :       \* a group that is split
          /\ i < k /\ p.steps[i].group # 0 /\ p.steps[i].group = p.steps[k].group
          /\ \E j \in i .. k : p.steps[j].group # p.steps[i].group

-----------------------------------------------------------------------------
(* EvaluateGateApproval                                                    *)

\* Mutant: a gate after the foreach guards the steps within it.
LateGateCounts(p, g, i) ==
    p.steps[g].cond \/ p.steps[g].onError = "skip" \/ p.steps[g].onReject = "continue"

\* GateIneffectiveReason is not empty.
GateIneffective(p, g, i) ==
    \/ p.steps[g].cond
    \/ p.steps[g].onError = "skip"
    \/ p.steps[g].onReject = "continue"
    \/ p.foreach # "none" /\ p.steps[g].after /\ ~p.steps[i].after

EffectiveGates(p, i) == {g \in 1 .. i - 1 : IsGate(p, g) /\ ~GateIneffective(p, g, i)}

ApprovalRequired(p) ==
    \E i \in Positions(p) : p.steps[i].kind = "danger" /\ EffectiveGates(p, i) = {}

-----------------------------------------------------------------------------
(* The run                                                                 *)

PreSteps(p) == IF p.foreach = "steps" THEN 1 .. p.source ELSE {}
PostSteps(p) == {i \in Positions(p) \ PreSteps(p) : p.steps[i].after}
LoopSteps(p) == Positions(p) \ (PreSteps(p) \cup PostSteps(p))

\* Steps are taken in the order of the list.
IsFirst(i) == i \in todo /\ \A k \in todo : i <= k

\* segmentSteps: the next step, or the whole of its parallel group.
SegmentAt(first) ==
    LET group == pipeline.steps[first].group
    IN  IF group = 0 THEN {first}
        ELSE {i \in todo : \A k \in todo : k <= i => pipeline.steps[k].group = group}

PipelineInit ==
    /\ pipeline \in Pipelines
    /\ stage = "asked"
    /\ todo = {} /\ itemsLeft = 0
    /\ had = {} /\ accepted = {} /\ everAccepted = {}
    /\ starved = {} /\ unapproved = {}

\* toolRun: refused for its errors, or for want of a gate.
AskToRun ==
    /\ stage = "asked"
    /\ IF HasErrors(pipeline) \/ ApprovalRequired(pipeline)
       THEN stage' = "refused" /\ UNCHANGED todo
       ELSE stage' = "pre" /\ todo' = PreSteps(pipeline)
    /\ UNCHANGED <<pipeline, itemsLeft, had, accepted, everAccepted, starved, unapproved>>

\* The segment is done with; the steps it aborted the rest of are not run.
TakeTurn(segment, ok) ==
    /\ had' = had \cup segment
    /\ todo' = IF ok THEN todo \ segment ELSE {}
    /\ starved' = starved \cup {i \in segment : ~ pipeline.steps[i].bind \subseteq had}

\* Where a gate that was accepted counts: in a post step, all of the run.
ApprovalsFor(i) == IF i \in PostSteps(pipeline) THEN everAccepted ELSE accepted

\* A plugin step, or a group of them, which stops the run when one aborts.
RunSegment(first) ==
    LET segment == SegmentAt(first) IN
    /\ IsFirst(first) /\ ~IsGate(pipeline, first)
    /\ unapproved' = unapproved \cup {i \in segment :
           pipeline.steps[i].kind = "danger" /\ {g \in ApprovalsFor(i) : g < i} = {}}
    /\ \E ok \in BOOLEAN :
          /\ TakeTurn(segment, ok)
          /\ stage' = IF ~ok /\ (stage = "pre" \/ segment # {first}) THEN "over" ELSE stage
    /\ UNCHANGED <<pipeline, itemsLeft, accepted, everAccepted>>

\* when: the step is passed over.
SkipStep(first) ==
    /\ IsFirst(first) /\ SegmentAt(first) = {first} /\ pipeline.steps[first].cond
    /\ had' = had \cup {first}
    /\ todo' = todo \ {first}
    /\ UNCHANGED <<pipeline, stage, itemsLeft, accepted, everAccepted, starved, unapproved>>

\* Mutant: a rejection lets the item go on.
RejectPasses(g) == TRUE

\* on_reject: continue makes a rejection pass; the end of input never does.
RejectGoesOn(g) == pipeline.steps[g].onReject = "continue"

RunGate(g) ==
    /\ IsFirst(g) /\ IsGate(pipeline, g)
    /\ \E word \in {"accept", "reject", "stop"} :
          LET ok == word = "accept" \/ (word = "reject" /\ RejectGoesOn(g)) IN
          /\ TakeTurn({g}, ok)
          /\ accepted' = IF word = "accept" THEN accepted \cup {g} ELSE accepted
          /\ everAccepted' = IF word = "accept" THEN everAccepted \cup {g} ELSE everAccepted
          /\ stage' = IF ~ok /\ stage = "pre" THEN "over" ELSE stage
    /\ UNCHANGED <<pipeline, itemsLeft, unapproved>>

\* The items are known once the steps ahead of them have run.
StartItems ==
    /\ stage = "pre" /\ todo = {}
    /\ \E n \in IF pipeline.foreach = "none" THEN {1} ELSE 0 .. MaxItems :
          IF n = 0
          THEN /\ stage' = "post" /\ todo' = PostSteps(pipeline) /\ itemsLeft' = 0
               /\ had' = had \cup LoopSteps(pipeline)
          ELSE /\ stage' = "items" /\ todo' = LoopSteps(pipeline) /\ itemsLeft' = n - 1
               /\ UNCHANGED had
    /\ UNCHANGED <<pipeline, accepted, everAccepted, starved, unapproved>>

\* The next item sees none of this one; after the last, aborted or not, the
\* post steps run.
EndItem ==
    /\ stage = "items" /\ todo = {}
    /\ IF itemsLeft > 0
       THEN /\ itemsLeft' = itemsLeft - 1
            /\ todo' = LoopSteps(pipeline)
            /\ had' = had \ LoopSteps(pipeline)
            /\ accepted' = accepted \ LoopSteps(pipeline)
            /\ UNCHANGED stage
       ELSE /\ stage' = "post"
            /\ todo' = PostSteps(pipeline)
            /\ had' = had \cup LoopSteps(pipeline)
            /\ UNCHANGED <<itemsLeft, accepted>>
    /\ UNCHANGED <<pipeline, everAccepted, starved, unapproved>>

FinishPipeline ==
    /\ stage = "post" /\ todo = {}
    /\ stage' = "over"
    /\ UNCHANGED <<pipeline, todo, itemsLeft, had, accepted, everAccepted, starved, unapproved>>

PipelineNext ==
    \/ AskToRun
    \/ \E i \in todo : RunSegment(i) \/ SkipStep(i) \/ RunGate(i)
    \/ StartItems \/ EndItem \/ FinishPipeline

PipelineSpec == PipelineInit /\ [][PipelineNext]_pipelineVars

-----------------------------------------------------------------------------
\* Type correctness; a run that was refused or has failed does nothing more.
PipelineTypeOK ==
    /\ pipeline \in Pipelines
    /\ stage \in {"asked", "refused", "pre", "items", "post", "over"}
    /\ had \cup starved \cup unapproved \subseteq Positions(pipeline)
    /\ accepted \subseteq everAccepted
    /\ stage \in {"asked", "refused", "over"} => todo = {}

\* A pipeline that validation and the gate policy let through runs no
\* dangerous step before a human has accepted a gate ahead of it, in the same
\* item if it is a step of items (gate_policy.go:20-23). Left aside are the two
\* ways around a gate that the policy takes for effective: a post step whose
\* gates are all in the items, where a rejection ends only the item, and a gate
\* that after_foreach puts last though there is no foreach (see GateGuarantees).
DangerIsApproved ==
    \A i \in unapproved :
        LET gates == EffectiveGates(pipeline, i) IN
        /\ gates # {}
        /\ IF i \in PostSteps(pipeline)
           THEN gates \subseteq LoopSteps(pipeline)
           ELSE pipeline.foreach = "none" /\ gates \subseteq PostSteps(pipeline)

\* A gate that counts as effective for a dangerous step guarantees that a
\* human approved it (gate_policy.go:160-178).
GateGuarantees == unapproved = {}

\* In a pipeline without errors every step that a step reads had its turn
\* before it, in the same item. Left aside are two orders that validation
\* does not look at: a source in the same parallel group, and a source that
\* after_foreach puts after its reader.
SourcesComeFirst ==
    \A i \in starved : \E k \in pipeline.steps[i].bind :
        \/ (pipeline.steps[k].group # 0 /\ pipeline.steps[k].group = pipeline.steps[i].group)
        \/ (k \in PostSteps(pipeline) /\ i \notin PostSteps(pipeline))

\* What the checks ahead of a run promise about its order: approval before
\* danger, and sources before their readers.
ChecksHold == DangerIsApproved /\ SourcesComeFirst
=============================================================================
