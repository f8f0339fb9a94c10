---------------------------- MODULE MCPipelineChecks ----------------------------
(* Pipelines of three steps: about gates, and about what a step reads. *)
EXTENDS PipelineChecks

Plain == [kind |-> "plain", cond |-> FALSE, onError |-> "stop", onReject |-> "stop",
          after |-> FALSE, group |-> 0, bind |-> {}]
Danger == [Plain EXCEPT !.kind = "danger"]
Gate == [Plain EXCEPT !.kind = "gate"]
After(s) == [s EXCEPT !.after = TRUE]
Guarding == {Gate, After(Gate), [Gate EXCEPT !.cond = TRUE], [Gate EXCEPT !.onReject = "continue"],
             Danger, After(Danger), Plain}
Reading == {[Plain EXCEPT !.after = a, !.group = g, !.bind = b] :
               a \in BOOLEAN, g \in 0 .. 1, b \in {{}, {1}, {2}, {3}}}
Lists(steps) ==
    {p \in [steps : [1 .. 3 -> steps], foreach : {"none", "input", "steps"}, source : 1 .. 3] :
        p.foreach # "steps" => p.source = 1}
\* Of pipelines whose steps read each other, those that begin with a step in
\* no group, which reads nothing before it.
MCGuardedPipelines == Lists(Guarding)
MCPipelines ==
    MCGuardedPipelines \cup
    {p \in Lists(Reading) : p.source = 1 /\ p.steps[1].bind \subseteq {2} /\ p.steps[1].group = 0}
=============================================================================
