------------------------------ MODULE MCRunner ------------------------------
(***************************************************************************)
(* Small pipelines for Runner: a linear chain, a foreach over input with a *)
(* parallel group and a gate after the items, a foreach over the output of *)
(* a step, a linear chain with a step after the items, one that is a group *)
(* and a group that lies in two phases.                                    *)
(***************************************************************************)
EXTENDS Runner

Step(kind, onError) ==
    [kind |-> kind, onError |-> onError, group |-> "", post |-> FALSE]
InGroup(st) == [st EXCEPT !.group = "g"]
After(st) == [st EXCEPT !.post = TRUE]

Chain == [foreach |-> "none", items |-> 1, source |-> 0,
          steps |-> <<Step("plain", "retry"), Step("each", "stop"),
                      Step("loop", "skip")>>]

Batch == [foreach |-> "input", items |-> 2, source |-> 0,
          steps |-> <<InGroup(Step("plain", "skip")),
                      InGroup(Step("loop", "stop")),
                      After(Step("gate", "stop"))>>]

Sourced == [foreach |-> "steps", items |-> 2, source |-> 1,
            steps |-> <<Step("plain", "skip"), Step("each", "skip")>>]

Summed == [foreach |-> "none", items |-> 1, source |-> 0,
           steps |-> <<Step("plain", "stop"), Step("plain", "stop"),
                       After(Step("plain", "stop"))>>]

\* A linear chain that is one parallel group.
Paired == [foreach |-> "none", items |-> 1, source |-> 0,
           steps |-> <<InGroup(Step("plain", "skip")),
                       InGroup(Step("plain", "stop"))>>]

\* A group whose last step comes after the items.
Split == [foreach |-> "input", items |-> 1, source |-> 0,
          steps |-> <<InGroup(Step("plain", "skip")),
                      InGroup(After(Step("plain", "stop")))>>]

AllPipes == {Chain, Batch, Sourced, Paired, Split}
ChainOnly == {Chain}
BatchOnly == {Batch}
SummedOnly == {Summed}
=============================================================================
