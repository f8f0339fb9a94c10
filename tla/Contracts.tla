------------------------------ MODULE Contracts ------------------------------
(***************************************************************************)
(* One port of a plugin's step, from the pipeline's validation to the      *)
(* outputs that later steps read. Validation compares types and formats    *)
(* without running anything (internal/pipeline/validate_issues.go); the    *)
(* run checks the value itself (internal/plugin/contract.go), retries,     *)
(* skips or stops, and does so once for every item of the step's foreach   *)
(* or pass of its loop (internal/execution/steps.go).                      *)
(*                                                                         *)
(* A value is named for what it is: "web" is a URL, "web blank" one with a *)
(* blank in it. Paths are left out but for what they lead to. An output    *)
(* is known by the number of the turn that gave it.                        *)
(***************************************************************************)
EXTENDS Naturals, Sequences, FiniteSets

CONSTANTS
    Wirings,           \* the step and where its port's value comes from
    MaxTurns,          \* bound on items, and MaxIterations of a loop
    LoopBudget,        \* MaxTotalLoopBudget
    MaxRetryAttempts

Values == {"plain", "empty", "mail", "web", "web blank", "addr", "num", "list", "nil"}
Missing == "missing"
Formats == {"", "text", "file_ref", "email", "url", "ip"}

\* validateManifestPorts, without which a manifest does not load.
PortKinds == {p \in [type : {"string", "number", "array"}, format : Formats, optional : BOOLEAN] :
             p.format # "" => p.type = "string"}

\* The one port of core/text_stats, the built-in step that reads anything.
TextPort == [type |-> "string", format |-> "text", optional |-> FALSE]

\* What PortSource may lead to. output: a port of an earlier plugin's step,
\* cond: that step has a when. item: an item of the pipeline's foreach.
Sources ==
    [kind : {"literal"}, value : Values]
    \cup [kind : {"item"}, type : {"", "string"}, format : Formats]
    \cup [kind : {"output"}, port : PortKinds, skips : BOOLEAN, cond : BOOLEAN]
    \cup [kind : {"builtin", "all"}, skips : BOOLEAN]
    \cup [kind : {"deep", "step item", "nowhere"}]

Conditions == {"none", "exists", "missing", "truthy", "gt"}

ASSUME ContractsAssumption ==
    /\ MaxTurns \in Nat \ {0} /\ LoopBudget \in Nat /\ MaxRetryAttempts \in Nat \ {0}
    /\ \A w \in Wirings :
          /\ w.port \in PortKinds /\ w.from \in Sources /\ w.builtin \in BOOLEAN
          /\ w.onError \in {"stop", "skip", "retry"} /\ w.retries \in Nat
          /\ w.when \in Conditions /\ w.runs \in {"once", "foreach", "loop"}
          /\ w.from.kind = "step item" => w.runs = "foreach"
          /\ w.builtin => w.port = TextPort

VARIABLES
    wiring,    \* the step of this run
    flow,      \* how far it is
    source,    \* what ctx.Get gives for the port's source
    turn,      \* items and passes begun
    attempt,   \* calls of the plugin in this turn
    output,    \* steps.<id> in the context: the turn it is of, or 0
    results,   \* the outputs a foreach has gathered
    succeeded, \* history: the turns that gave an output
    failure    \* the code the step ended with

contractVars == <<wiring, flow, source, turn, attempt, output, results, succeeded, failure>>

-----------------------------------------------------------------------------
(* Values                                                                  *)

\* plugin.KindOf, and the KindOf of validation, which knows no null.
Kind(v) == CASE v = "num" -> "number" [] v = "list" -> "array" [] v = "nil" -> "null" [] OTHER -> "string"
StaticKind(v) == IF v = "nil" THEN "string" ELSE Kind(v)

FormatOK(format, v) ==
    CASE format = "email" -> v = "mail"
      [] format = "url" -> v = "web"
      [] format = "ip" -> v = "addr"
      [] format = "file_ref" -> v # "empty"
      [] OTHER -> TRUE

CheckValue(port, v) ==
    /\ Kind(v) = port.type
    /\ Kind(v) = "string" => FormatOK(port.format, v)

\* Of a literal, before the run.
ScalarMatchesFormat(v, format) ==
    CASE format = "url" -> v \in {"web", "web blank"}
      [] format = "file_ref" -> TRUE
      [] OTHER -> FormatOK(format, v)

FormatRank(f) ==
    CASE f = "" -> 0 [] f \in {"text", "file_ref"} -> 1 [] f = "email" -> 2 [] f = "url" -> 3 [] f = "ip" -> 4

FormatsCompatible(producer, consumer) ==
    consumer = "" \/ producer = "any" \/ FormatRank(producer) >= FormatRank(consumer)

-----------------------------------------------------------------------------
(* Validation                                                              *)

\* resolveSource: the declared type and format, "" where nothing is known.
Declared(from) ==
    CASE from.kind = "literal" -> [type |-> StaticKind(from.value), format |-> ""]
      [] from.kind = "item" -> [type |-> from.type, format |-> from.format]
      [] from.kind = "step item" -> [type |-> "string", format |-> "text"]
      [] from.kind = "output" -> [type |-> from.port.type, format |-> from.port.format]
      [] from.kind = "all" -> [type |-> "array", format |-> "any"]
      [] from.kind = "builtin" -> [type |-> "", format |-> "any"]
      [] OTHER -> [type |-> "", format |-> ""]

Skippable(from) == from.kind \in {"output", "builtin", "all"} /\ from.skips

FormatError(w) ==
    IF w.from.kind = "literal" /\ w.port.format # "" /\ w.from.value \notin {"num", "list", "nil"}
    THEN ~ScalarMatchesFormat(w.from.value, w.port.format)
    ELSE ~FormatsCompatible(Declared(w.from).format, w.port.format)

\* The validation of core/text_stats has a manifest of its own, in which the
\* port is optional.
TakenForOptional(w) == w.port.optional \/ w.builtin

\* What makes ValidateIssues refuse the port; of a builtin step it compares
\* no more than types.
PortErrors(w) ==
    IF w.from.kind = "nowhere"
    THEN ~TakenForOptional(w)
    ELSE \/ Declared(w.from).type \notin {"", w.port.type}
         \/ ~w.builtin /\ (FormatError(w) \/ (Skippable(w.from) /\ ~w.port.optional))

Validate ==
    /\ flow = "written"
    /\ flow' = IF PortErrors(wiring) THEN "refused" ELSE "accepted"
    /\ UNCHANGED <<wiring, source, turn, attempt, output, results, succeeded, failure>>

-----------------------------------------------------------------------------
(* The run up to the step                                                  *)

\* What the source may hold once the steps before this one are done: an
\* output has passed EnforceOutput, all else is as it came.
MayHold(from) ==
    CASE from.kind = "literal" -> {from.value}
      [] from.kind \in {"item", "step item"} -> Values
      [] from.kind = "deep" -> Values \cup {Missing}
      [] from.kind = "output" ->
            {v \in Values : CheckValue(from.port, v)}
            \cup (IF from.port.optional \/ from.skips \/ from.cond THEN {Missing} ELSE {})
      [] from.kind = "builtin" -> {"plain", "num", Missing}
      [] from.kind = "all" -> {"list", Missing}
      [] from.kind = "nowhere" -> {Missing}

EndsWith(code) == flow' = "over" /\ failure' = code

\* EvaluateWhen over the port's own source: "error" for a comparison of
\* something that is no number.
EvaluateWhen(op, v) ==
    CASE op = "none" -> "true"
      [] op = "exists" -> IF v # Missing THEN "true" ELSE "false"
      [] op = "missing" -> IF v = Missing THEN "true" ELSE "false"
      [] op = "truthy" -> IF v \in {Missing, "nil", "empty"} THEN "false" ELSE "true"
      [] op = "gt" -> IF v = "num" THEN "true" ELSE "error"

\* runStepFlow: the condition is asked once for all turns.
ReachStep ==
    /\ flow = "accepted"
    /\ source' \in MayHold(wiring.from)
    /\ CASE EvaluateWhen(wiring.when, source') = "true" -> flow' = "turns" /\ UNCHANGED failure
         [] EvaluateWhen(wiring.when, source') = "false" -> flow' = "over" /\ UNCHANGED failure
         [] OTHER -> EndsWith("when_error")
    /\ UNCHANGED <<wiring, turn, attempt, output, results, succeeded>>

-----------------------------------------------------------------------------
(* Turns: the step itself, an item of its foreach, a pass of its loop      *)

\* consumeLoopIteration: the passes of all loops of a run are counted.
WithinLoopBudget(passes) == passes <= LoopBudget

BeginTurn ==
    /\ flow = "turns"
    /\ turn < (IF wiring.runs = "once" THEN 1 ELSE MaxTurns)
    /\ turn' = turn + 1 /\ attempt' = 1
    /\ IF wiring.from.kind = "step item" THEN source' \in Values ELSE UNCHANGED source
    /\ IF wiring.runs = "loop" /\ ~WithinLoopBudget(turn') THEN EndsWith("resource_limit") ELSE flow' = "input" /\ UNCHANGED failure
    /\ UNCHANGED <<wiring, output, results, succeeded>>

\* A foreach over fewer items, and a loop that has had its passes.
TurnsEnd ==
    /\ flow = "turns"
    /\ wiring.runs = "foreach" \/ turn = (IF wiring.runs = "once" THEN 1 ELSE MaxTurns)
    /\ flow' = "over"
    /\ UNCHANGED <<wiring, source, turn, attempt, output, results, succeeded, failure>>

\* The turn ended well, with the context's output as out. A foreach gathers
\* it; a loop goes on for as long as it finds its condition there.
EndTurn(out) ==
    /\ output' = out
    /\ results' = IF wiring.runs = "foreach" /\ out # 0 THEN Append(results, out) ELSE results
    /\ flow' \in IF wiring.runs # "loop" THEN {"turns"} ELSE IF out = 0 THEN {"over"} ELSE {"turns", "over"}

\* Mutant: a skipped step keeps the output it had.
KeepsOutput == output

OutputOfSkipped == 0

\* on_error, after the retries if there were any.
SkipOrStop(code) ==
    IF wiring.onError = "skip"
    THEN EndTurn(OutputOfSkipped) /\ UNCHANGED failure
    ELSE EndsWith(code) /\ UNCHANGED <<output, results>>

\* buildInput: an optional port without a value is left out, one with a
\* value has to keep the contract.
InputBuilt == IF source = Missing THEN wiring.port.optional ELSE CheckValue(wiring.port, source)

BuildInput ==
    /\ flow = "input"
    /\ IF InputBuilt
       THEN flow' = "call" /\ UNCHANGED <<output, results, failure>>
       ELSE SkipOrStop("contract_input")
    /\ UNCHANGED <<wiring, source, turn, attempt, succeeded>>

Least(a, b) == IF a < b THEN a ELSE b

\* Attempts of the step; a builtin one has a single attempt.
Attempts(w) ==
    IF w.builtin \/ w.onError # "retry" THEN 1
    ELSE Least(IF w.retries = 0 THEN 3 ELSE w.retries, MaxRetryAttempts)

\* EnforceOutput lets the answer through.
CallSucceeds ==
    /\ flow = "call"
    /\ succeeded' = succeeded \cup {turn}
    /\ EndTurn(turn)
    /\ UNCHANGED <<wiring, source, turn, attempt, failure>>

\* The answer breaks the contract of the outputs: the run fails, whatever on_error is.
CallBreaksContract ==
    /\ flow = "call" /\ ~wiring.builtin
    /\ EndsWith("contract_output")
    /\ UNCHANGED <<wiring, source, turn, attempt, output, results, succeeded>>

\* ShouldRetry: a timeout, or an error the plugin calls retryable.
CallRetried ==
    /\ flow = "call" /\ attempt < Attempts(wiring)
    /\ attempt' = attempt + 1
    /\ UNCHANGED <<wiring, flow, source, turn, output, results, succeeded, failure>>

\* An error of its own, or one more than the attempts allow.
CallFails ==
    /\ flow = "call"
    /\ SkipOrStop(IF wiring.builtin THEN "empty_text" ELSE "domain")
    /\ UNCHANGED <<wiring, source, turn, attempt, succeeded>>

\* A platform error stops the run even with on_error: skip, and so does a
\* cancellation, also while a retry waits.
CallStopped ==
    /\ flow = "call" /\ ~wiring.builtin
    /\ \E code \in {"platform", "cancelled"} : EndsWith(code)
    /\ UNCHANGED <<wiring, source, turn, attempt, output, results, succeeded>>

-----------------------------------------------------------------------------
StepIsNew ==
    /\ flow = "written"
    /\ source = Missing
    /\ turn = 0 /\ attempt = 0 /\ output = 0
    /\ results = <<>> /\ succeeded = {}
    /\ failure = ""

ContractsInit == wiring \in Wirings /\ StepIsNew

ContractsNext ==
    \/ Validate \/ ReachStep \/ BeginTurn \/ TurnsEnd \/ BuildInput
    \/ CallSucceeds \/ CallBreaksContract \/ CallRetried \/ CallFails \/ CallStopped

ContractsSpec == ContractsInit /\ [][ContractsNext]_contractVars

-----------------------------------------------------------------------------
\* Type correctness.
ContractsTypeOK ==
    /\ flow \in {"written", "refused", "accepted", "turns", "input", "call", "over"}
    /\ source \in Values \cup {Missing}
    /\ turn \in 0 .. MaxTurns /\ attempt \in 0 .. MaxRetryAttempts
    /\ output \in 0 .. turn /\ succeeded \subseteq 1 .. turn
    /\ failure # "" => flow = "over"

\* Sources whose value validation says nothing of: of no declared type, or
\* declared for the items of a list but only warned about; null.
Unchecked(from) ==
    \/ from.kind \in {"deep", "builtin", "item", "step item"}
    \/ from.kind = "literal" /\ from.value = "nil"

\* A format is taken for another of no higher rank, which it may not match;
\* a literal URL may hold a blank, a literal file an empty name.
LooseFormat(w) ==
    \/ w.from.kind = "output" /\ w.from.port.format # w.port.format /\ w.port.format \notin {"", "text"}
    \/ w.from.kind = "literal" /\ <<w.port.format, w.from.value>> \in {<<"url", "web blank">>, <<"file_ref", "empty">>}

\* The source may be absent though its step does not skip on errors: the port
\* of the producer is optional, it has a condition, or nothing was gathered.
MayBeAbsent(from) ==
    \/ from.kind = "output" /\ (from.port.optional \/ from.cond)
    \/ from.kind = "all"

\* What validation accepted is refused at run time (contract_input) only where
\* it could not know better, in the three ways above, or where its manifest of
\* core/text_stats is not that of the run; and never for an absent
\* value under a condition that the value exists (validate_issues.go:419-471,
\* steps.go:186-207). And later steps see the outputs of the turns that gave
\* one, in order, never that of an earlier turn in place of one that was
\* skipped (steps.go:72-80, 196-207, 292-301).
ContractsHold ==
    /\ failure = "contract_input" =>
          /\ \/ Unchecked(wiring.from) \/ LooseFormat(wiring) \/ MayBeAbsent(wiring.from)
             \/ wiring.builtin /\ source = Missing
          /\ source = Missing => wiring.when \notin {"exists", "truthy"} /\ ~wiring.port.optional
    /\ output \in {0, turn, turn - 1}
    /\ flow \in {"turns", "over"} /\ failure = "" /\ output # 0 => output = turn
    /\ wiring.runs = "foreach" =>
          /\ \A i \in DOMAIN results : results[i] \in succeeded
          /\ Len(results) = Cardinality(succeeded)
          /\ \A i, k \in DOMAIN results : i < k => results[i] < results[k]
=============================================================================
