---------------------------- MODULE PresetEditing ----------------------------
(***************************************************************************)
(* A preset in the visual editor: the file is read and parsed into a       *)
(* document, the human changes the document in a browser tab, and saving   *)
(* serializes it anew and writes it over the file (internal/api/editor.go, *)
(* handlers_pipelines.go, web/static/editor/app.js). Nothing of the text   *)
(* survives but what both conversions carry, so what the file meant must.  *)
(*                                                                         *)
(* A pipeline keeps here the fields that a conversion changes: on_error,   *)
(* timeout and when of a step, an input, the network, the schedule. All    *)
(* others are copied field by field in both directions: they are rest.     *)
(***************************************************************************)
EXTENDS Naturals, FiniteSets

CONSTANTS
    Presets,  \* pipelines a file may hold
    Chains,   \* presets a chain is built from
    Tabs,     \* browser tabs that edit it
    MaxEdits, \* bound on the changes of all humans together
    NoText

Ops == {"truthy", "eq", "gt"}
Compared == {"missing", "null", "empty", "five", "5"} \* "five" is the text of the number "5"
NoWhen == [op |-> "", value |-> "null"]
Defaults == {"absent", "null", "small", "big", "rounded"}

Pipelines0 ==
    [onError : {"", "stop", "skip"}, timeout : {"", "2m", "oops"}, when : [op : Ops \cup {""}, value : Compared \ {"missing"}],
     input : [declared : BOOLEAN, default : Defaults], network : {"", "deny", "allow", "odd"},
     schedule : BOOLEAN, rest : {1, 2}]

Torn == [torn |-> TRUE] \* cut off, or pieces of two texts

ASSUME PresetsAssumption ==
    /\ Presets \cup Chains \subseteq Pipelines0 /\ NoText \notin Presets /\ MaxEdits \in Nat
    /\ IsFiniteSet(Tabs) /\ Tabs # {}

VARIABLES
    presetFile, \* what the file holds
    open,       \* tabs that have the file open for writing, truncated
    texts,      \* how many texts were written since it was last empty
    tab,        \* tab -> stage, document, the pipeline it was read from, what a human changed
    text,       \* tab -> the text of its last serialization
    editCount,  \* changes made so far
    spoilt      \* history: a write was cut off, or two overlapped

presetVars == <<presetFile, open, texts, tab, text, editCount, spoilt>>

-----------------------------------------------------------------------------
(* What a pipeline means                                                   *)

Number(v) == v = "5"
Nothing(v) == v \in {"missing", "null"}

\* EvaluateWhen on one value of the context.
Holds(w, v) ==
    CASE w.op = "" -> "true"
      [] w.op = "truthy" -> IF v \in {"five", "5"} THEN "true" ELSE "false"
      [] w.op = "eq" -> IF v = w.value \/ (Nothing(v) /\ Nothing(w.value)) THEN "true" ELSE "false"
      [] w.op = "gt" -> IF ~(Number(v) /\ Number(w.value)) THEN "error" ELSE "false"

EffectiveOnError(p) == IF p.onError = "" THEN "stop" ELSE p.onError
EffectiveNetwork(p) == IF p.network = "" THEN "deny" ELSE p.network
SameWhen(w, u) == \A v \in Compared : Holds(w, v) = Holds(u, v)

\* The errors of ValidateIssues that these fields can cause.
HasPresetErrors(p) == p.network = "odd"

-----------------------------------------------------------------------------
(* The two conversions                                                     *)

\* JSON numbers are floats on the way to the browser and back.
AsFloat(d) == IF d = "big" THEN "rounded" ELSE d

\* handleParsePipeline: the document has no field for the schedule, and
\* nothing is reported as unsupported.
Parse(p) ==
    [onError |-> EffectiveOnError(p), timeout |-> p.timeout, when |-> p.when,
     input |-> [typed |-> p.input.declared, hasDefault |-> p.input.default # "absent",
                default |-> AsFloat(p.input.default)],
     network |-> p.network, rest |-> p.rest]

\* Anything but the two policies is dropped.
NetworkWritten(n) == IF n \in {"deny", "allow"} THEN n ELSE ""

\* An empty value is no value, and a number is meant where numbers compare.
WhenWritten(w) ==
    IF w.value = "empty" THEN [w EXCEPT !.value = "null"]
    ELSE IF w.op = "gt" /\ w.value = "five" THEN [w EXCEPT !.value = "5"]
    ELSE w

InputWritten(i) ==
    [declared |-> i.typed,
     default |-> IF i.typed /\ ~i.hasDefault THEN "absent" ELSE i.default]

\* handleSerializePipeline.
Serialize(d) ==
    [onError |-> d.onError, timeout |-> d.timeout, when |-> WhenWritten(d.when),
     input |-> InputWritten(d.input), network |-> NetworkWritten(d.network),
     schedule |-> FALSE, rest |-> d.rest]

\* The document cannot be written, or what is written has errors.
IsRefused(d) == d.timeout = "oops" \/ HasPresetErrors(Serialize(d))

-----------------------------------------------------------------------------
(* A tab                                                                   *)

Closed == [stage |-> "closed"]
Saved == [stage |-> "saved"]

\* openFile: the file is read as it is at this moment.
OpenPreset(t) ==
    /\ tab[t].stage = "closed"
    /\ presetFile # Torn
    /\ tab' = [tab EXCEPT ![t] = [stage |-> "open", doc |-> Parse(presetFile), from |-> presetFile, touched |-> {}]]
    /\ UNCHANGED <<presetFile, open, texts, text, editCount, spoilt>>

\* A change of a human, within the bound.
Counted == editCount < MaxEdits /\ editCount' = editCount + 1

ChangeField(t, field, value) ==
    /\ tab[t].stage = "open" /\ Counted
    /\ tab' = [tab EXCEPT ![t].doc = [@ EXCEPT ![field] = value], ![t].touched = @ \cup {field}]
    /\ UNCHANGED <<presetFile, open, texts, text, spoilt>>

\* A change on the canvas, a click that grants the network, a slip in a timeout.
EditPreset(t) ==
    \/ ChangeField(t, "rest", 2)
    \/ ChangeField(t, "network", "allow")
    \/ ChangeField(t, "timeout", "oops")

\* applyPreset: the steps of another preset take the place of these. They
\* bring their when, timeout and on_error, and no network.
ApplyPreset(t, p) ==
    /\ tab[t].stage = "open" /\ Counted
    /\ LET d == Parse(p) IN
       tab' = [tab EXCEPT ![t].doc = [d EXCEPT !.input = tab[t].doc.input, !.network = ""],
                          ![t].touched = (@ \ {"network"}) \cup {"onError", "timeout", "when", "rest", "chain"}]
    /\ UNCHANGED <<presetFile, open, texts, text, spoilt>>

\* save: serialized and validated anew, or shown to the human as errors.
SavePreset(t) ==
    /\ tab[t].stage = "open" /\ ~IsRefused(tab[t].doc)
    /\ text' = [text EXCEPT ![t] = Serialize(tab[t].doc)]
    /\ tab' = [tab EXCEPT ![t].stage = "saving"]
    /\ UNCHANGED <<presetFile, open, texts, editCount, spoilt>>

\* handlePipelineDetail: parsed and validated once more, then WriteFile
\* empties the file ...
PutPreset(t) ==
    /\ tab[t].stage = "saving"
    /\ ~HasPresetErrors(text[t])
    /\ tab' = [tab EXCEPT ![t].stage = "writing"]
    /\ spoilt' = (spoilt \/ open # {})
    /\ presetFile' = Torn /\ texts' = 0 /\ open' = open \cup {t}
    /\ UNCHANGED <<text, editCount>>

\* ... and writes from its start. A shorter text over a longer one leaves
\* the end of that.
WritePreset(t) ==
    /\ tab[t].stage = "writing"
    /\ presetFile' \in (IF texts = 0 THEN {text[t]} ELSE {text[t], Torn})
    /\ texts' = texts + 1 /\ open' = open \ {t}
    /\ tab' = [tab EXCEPT ![t] = Saved]
    /\ text' = [text EXCEPT ![t] = NoText]
    /\ UNCHANGED <<editCount, spoilt>>

\* The disk is full, or the server dies.
WriteCutOff(t) ==
    /\ tab[t].stage = "writing"
    /\ spoilt' = TRUE /\ presetFile' \in {presetFile, Torn}
    /\ open' = open \ {t}
    /\ tab' = [tab EXCEPT ![t] = Saved]
    /\ text' = [text EXCEPT ![t] = NoText]
    /\ UNCHANGED <<texts, editCount>>

PresetEditingInit ==
    /\ presetFile \in Presets
    /\ open = {} /\ texts = 1
    /\ tab = [t \in Tabs |-> Closed]
    /\ text = [t \in Tabs |-> NoText]
    /\ editCount = 0 /\ spoilt = FALSE

PresetNext ==
    \E t \in Tabs :
        \/ OpenPreset(t) \/ EditPreset(t)
        \/ \E p \in Chains : ApplyPreset(t, p)
        \/ SavePreset(t) \/ PutPreset(t) \/ WritePreset(t) \/ WriteCutOff(t)

-----------------------------------------------------------------------------
(* Properties                                                              *)

PresetEditingTypeOK ==
    /\ presetFile \in Pipelines0 \cup {Torn}
    /\ open \subseteq Tabs /\ texts \in 0 .. Cardinality(Tabs)
    /\ \A t \in Tabs : tab[t].stage \in {"closed", "open", "saving", "writing", "saved"}
    /\ \A t \in Tabs : text[t] \in Pipelines0 \cup {NoText}
    /\ editCount \in 0 .. MaxEdits /\ spoilt \in BOOLEAN

\* What a conversion loses, and the round trip cannot promise: a comparison
\* with the empty text becomes one with nothing; a number written as text
\* starts to compare; a number above 2^53 is rounded.
LosesWhen(w) == w.value = "empty" \/ (w.op = "gt" /\ w.value = "five")

Untouched(t, field) == field \notin tab[t].touched

\* What a tab is about to write means what the file it had read meant, but for
\* the fields a human changed there; a file that was refused before may mean
\* something now. The schedule is left out: it is always lost.
SavesWhatWasMeant(t) ==
    LET p == tab[t].from
        q == text[t]
    IN  /\ Untouched(t, "onError") => EffectiveOnError(q) = EffectiveOnError(p)
        /\ Untouched(t, "timeout") => q.timeout = p.timeout
        /\ Untouched(t, "when") /\ ~LosesWhen(p.when) => SameWhen(q.when, p.when)
        /\ Untouched(t, "rest") => q.rest = p.rest
        /\ p.input.default # "big" => q.input = p.input
        /\ Untouched(t, "network") /\ Untouched(t, "chain") /\ ~HasPresetErrors(p)
              => EffectiveNetwork(q) = EffectiveNetwork(p)

\* The network is granted by the file as it was, or by a human: never by the
\* preset a chain was built from.
NetworkIsGranted(t) ==
    text[t].network = "allow" =>
        \/ ~Untouched(t, "network")
        \/ tab[t].from.network = "allow" /\ Untouched(t, "chain")

\* Opening a preset in the editor and saving it does not change what it does
\* (editor.go, handlers_pipelines.go 113-148); a chain built from a preset gets
\* no network from it (app.js 443-463); and the file is whole unless a save is
\* under way, was cut off, or met another one.
PresetsAreMeant ==
    /\ \A t \in Tabs : tab[t].stage \in {"saving", "writing"} => SavesWhatWasMeant(t) /\ NetworkIsGranted(t)
    /\ presetFile = Torn => open # {} \/ spoilt

\* What editor_roundtrip_test.go and app.js ask for, and the code does not do:
\* every field of the schema survives, the schedule among them, or the editor
\* refuses to save.
RoundTripLosesNothing ==
    \A t \in Tabs :
        tab[t].stage = "saving" /\ tab[t].touched = {} => text[t].schedule = tab[t].from.schedule
=============================================================================
