------------------------------ MODULE McpServer -------------------------------
(***************************************************************************)
(* The MCP server (internal/mcp): calls read from one transport, each in a *)
(* goroutine of its own or, in a batch, in the reader itself; the run slot *)
(* and the slots of exec_plugin; cancellation by notification before or    *)
(* after a call has got its run; gates decided in a dialog of the client   *)
(* (elicitation/create) or in the web console of internal/api.             *)
(*                                                                         *)
(* The id of a call stands for its request key and for its run. What a run *)
(* does between its gates is the subject of Runner; the channel of the     *)
(* console is that of GateChannel, taken in single steps. A client         *)
(* initializes at most once, as the protocol (external) has it.            *)
(***************************************************************************)
EXTENDS Naturals, FiniteSets

CONSTANTS
    RunCalls,    \* calls of run_pipeline
    ExecCalls,   \* calls of exec_plugin
    GateCount,   \* bound on the gates of a run
    MaxDialogs,  \* bound on requests to the client
    MaxExec      \* MaxConcurrentAgentExec

NoCall == "no call"

ASSUME McpAssumption ==
    /\ RunCalls \cap ExecCalls = {} /\ NoCall \notin RunCalls \cup ExecCalls
    /\ GateCount \in Nat /\ MaxDialogs \in Nat /\ MaxExec \in Nat

VARIABLES
    channels,   \* Server.human is there; --gate-elicitation
    capable,    \* clientElicitation
    reader,     \* Serve: ready, in a batch call, or in cancelInflight
    callAt,     \* where the handler of each call is
    inflight,   \* Server.inflight
    dropped,    \* inflightCall.cancelled
    bound,      \* calls with a runID or cancelExec
    runSlot,    \* currentRunID
    runAt,      \* where the goroutine of each run is
    runCancels, \* Server.cancels
    requested,  \* runState.cancelRequested
    stopped,    \* runs and plugin calls whose context is done
    console,    \* the run's ChannelUI
    attached,   \* runs whose ChannelUI the web console has as their gate
    fallback,   \* elicitRunner.fallback is set
    fellBack,   \* elicitRunner.used
    gatesLeft,  \* gates ahead of each run
    dialog,     \* number of the request a run waits for, 0 for none
    outboundSeq, \* number of the last request to the client
    sent,       \* requests the client has, which it may answer at any time
    replies,    \* Server.pending: numbers waited for, with what came in
    execTaken,  \* len(execSem)
    told,       \* history: calls cancelled while there was something to cancel
    mixedUp     \* history: gates decided by the answer to another one

mcpCallVars == <<reader, callAt, inflight, dropped, bound, execTaken, told>>
mcpGateVars == <<console, attached, fallback, fellBack, gatesLeft, dialog, outboundSeq, sent, replies, mixedUp>>
mcpRunVars == <<runSlot, runAt, runCancels, requested>>
mcpVars == <<channels, capable, mcpCallVars, mcpRunVars, stopped, mcpGateVars>>

McpCalls == RunCalls \cup ExecCalls
DialogIds == 1 .. MaxDialogs
Ready == [at |-> "ready", call |-> NoCall]
NoReply == [word |-> "none", run |-> NoCall, gate |-> 0]
DialogWords == {"accept", "decline", "cancel", "error", "unknown"}

McpInit ==
    /\ channels \in [human : BOOLEAN, elicitation : BOOLEAN]
    /\ capable = FALSE
    /\ reader = Ready
    /\ callAt = [c \in McpCalls |-> "new"]
    /\ inflight = {} /\ dropped = {} /\ bound = {} /\ told = {}
    /\ runSlot = NoCall
    /\ runAt = [r \in RunCalls |-> "none"]
    /\ runCancels = {} /\ requested = {} /\ stopped = {}
    /\ console = [r \in RunCalls |-> "idle"]
    /\ attached = {} /\ fallback = {} /\ fellBack = {}
    /\ gatesLeft = [r \in RunCalls |-> 0]
    /\ dialog = [r \in RunCalls |-> 0]
    /\ outboundSeq = 0
    /\ sent = {}
    /\ replies = [i \in DialogIds |-> NoReply]
    /\ execTaken = 0
    /\ mixedUp = {}

-----------------------------------------------------------------------------
(* Serve                                                                   *)

Initialize ==
    /\ reader = Ready /\ ~capable
    /\ capable' = TRUE
    /\ UNCHANGED <<channels, mcpCallVars, mcpRunVars, stopped, mcpGateVars>>

\* A call alone gets a goroutine; in a batch the reader handles it.
ReadCall(c) ==
    /\ reader = Ready /\ callAt[c] = "new"
    /\ callAt' = [callAt EXCEPT ![c] = "begun"]
    /\ inflight' = inflight \cup {c}
    /\ reader' \in {Ready, [at |-> "batch", call |-> c]}
    /\ UNCHANGED <<channels, capable, dropped, bound, execTaken, told, mcpRunVars, stopped, mcpGateVars>>

\* The handler returns: endCall, and the reader goes on if it was a batch.
EndCall(c) ==
    /\ callAt' = [callAt EXCEPT ![c] = "answered"]
    /\ inflight' = inflight \ {c}
    /\ reader' = IF reader = [at |-> "batch", call |-> c] THEN Ready ELSE reader

RefuseCall(c) ==
    /\ callAt[c] = "begun"
    /\ EndCall(c)
    /\ UNCHANGED <<channels, capable, dropped, bound, execTaken, told, mcpRunVars, stopped, mcpGateVars>>

\* notifications/cancelled: first half of cancelInflight, under the lock.
\* A run stays known by its request until its goroutine gives up the slot.
CancelInflight(c) ==
    LET live == c \in inflight \/ c = runSlot IN
    /\ reader = Ready /\ callAt[c] # "new"
    /\ live
    /\ dropped' = IF c \in inflight THEN dropped \cup {c} ELSE dropped
    /\ told' = told \cup {c}
    /\ reader' = IF c \in bound THEN [at |-> "cancel", call |-> c] ELSE Ready
    /\ UNCHANGED <<channels, capable, callAt, inflight, bound, execTaken, mcpRunVars, stopped, mcpGateVars>>

\* cancelRun: through the run's cancel function, or as a request that the
\* goroutine of the run finds; a run that is over is an error to the caller.
RequestCancel(r) ==
    IF r \in runCancels
    THEN stopped' = stopped \cup {r} /\ UNCHANGED requested
    ELSE /\ requested' = IF runAt[r] = "over" THEN requested ELSE requested \cup {r}
         /\ UNCHANGED stopped

CancelInflightEnds ==
    LET c == reader.call IN
    /\ reader.at = "cancel"
    /\ reader' = Ready
    /\ IF c \in RunCalls THEN RequestCancel(c) ELSE stopped' = stopped \cup {c} /\ UNCHANGED requested
    /\ UNCHANGED <<channels, capable, callAt, inflight, dropped, bound, execTaken, told,
                   runSlot, runAt, runCancels, mcpGateVars>>

\* toolCancel, or a human who cancels in the console.
CancelTool(r) ==
    /\ callAt[r] \notin {"new", "begun"} /\ (r = runSlot \/ runAt[r] # "none")
    /\ RequestCancel(r)
    /\ UNCHANGED <<channels, capable, mcpCallVars, runSlot, runAt, runCancels, mcpGateVars>>

-----------------------------------------------------------------------------
(* toolRun                                                                 *)

\* elicitGateAvailable: the operator's flag and the client's capability.
DialogAvailable == channels.elicitation /\ capable

\* Its checks passed, a pipeline with gates has a channel to a human.
TakeRunSlot(r) ==
    /\ callAt[r] = "begun" /\ runSlot = NoCall
    /\ runSlot' = r
    /\ \E n \in 0 .. GateCount :
          /\ n > 0 => channels.human \/ DialogAvailable
          /\ gatesLeft' = [gatesLeft EXCEPT ![r] = n]
    /\ callAt' = [callAt EXCEPT ![r] = "claimed"]
    /\ UNCHANGED <<channels, capable, reader, inflight, dropped, bound, execTaken, told, runAt, runCancels,
                   requested, stopped, console, attached, fallback, fellBack, dialog, outboundSeq, sent,
                   replies, mixedUp>>

\* Mutant: a cancellation that came before the run is forgotten.
ForgetsEarly(r) == FALSE

\* bindRun: the call was cancelled before it had a run.
WasDropped(r) == r \in dropped

BindRun(r) ==
    /\ callAt[r] = "claimed"
    /\ bound' = bound \cup {r}
    /\ requested' = IF WasDropped(r) THEN requested \cup {r} ELSE requested
    /\ callAt' = [callAt EXCEPT ![r] = "bound"]
    /\ UNCHANGED <<channels, capable, reader, inflight, dropped, execTaken, told, runSlot, runAt, runCancels,
                   stopped, mcpGateVars>>

SpawnRun(r) ==
    /\ callAt[r] = "bound"
    /\ callAt' = [callAt EXCEPT ![r] = "waiting"]
    /\ runAt' = [runAt EXCEPT ![r] = "spawned"]
    /\ UNCHANGED <<channels, capable, reader, inflight, dropped, bound, execTaken, told, runSlot, runCancels,
                   requested, stopped, mcpGateVars>>

\* wait_seconds are over, or the status is one to report.
RunCallReturns(r) ==
    /\ callAt[r] = "waiting"
    /\ EndCall(r)
    /\ UNCHANGED <<channels, capable, dropped, bound, execTaken, told, mcpRunVars, stopped, mcpGateVars>>

\* The goroutine registers its cancel function, and looks for an early
\* cancellation under the same lock.
SetRunCancel(r) ==
    /\ runAt[r] = "spawned"
    /\ runAt' = [runAt EXCEPT ![r] = "going"]
    /\ runCancels' = runCancels \cup {r}
    /\ stopped' = IF r \in requested THEN stopped \cup {r} ELSE stopped
    /\ UNCHANGED <<channels, capable, mcpCallVars, runSlot, requested, mcpGateVars>>

\* Mutant: the number of the last request is used again.
NumberAgain == IF outboundSeq = 0 THEN 1 ELSE outboundSeq

NextNumber == outboundSeq + 1

\* The run comes to a gate; RunOptions.GateUI chooses who is asked.
ReachGateDialog(r) ==
    /\ runAt[r] = "going" /\ gatesLeft[r] > 0 /\ DialogAvailable
    /\ outboundSeq < MaxDialogs
    /\ outboundSeq' = NextNumber
    /\ fallback' = IF channels.human THEN fallback \cup {r} ELSE fallback
    /\ runAt' = [runAt EXCEPT ![r] = "dialog"]
    /\ dialog' = [dialog EXCEPT ![r] = NextNumber]
    /\ replies' = [replies EXCEPT ![NextNumber] = NoReply]
    /\ sent' = sent \cup {[id |-> NextNumber, run |-> r, gate |-> gatesLeft[r]]}
    /\ UNCHANGED <<channels, capable, mcpCallVars, runSlot, runCancels, requested, stopped, console, attached,
                   fellBack, gatesLeft, mixedUp>>

ReachGateConsole(r) ==
    /\ runAt[r] = "going" /\ gatesLeft[r] > 0 /\ ~DialogAvailable /\ channels.human
    /\ attached' = attached \cup {r}
    /\ runAt' = [runAt EXCEPT ![r] = "console"]
    /\ UNCHANGED <<channels, capable, mcpCallVars, runSlot, runCancels, requested, stopped, console, fallback,
                   fellBack, gatesLeft, dialog, outboundSeq, sent, replies, mixedUp>>

-----------------------------------------------------------------------------
(* Gates: elicit.go, and ChannelUI for the console                         *)

\* The gate is done with; a cancelled run comes to no other one.
LeaveGateTo(r) ==
    /\ runAt' = [runAt EXCEPT ![r] = "going"]
    /\ gatesLeft' = [gatesLeft EXCEPT ![r] = IF r \in stopped THEN 0 ELSE @ - 1]

\* deliverClientResponse: only what is waited for, and only the first answer.
ClientAnswers ==
    /\ reader = Ready
    /\ \E q \in sent, word \in DialogWords :
          /\ \E r \in RunCalls : runAt[r] = "dialog" /\ dialog[r] = q.id
          /\ replies[q.id] = NoReply
          /\ replies' = [replies EXCEPT ![q.id] = [word |-> word, run |-> q.run, gate |-> q.gate]]
    /\ UNCHANGED <<channels, capable, mcpCallVars, mcpRunVars, stopped, console, attached, fallback, fellBack,
                   gatesLeft, dialog, outboundSeq, sent, mixedUp>>

\* accept and decline decide; cancel and an unknown word end the gate.
HearDialog(r) ==
    LET reply == replies[dialog[r]] IN
    /\ runAt[r] = "dialog"
    /\ reply.word \in {"accept", "decline", "cancel", "unknown"}
    /\ LeaveGateTo(r)
    /\ mixedUp' = IF reply.run = r /\ reply.gate = gatesLeft[r] THEN mixedUp
                  ELSE mixedUp \cup {<<r, gatesLeft[r]>>}
    /\ dialog' = [dialog EXCEPT ![r] = 0]
    /\ UNCHANGED <<channels, capable, mcpCallVars, runSlot, runCancels, requested, stopped, console, attached,
                   fallback, fellBack, outboundSeq, sent, replies>>

\* The run's context ends the wait.
DialogStops(r) ==
    /\ runAt[r] = "dialog" /\ r \in stopped
    /\ LeaveGateTo(r)
    /\ dialog' = [dialog EXCEPT ![r] = 0]
    /\ UNCHANGED <<channels, capable, mcpCallVars, runSlot, runCancels, requested, stopped, console, attached,
                   fallback, fellBack, outboundSeq, sent, replies, mixedUp>>

\* fallbackDecision after a time-out, a failed write or an error of the
\* client: once in a run the gate goes on with the console's channel.
DialogFails(r) ==
    /\ runAt[r] = "dialog"
    /\ r \notin stopped \/ replies[dialog[r]].word = "error"
    /\ IF r \in fallback \ fellBack
       THEN /\ fellBack' = fellBack \cup {r}
            /\ runAt' = [runAt EXCEPT ![r] = "console"]
            /\ UNCHANGED gatesLeft
       ELSE LeaveGateTo(r) /\ UNCHANGED fellBack
    /\ dialog' = [dialog EXCEPT ![r] = 0]
    /\ UNCHANGED <<channels, capable, mcpCallVars, runSlot, runCancels, requested, stopped, console, attached,
                   fallback, outboundSeq, sent, replies, mixedUp>>

\* A human decides in the web console, which needs the gate to be attached;
\* the one channel of the run keeps a decision that comes between gates.
DecideInConsole(r) ==
    /\ r \in attached /\ console[r] = "idle"
    /\ console' = [console EXCEPT ![r] = "decided"]
    /\ UNCHANGED <<channels, capable, mcpCallVars, mcpRunVars, stopped, attached, fallback, fellBack, gatesLeft,
                   dialog, outboundSeq, sent, replies, mixedUp>>

\* <-runCtx.Done(); ui.Close(), once.
CloseConsole(r) ==
    /\ r \in stopped /\ console[r] = "idle" /\ runAt[r] \notin {"none", "spawned"}
    /\ console' = [console EXCEPT ![r] = "closed"]
    /\ UNCHANGED <<channels, capable, mcpCallVars, mcpRunVars, stopped, attached, fallback, fellBack, gatesLeft,
                   dialog, outboundSeq, sent, replies, mixedUp>>

\* WaitDecision; the end of input is read once and leaves the channel shut.
HearConsole(r) ==
    /\ runAt[r] = "console" /\ console[r] \in {"decided", "closed"}
    /\ LeaveGateTo(r)
    /\ console' = [console EXCEPT ![r] = IF @ = "decided" THEN "idle" ELSE "shut"]
    /\ UNCHANGED <<channels, capable, mcpCallVars, runSlot, runCancels, requested, stopped, attached, fallback,
                   fellBack, dialog, outboundSeq, sent, replies, mixedUp>>

-----------------------------------------------------------------------------
(* The end of a run, and exec_plugin                                       *)

McpRunReturns(r) ==
    /\ runAt[r] = "going" /\ (gatesLeft[r] = 0 \/ r \in stopped)
    /\ runAt' = [runAt EXCEPT ![r] = "returned"]
    /\ UNCHANGED <<channels, capable, mcpCallVars, runSlot, runCancels, requested, stopped, mcpGateVars>>

\* The deferred DetachRun and cancel.
DetachRun(r) ==
    /\ runAt[r] = "returned"
    /\ runAt' = [runAt EXCEPT ![r] = "detached"]
    /\ attached' = attached \ {r}
    /\ stopped' = stopped \cup {r}
    /\ UNCHANGED <<channels, capable, mcpCallVars, runSlot, runCancels, requested, console, fallback, fellBack,
                   gatesLeft, dialog, outboundSeq, sent, replies, mixedUp>>

GiveRunSlot(r) ==
    /\ runAt[r] = "detached"
    /\ runAt' = [runAt EXCEPT ![r] = "freed"]
    /\ runSlot' = NoCall
    /\ runCancels' = runCancels \ {r}
    /\ UNCHANGED <<channels, capable, mcpCallVars, requested, stopped, mcpGateVars>>

CloseDone(r) ==
    /\ runAt[r] = "freed"
    /\ runAt' = [runAt EXCEPT ![r] = "over"]
    /\ UNCHANGED <<channels, capable, mcpCallVars, runSlot, runCancels, requested, stopped, mcpGateVars>>

\* acquireExecSlot does not wait; without a free slot the call is refused.
AcquireExec(c) ==
    /\ callAt[c] = "begun"
    /\ execTaken < MaxExec
    /\ execTaken' = execTaken + 1
    /\ callAt' = [callAt EXCEPT ![c] = "claimed"]
    /\ UNCHANGED <<channels, capable, reader, inflight, dropped, bound, told, mcpRunVars, stopped, mcpGateVars>>

\* bindExec, once the checks of the plugin have passed.
BindExec(c) ==
    /\ callAt[c] = "claimed"
    /\ bound' = bound \cup {c}
    /\ stopped' = IF c \in dropped THEN stopped \cup {c} ELSE stopped
    /\ callAt' = [callAt EXCEPT ![c] = "waiting"]
    /\ UNCHANGED <<channels, capable, reader, inflight, dropped, execTaken, told, mcpRunVars, mcpGateVars>>

\* Refused, failed or run to its end: the slot goes back in every case.
ExecReturns(c) ==
    /\ callAt[c] \in {"claimed", "waiting"}
    /\ execTaken' = execTaken - 1
    /\ EndCall(c)
    /\ UNCHANGED <<channels, capable, dropped, bound, told, mcpRunVars, stopped, mcpGateVars>>

-----------------------------------------------------------------------------
McpRunStep(r) ==
    \/ SetRunCancel(r) \/ ReachGateDialog(r) \/ ReachGateConsole(r) \/ HearDialog(r) \/ DialogStops(r)
    \/ CloseConsole(r) \/ HearConsole(r) \/ McpRunReturns(r) \/ DetachRun(r) \/ GiveRunSlot(r) \/ CloseDone(r)

RunHandlerStep(r) == RefuseCall(r) \/ TakeRunSlot(r) \/ BindRun(r) \/ SpawnRun(r) \/ RunCallReturns(r)

RunCallsNext ==
    \/ Initialize \/ CancelInflightEnds \/ ClientAnswers
    \/ \E r \in RunCalls : ReadCall(r) \/ CancelInflight(r) \/ CancelTool(r) \/ RunHandlerStep(r)
    \/ \E r \in RunCalls : McpRunStep(r) \/ DialogFails(r) \/ DecideInConsole(r)

ExecHandlerStep(c) == RefuseCall(c) \/ AcquireExec(c) \/ BindExec(c) \/ ExecReturns(c)

ExecCallsNext ==
    \/ CancelInflightEnds
    \/ \E c \in ExecCalls : ReadCall(c) \/ CancelInflight(c) \/ ExecHandlerStep(c)

McpNext == RunCallsNext \/ ExecCallsNext

\* Handlers, the reader and the goroutines of runs go on; a handler waits
\* wait_seconds at most. Clients and humans need never act.
McpFairness ==
    /\ WF_mcpVars(CancelInflightEnds)
    /\ \A r \in RunCalls : WF_mcpVars(RunHandlerStep(r)) /\ WF_mcpVars(McpRunStep(r))

McpSpec == McpInit /\ [][McpNext]_mcpVars /\ McpFairness

-----------------------------------------------------------------------------
\* Type correctness; the slots in use are those of the calls that have one.
McpTypeOK ==
    /\ runSlot \in RunCalls \cup {NoCall}
    /\ \A r \in RunCalls : runSlot = r <=> \/ callAt[r] \in {"claimed", "bound"}
                                           \/ runAt[r] \in {"spawned", "going", "dialog", "console",
                                                            "returned", "detached"}
    /\ execTaken = Cardinality({c \in ExecCalls : callAt[c] \in {"claimed", "waiting"}})
    /\ runCancels \subseteq RunCalls /\ told \subseteq McpCalls
    /\ outboundSeq \in 0 .. MaxDialogs
    /\ \A r \in RunCalls : console[r] \in {"idle", "decided", "closed", "shut"}

\* A notifications/cancelled for a call under way ends its run, whether it
\* comes before the call has a run, before the run has its cancel function,
\* or while the run waits for a human (session.go:141-167, tools.go:268-277).
CancelledCallStops ==
    \A r \in RunCalls : r \in told ~> callAt[r] = "answered" /\ runAt[r] \in {"none", "over"}

\* An answer of the client decides the gate that it was asked about and no
\* other, however late it comes and whatever became of that gate.
DialogDecidesItsGate == mixedUp = {}

\* A gate whose dialog failed goes on in the console, where a human can
\* decide it (docs/mcp.md:173, elicit.go:158).
FailedDialogGoesToConsole ==
    \A r \in RunCalls : runAt[r] = "console" /\ r \in fellBack => r \in attached
=============================================================================
