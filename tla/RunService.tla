---------------------------- MODULE RunService ------------------------------
(***************************************************************************)
(* Runs started from the web page (internal/api): the single run slot, the *)
(* cancel functions and gates that the run's goroutine registers and HTTP  *)
(* handlers use, the cached summary that a decision is checked against,    *)
(* and the reconciliation of journals when a server starts.                *)
(*                                                                         *)
(* A journal is the sequence of those of its events that a status depends  *)
(* on. A decision is a word the gate knows; what happens to other words is *)
(* the subject of GateChannel. A run is started by this server or belongs  *)
(* to another process (the scheduler, the command line) that writes to the *)
(* same directory.                                                         *)
(***************************************************************************)
EXTENDS Naturals, Sequences

CONSTANTS
    Runs,            \* runs in the runs directory
    Handlers,        \* HTTP requests that decide a gate or list the runs
    GatesPerRun,     \* bound on the gates one run comes to
    MaxServerCrashes \* bound on crashes of the server

NoRun == "no run"

ASSUME RunsAssumption ==
    /\ NoRun \notin Runs
    /\ GatesPerRun \in Nat
    /\ MaxServerCrashes \in Nat

VARIABLES
    slot,        \* runMu: the run that holds it
    phase,       \* where the goroutine of each run is
    ctxDone,     \* runs whose context is cancelled
    cancels,     \* Server.cancels: runs with a registered cancel function
    gates,       \* Server.gates: the gate registered for a run, 0 for none
    chanUI,      \* the channel of each gate of each run
    closers,     \* goroutines that close a gate when the run is cancelled
    journal,     \* journal.jsonl of each run
    cache,       \* summaryCache: size and status, size 0 when there is none
    request,     \* what each handler has got so far
    reconciling, \* journals the starting server has yet to look at
    crashes,     \* crashes so far
    lateAnswers  \* history: decisions accepted although the run was over

runsVars == <<slot, phase, ctxDone, cancels, gates, chanUI, closers, journal, cache,
              request, reconciling, crashes, lateAnswers>>
memoryVars == <<slot, ctxDone, cancels, gates, chanUI, closers>>
otherVars == <<reconciling, crashes>>

Phases == {"absent", "admitted", "listed", "working", "gate", "returned", "cancelled",
           "unlisted", "ungated", "over", "dead", "foreign", "foreign over"}
OutOfServer == {"absent", "over", "dead", "foreign", "foreign over"}
Events == {"run_start", "gate_wait", "gate_decision", "run_end", "run_failed",
           "run_cancelled", "interrupted"}
Terminal == {"run_end", "run_failed", "run_cancelled", "interrupted"}
Gates == 1 .. GatesPerRun
Idle == [at |-> "idle", run |-> NoRun, gate |-> 0, size |-> 0, status |-> "running", late |-> FALSE]

\* runSummaryAcc.add: the last event that says something about the status
\* wins; run_end with interrupted set stands as "interrupted".
Status(events) ==
    LET last == {i \in DOMAIN events : /\ events[i] \in Terminal
                                       /\ \A j \in DOMAIN events : j > i => events[j] \notin Terminal}
    IN  IF last = {} THEN "running" ELSE events[CHOOSE i \in last : TRUE]

\* scanForRunEnd: only run_end counts as an end, with or without interrupted.
HasEnd(events) == \E i \in DOMAIN events : events[i] \in {"run_end", "interrupted"}
HasStart(events) == \E i \in DOMAIN events : events[i] = "run_start"

\* Mutant: a run that waits at a gate is taken for one that is over.
TakesGateForEnd(events) ==
    HasStart(events) /\ ~HasEnd(events) /\ \A i \in DOMAIN events : events[i] # "gate_wait"

\* Mutant: every run that has begun is closed.
HasBegun(events) == HasStart(events)

\* What reconcileInterruptedRuns closes.
LacksEnd(events) == HasStart(events) /\ ~HasEnd(events)

RunsInit ==
    /\ slot = NoRun
    /\ phase = [r \in Runs |-> "absent"]
    /\ ctxDone = {}
    /\ cancels = {}
    /\ gates = [r \in Runs |-> 0]
    /\ chanUI = [r \in Runs |-> [n \in Gates |-> "none"]]
    /\ closers = {}
    /\ journal = [r \in Runs |-> <<>>]
    /\ cache = [r \in Runs |-> [size |-> 0, status |-> "running"]]
    /\ request = [h \in Handlers |-> Idle]
    /\ reconciling = {}
    /\ crashes = 0
    /\ lateAnswers = {}

Serving == reconciling = {}
Moves(r, from, to) == phase[r] = from /\ phase' = [phase EXCEPT ![r] = to]
Log(r, event) == journal' = [journal EXCEPT ![r] = Append(@, event)]
CurrentGate(r) == CHOOSE n \in Gates : chanUI[r][n] # "none" /\ \A m \in Gates : m > n => chanUI[r][m] = "none"

-----------------------------------------------------------------------------
(* handleRunStart and the goroutine it starts                              *)

HandleRunStart(r) ==
    /\ Serving
    /\ slot = NoRun
    /\ Moves(r, "absent", "admitted")
    /\ slot' = r
    /\ UNCHANGED <<ctxDone, cancels, gates, chanUI, closers, journal, cache, request,
                   otherVars, lateAnswers>>

\* NewRunID fails: the slot is given back.
NewRunIDFails(r) ==
    /\ Moves(r, "admitted", "absent")
    /\ slot' = NoRun
    /\ UNCHANGED <<ctxDone, cancels, gates, chanUI, closers, journal, cache, request,
                   otherVars, lateAnswers>>

SetCancel(r) ==
    /\ Moves(r, "admitted", "listed")
    /\ cancels' = cancels \cup {r}
    /\ UNCHANGED <<slot, ctxDone, gates, chanUI, closers, journal, cache, request,
                   otherVars, lateAnswers>>

\* runWG.Add, the goroutine, and core.Run up to its first event, which may be
\* lost like any other.
BeginRun(r) ==
    /\ Moves(r, "listed", "working")
    /\ Log(r, "run_start") \/ UNCHANGED journal
    /\ UNCHANGED <<memoryVars, cache, request, otherVars, lateAnswers>>

\* Mutant: nothing closes the gate when the run is cancelled.
NoCloser(r, n) == {}

\* The goroutine that waits for the context and closes the gate.
Closer(r, n) == {<<r, n>>}

\* RunOptions.GateUI: a new channel takes the place of the last gate's.
OpenGate(r) ==
    \E n \in Gates :
        /\ chanUI[r][n] = "none"
        /\ \A m \in Gates : m < n => chanUI[r][m] # "none"
        /\ Moves(r, "working", "gate")
        /\ chanUI' = [chanUI EXCEPT ![r][n] = "idle"]
        /\ gates' = [gates EXCEPT ![r] = n]
        /\ closers' = closers \cup Closer(r, n)
        /\ Log(r, "gate_wait")
        /\ UNCHANGED <<slot, ctxDone, cancels, cache, request, otherVars, lateAnswers>>

\* <-runCtx.Done(); ui.Close(): refused when a decision is already queued.
CloseOnCancel(r, n) ==
    /\ <<r, n>> \in closers
    /\ r \in ctxDone
    /\ closers' = closers \ {<<r, n>>}
    /\ chanUI' = [chanUI EXCEPT ![r][n] = IF @ = "idle" THEN "closed" ELSE @]
    /\ UNCHANGED <<slot, phase, ctxDone, cancels, gates, journal, cache, request,
                   otherVars, lateAnswers>>

\* WaitDecision returns: with a decision, or with the end of input.
LeaveGate(r) ==
    LET n == CurrentGate(r) IN
    /\ phase[r] = "gate"
    /\ chanUI[r][n] \in {"decided", "closed"}
    /\ Moves(r, "gate", "working")
    /\ chanUI' = [chanUI EXCEPT ![r][n] = IF @ = "decided" THEN "idle" ELSE @]
    /\ Log(r, "gate_decision")
    /\ UNCHANGED <<slot, ctxDone, cancels, gates, closers, cache, request, otherVars,
                   lateAnswers>>

\* What core.Run may say at its end, see Runner: a run that is cancelled late,
\* or while a step fails, ends as it would have ended anyway.
LastEvents(r) == {"run_end", "run_failed"} \cup IF r \in ctxDone THEN {"run_cancelled"} ELSE {}

\* core.Run returns; its last event may be missing.
RunReturns(r) ==
    /\ Moves(r, "working", "returned")
    /\ \/ \E last \in LastEvents(r) : Log(r, last)
       \/ UNCHANGED journal
    /\ UNCHANGED <<memoryVars, cache, request, otherVars, lateAnswers>>

\* The deferred calls of the goroutine: cancel, clearCancel, clearGate, Unlock.
DeferredCancel(r) ==
    /\ Moves(r, "returned", "cancelled")
    /\ ctxDone' = ctxDone \cup {r}
    /\ UNCHANGED <<slot, cancels, gates, chanUI, closers, journal, cache, request,
                   otherVars, lateAnswers>>

ClearCancel(r) ==
    /\ Moves(r, "cancelled", "unlisted")
    /\ cancels' = cancels \ {r}
    /\ UNCHANGED <<slot, ctxDone, gates, chanUI, closers, journal, cache, request,
                   otherVars, lateAnswers>>

CloseGate(uis, r) ==
    IF gates[r] = 0 THEN uis ELSE [uis EXCEPT ![r][gates[r]] = IF @ = "idle" THEN "closed" ELSE @]

ClearGate(r) ==
    /\ Moves(r, "unlisted", "ungated")
    /\ chanUI' = CloseGate(chanUI, r)
    /\ gates' = [gates EXCEPT ![r] = 0]
    /\ UNCHANGED <<slot, ctxDone, cancels, closers, journal, cache, request, otherVars,
                   lateAnswers>>

Unlock(r) ==
    /\ Moves(r, "ungated", "over")
    /\ slot' = NoRun
    /\ UNCHANGED <<ctxDone, cancels, gates, chanUI, closers, journal, cache, request,
                   otherVars, lateAnswers>>

-----------------------------------------------------------------------------
(* handleRunCancel, handleRunGate and handleRuns                           *)

HandleRunCancel(r) ==
    /\ Serving
    /\ r \in cancels
    /\ ctxDone' = ctxDone \cup {r}
    /\ UNCHANGED <<slot, phase, cancels, gates, chanUI, closers, journal, cache, request,
                   otherVars, lateAnswers>>

\* The POST finds a gate; late is what the journal says at that moment.
GateFor(h, r) ==
    /\ Serving
    /\ request[h] = Idle
    /\ gates[r] # 0
    /\ request' = [request EXCEPT ![h] =
           [Idle EXCEPT !.at = "stat", !.run = r, !.gate = gates[r],
                        !.late = Status(journal[r]) # "running"]]
    /\ UNCHANGED <<memoryVars, phase, journal, cache, otherVars, lateAnswers>>

\* handleRuns asks for the summary of every run it lists.
ListRun(h, r) ==
    /\ Serving
    /\ request[h] = Idle
    /\ journal[r] # <<>>
    /\ request' = [request EXCEPT ![h] = [Idle EXCEPT !.at = "stat", !.run = r]]
    /\ UNCHANGED <<memoryVars, phase, journal, cache, otherVars, lateAnswers>>

\* cachedRunSummary: the stat, and the cached summary if its size is the same.
StatJournal(h) ==
    LET q == request[h]
        size == Len(journal[q.run])
        hit == size = cache[q.run].size
    IN
    /\ q.at = "stat"
    /\ request' = [request EXCEPT ![h] =
           IF hit THEN [q EXCEPT !.at = "judge", !.status = cache[q.run].status]
                  ELSE [q EXCEPT !.at = "scan", !.size = size]]
    /\ UNCHANGED <<memoryVars, phase, journal, cache, otherVars, lateAnswers>>

\* runSummary reads what the journal has come to since the stat.
ScanJournal(h) ==
    /\ request[h].at = "scan"
    /\ request' = [request EXCEPT ![h].at = "store",
                                  ![h].status = Status(journal[request[h].run])]
    /\ UNCHANGED <<memoryVars, phase, journal, cache, otherVars, lateAnswers>>

\* Mutant: with the size the journal has when the summary is stored.
SizeNow(q) == Len(journal[q.run])

\* The summary is stored with the size of the stat before the scan.
CachedSize(q) == q.size

StoreSummary(h) ==
    LET q == request[h] IN
    /\ q.at = "store"
    /\ cache' = [cache EXCEPT ![q.run] = [size |-> CachedSize(q), status |-> q.status]]
    /\ request' = [request EXCEPT ![h].at = "judge"]
    /\ UNCHANGED <<memoryVars, phase, journal, otherVars, lateAnswers>>

\* Mutant: the decision is sent whatever the summary says.
MaySendAlways(q) == q.gate # 0

\* The run must be running by the summary; a listing sends nothing.
MaySend(q) == q.gate # 0 /\ q.status = "running"

\* SendDecision on the channel found at the start, or a refusal.
AnswerDecision(h) ==
    LET q == request[h]
        sent == MaySend(q) /\ chanUI[q.run][q.gate] = "idle"
    IN
    /\ q.at = "judge"
    /\ request' = [request EXCEPT ![h] = Idle]
    /\ chanUI' = IF sent THEN [chanUI EXCEPT ![q.run][q.gate] = "decided"] ELSE chanUI
    /\ lateAnswers' = IF sent /\ q.late THEN lateAnswers \cup {q.run} ELSE lateAnswers
    /\ UNCHANGED <<slot, phase, ctxDone, cancels, gates, closers, journal, cache, otherVars>>

-----------------------------------------------------------------------------
(* Another process, a crash, and the start of a server                     *)

ForeignEvent(r) ==
    /\ \/ Moves(r, "absent", "foreign") /\ Log(r, "run_start")
       \/ Moves(r, "foreign", "foreign over") /\ Log(r, "run_end")
    /\ UNCHANGED <<memoryVars, cache, request, otherVars, lateAnswers>>

ServerCrash ==
    /\ crashes < MaxServerCrashes
    /\ crashes' = crashes + 1
    /\ phase' = [r \in Runs |-> IF phase[r] \in OutOfServer THEN phase[r] ELSE "dead"]
    /\ slot' = NoRun
    /\ ctxDone' = {}
    /\ cancels' = {}
    /\ gates' = [r \in Runs |-> 0]
    /\ chanUI' = [r \in Runs |-> [n \in Gates |-> "none"]]
    /\ closers' = {}
    /\ cache' = [r \in Runs |-> [size |-> 0, status |-> "running"]]
    /\ request' = [h \in Handlers |-> Idle]
    /\ reconciling' = Runs
    /\ UNCHANGED <<journal, lateAnswers>>

\* One turn of the loop of reconcileInterruptedRuns.
Reconcile(r) ==
    /\ r \in reconciling
    /\ reconciling' = reconciling \ {r}
    /\ IF LacksEnd(journal[r]) THEN Log(r, "interrupted") ELSE UNCHANGED journal
    /\ UNCHANGED <<memoryVars, phase, cache, request, crashes, lateAnswers>>

-----------------------------------------------------------------------------
GoroutineStep(r) ==
    \/ SetCancel(r) \/ BeginRun(r) \/ OpenGate(r) \/ LeaveGate(r) \/ RunReturns(r)
    \/ DeferredCancel(r) \/ ClearCancel(r) \/ ClearGate(r) \/ Unlock(r)

RequestStep(h) ==
    \/ \E r \in Runs : GateFor(h, r) \/ ListRun(h, r)
    \/ StatJournal(h) \/ ScanJournal(h) \/ StoreSummary(h) \/ AnswerDecision(h)

RunsNext ==
    \/ \E r \in Runs : HandleRunStart(r) \/ NewRunIDFails(r) \/ HandleRunCancel(r)
    \/ \E r \in Runs : GoroutineStep(r)
    \/ \E r \in Runs, n \in Gates : CloseOnCancel(r, n)
    \/ \E h \in Handlers : RequestStep(h)
    \/ \E r \in Runs : ForeignEvent(r) \/ Reconcile(r)
    \/ ServerCrash

\* Go schedules every goroutine that can go on, and a started server goes
\* through its runs directory; users and crashes are not fair.
RunsFairness ==
    /\ \A r \in Runs : WF_runsVars(GoroutineStep(r))
    /\ \A r \in Runs : \A n \in Gates : WF_runsVars(CloseOnCancel(r, n))
    /\ \A r \in Runs : WF_runsVars(Reconcile(r))

RunsSpec == RunsInit /\ [][RunsNext]_runsVars /\ RunsFairness

-----------------------------------------------------------------------------
\* Type correctness, and the slot belongs to the one run that is under way.
RunsTypeOK ==
    /\ slot \in Runs \cup {NoRun}
    /\ phase \in [Runs -> Phases]
    /\ ctxDone \subseteq Runs
    /\ cancels \subseteq Runs
    /\ gates \in [Runs -> 0 .. GatesPerRun]
    /\ chanUI \in [Runs -> [Gates -> {"none", "idle", "decided", "closed"}]]
    /\ closers \subseteq Runs \X Gates
    /\ \A r \in Runs : journal[r] \in Seq(Events)
    /\ \A r \in Runs : slot = r <=> phase[r] \notin OutOfServer
    /\ lateAnswers \subseteq Runs

\* A decision is never answered with 202 when the terminal event was already
\* in the journal as the request found the gate (handlers_runs.go:386-388):
\* the window between the terminal event and clearGate, and the cache that
\* the check goes through.
NoLateDecision == lateAnswers = {}

\* Whoever finds in the cache a summary for the size the journal has now gets
\* the journal's status (cachedRunSummary), also when the journal grew
\* between the stat and the scan and other requests stored meanwhile.
CacheIsCurrent ==
    \A r \in Runs : cache[r].size = Len(journal[r]) => cache[r].status = Status(journal[r])

\* Once a started server has gone through its directory, no run that died
\* with its predecessor looks as if it were still running.
DeadRunsAreClosed ==
    Serving => \A r \in Runs : phase[r] = "dead" /\ HasStart(journal[r])
                                  => Status(journal[r]) # "running"

\* The last event about the whole run.
Told(events) == IF Status(events) # "running" THEN Status(events)
                ELSE IF HasStart(events) THEN "run_start" ELSE "none"

\* The runs of this server as they look from outside. Those of other processes
\* are left out: reconciliation closes them while they are still going.
Foreign(r) == phase[r] \in {"foreign", "foreign over"}
Life(r) == CASE phase[r] \in {"absent", "admitted", "listed"} \/ Foreign(r) -> "new"
             [] phase[r] \in {"working", "gate"} -> "working"
             [] OTHER -> "rest"
Seen(r) ==
    [life |-> Life(r),
     told |-> IF Foreign(r) THEN "none" ELSE Told(journal[r]),
     cancelled |-> r \in ctxDone /\ phase[r] \in {"listed", "working", "gate"}]

Ledger == INSTANCE RunLedger WITH ledger <- [r \in Runs |-> Seen(r)]

\* What a run started from the page looks like is what Runner makes of a run:
\* one verdict, the last that is said, and "interrupted" only of one nobody
\* works on and that was not said to have ended (server.go:183-220).
RunsKeepLedger == Ledger!LedgerSpec

\* A cancelled run gets out of its gates and gives the slot back, also when
\* it opens a gate after it was cancelled.
CancelledRunEnds ==
    \A r \in Runs : r \in ctxDone ~> phase[r] \in {"over", "dead"}
=============================================================================
