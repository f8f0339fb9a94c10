--------------------------- MODULE PluginProcess ----------------------------
(***************************************************************************)
(* One call of a plugin (internal/plugin: execPluginEnv and what it calls):*)
(* the decision to trust the plugin's files, the sandbox of an untrusted   *)
(* one, its process with the processes that one leaves behind, and the     *)
(* verdict on its answer. The run may be cancelled, the deadline may pass  *)
(* and an installer may replace the plugin's files at any moment.          *)
(*                                                                         *)
(* On Linux a process group is killed with its main process, a process     *)
(* that left the group is not; on Windows a job object holds them all.     *)
(* Inside the Linux sandbox everything dies with its pid namespace, so     *)
(* only a trusted plugin can leave a process outside the group.            *)
(***************************************************************************)
EXTENDS Naturals

CONSTANTS
    Calls,       \* calls to consider, see Call
    MaxInstalls  \* bound on replacements of the plugin's files

Contents == {"shipped", "changed", "no digest"}
Call ==
    [os : {"linux", "windows"},
     runtime : {"python", "binary", "other"},
     agent : BOOLEAN,        \* written by an agent: under agent-plugins/
     untrusted : BOOLEAN,    \* sandbox: untrusted in the manifest
     entryOutside : BOOLEAN, \* runtime.entry is not among the files hashed
     anyHost : BOOLEAN,      \* permissions.network with any_host
     list : SUBSET {"shipped", "changed"}, \* digests on the allow-list
     deny : BOOLEAN, allow : BOOLEAN]      \* TrustPolicy

ASSUME CallAssumption == Calls \subseteq Call /\ MaxInstalls \in Nat

VARIABLES
    call,       \* manifest, as it was loaded, and policy
    content,    \* what is in the plugin's directory
    installs,   \* replacements so far
    at,         \* where the call is
    bare,       \* the plugin counts as trusted: no sandbox
    parentDone, \* the run is cancelled
    ctx,        \* the context with the deadline
    held,       \* resources to give back
    proc,       \* the plugin's process
    child,      \* a process it started that holds its output open
    late,       \* ProcWaitDelay has passed since the process ended
    killer,     \* the goroutine that waits for ctx and kills the group
    said,       \* what is on standard output
    exit,       \* exit code
    verdict,    \* ExecResult
    killedFor   \* history: why the process was killed

callVars == <<call, content, installs, at, bare, parentDone, ctx, held, proc, child, late,
              killer, said, exit, verdict, killedFor>>
worldVars == <<call, content, installs>>
processVars == <<proc, child, late, said, exit, killedFor>>

Answers == {"nothing", "ok", "error", "retryable", "no status", "garbage", "too much"}
Verdict(code, platform, cancelled, retryable) ==
    [code |-> code, platform |-> platform, cancelled |-> cancelled, retryable |-> retryable]
NoVerdict == Verdict("none", FALSE, FALSE, FALSE)
Failure(code) == Verdict(code, TRUE, code = "cancelled", FALSE)

ShouldRetry(v) == ~v.cancelled /\ (v.code = "timeout" \/ (~v.platform /\ v.retryable))

\* DecideTrust: the allow-list is asked for the digest of what is there now.
DecideTrust ==
    /\ ~call.agent /\ ~call.untrusted /\ ~call.entryOutside
    /\ content # "no digest"
    /\ content \in call.list

EnforceTrust == ~call.deny /\ (DecideTrust \/ call.allow)

CallInit ==
    /\ call \in Calls
    /\ content \in Contents
    /\ installs = 0
    /\ at = "called"
    /\ bare = FALSE
    /\ parentDone = FALSE
    /\ ctx = "none"
    /\ held = {}
    /\ proc = "none"
    /\ child = "none"
    /\ late = FALSE
    /\ killer = "none"
    /\ said = "nothing"
    /\ exit = 0
    /\ verdict = NoVerdict
    /\ killedFor = "none"

\* The call goes on, or ends with a verdict after its deferred calls.
GoesOn(from, to) == at = from /\ at' = to /\ verdict' = verdict
FailsWith(from, code) == at = from /\ at' = "deferred" /\ verdict' = Failure(code)

\* markContextResult: what a failure is called once the context is done.
Blamed(code) == IF parentDone THEN "cancelled" ELSE IF ctx = "deadline" THEN "timeout" ELSE code

-----------------------------------------------------------------------------
(* Before the process                                                      *)

CheckTrust ==
    /\ \/ parentDone /\ FailsWith("called", "cancelled")
       \/ ~parentDone /\ ~EnforceTrust /\ FailsWith("called", "sandbox_unavailable")
       \/ ~parentDone /\ EnforceTrust /\ GoesOn("called", "allowed")
    /\ UNCHANGED <<worldVars, bare, parentDone, ctx, held, killer, processVars>>

\* The second decision; it chooses the sandbox, not whether the plugin runs.
ChooseIsolation ==
    /\ GoesOn("allowed", "runtime")
    /\ bare' = DecideTrust
    /\ UNCHANGED <<worldVars, parentDone, ctx, held, killer, processVars>>

\* The interpreter may be missing; then the deadline starts to run.
FindRuntime ==
    /\ \/ call.runtime = "other" /\ FailsWith("runtime", "runtime_unknown") /\ ctx' = ctx
       \/ call.runtime = "python" /\ FailsWith("runtime", "runtime_missing") /\ ctx' = ctx
       \/ /\ call.runtime \in {"python", "binary"}
          /\ GoesOn("runtime", "isolate")
          /\ ctx' = IF parentDone THEN "canceled" ELSE "live"
    /\ UNCHANGED <<worldVars, bare, parentDone, held, killer, processVars>>

\* newSandboxScratch, sandboxCommand and sandboxEgress. The network of a Linux
\* sandbox is set up after the start; elsewhere the filter starts here.
Isolate ==
    /\ \/ bare /\ GoesOn("isolate", "start") /\ UNCHANGED held
       \/ ~bare /\ FailsWith("isolate", "sandbox_unavailable") /\ UNCHANGED held
       \/ /\ ~bare
          /\ GoesOn("isolate", "start")
          /\ held' = {"scratch"} \cup (IF call.anyHost /\ call.os = "windows" THEN {"egress"} ELSE {})
    /\ UNCHANGED <<worldVars, bare, parentDone, ctx, killer, processVars>>

-----------------------------------------------------------------------------
(* The process                                                             *)

\* prepareProcessGroup, Start and attachProcessGroup; a process that cannot
\* be put into its job object is killed. exec starts nothing once ctx is done.
StartProcess ==
    /\ \/ /\ FailsWith("start", "process_group") /\ call.os = "windows"
          /\ UNCHANGED <<proc, killer>>
       \/ /\ FailsWith("start", Blamed("spawn_failed"))
          /\ UNCHANGED <<proc, killer>>
       \/ /\ ctx = "live" /\ call.os = "windows"
          /\ FailsWith("start", Blamed("process_group"))
          /\ proc' = "dead"
          /\ UNCHANGED killer
       \/ /\ ctx = "live"
          /\ GoesOn("start", IF ~bare /\ call.anyHost /\ call.os = "linux" THEN "attach" ELSE "wait")
          /\ proc' = "alive"
          /\ killer' = "armed"
    /\ UNCHANGED <<worldVars, bare, parentDone, ctx, held, child, late, said, exit, killedFor>>

\* linuxNetSetup.attach: the plugin waits at its gate until the network is up.
AttachNetwork ==
    /\ \/ /\ GoesOn("attach", "wait")
          /\ held' = held \cup {"tap"}
          /\ UNCHANGED proc
       \/ /\ FailsWith("attach", Blamed("sandbox_unavailable"))
          /\ proc' = "dead"
          /\ UNCHANGED held
    /\ UNCHANGED <<worldVars, bare, parentDone, ctx, child, late, killer, said, exit, killedFor>>

\* The plugin leaves a process with its output behind, in or out of its group.
StartChild ==
    /\ at = "wait" /\ proc = "alive" /\ child = "none"
    /\ child' \in {"group"} \cup (IF bare /\ call.os = "linux" THEN {"away"} ELSE {})
    /\ UNCHANGED <<worldVars, at, bare, parentDone, ctx, held, proc, late, killer, said, exit,
                   verdict, killedFor>>

PluginEnds ==
    /\ at = "wait" /\ proc = "alive"
    /\ proc' = "dead"
    /\ exit' \in 0 .. 2
    /\ said' \in Answers
    /\ UNCHANGED <<worldVars, at, bare, parentDone, ctx, held, child, late, killer, verdict, killedFor>>

\* Killing the group spares the processes that have left it.
AfterKill == IF child = "group" THEN "dead" ELSE child

\* cmd.Cancel, which exec calls while it waits for the process.
CancelProcess ==
    /\ at \in {"attach", "wait"} /\ proc = "alive" /\ ctx \in {"deadline", "canceled"}
    /\ proc' = "dead"
    /\ child' = AfterKill
    /\ exit' = 2
    /\ killedFor' = ctx
    /\ UNCHANGED <<worldVars, at, bare, parentDone, ctx, held, late, killer, said, verdict>>

ChildEnds ==
    /\ child \in {"group", "away"}
    /\ child' = "dead"
    /\ UNCHANGED <<worldVars, at, bare, parentDone, ctx, held, proc, late, killer, said, exit,
                   verdict, killedFor>>

WaitDelayPasses ==
    /\ at = "wait" /\ proc = "dead" /\ ~late
    /\ late' = TRUE
    /\ UNCHANGED <<worldVars, at, bare, parentDone, ctx, held, proc, child, killer, said, exit,
                   verdict, killedFor>>

\* Mutant: without WaitDelay the output has to be closed by those who hold it.
PipesAreClosed == child \notin {"group", "away"}

\* exec gives the output up when WaitDelay has passed.
MayReturn == child \notin {"group", "away"} \/ late

\* The answer of a process nobody killed.
Judged ==
    IF said \in {"too much", "garbage"} \/ (exit = 0 /\ said # "ok") THEN Failure("protocol_violation")
    ELSE IF exit = 0 THEN Verdict("ok", FALSE, FALSE, FALSE)
    ELSE IF exit = 1 THEN Verdict("plugin_error", FALSE, FALSE, said = "retryable")
    ELSE IF said \in {"error", "retryable"} THEN Verdict("platform:error", TRUE, FALSE, said = "retryable")
    ELSE Failure("crash")

\* Mutant: the deadline is looked at, the cancelled run is not.
JudgeDeadlineOnly == IF ctx = "deadline" THEN Failure("timeout") ELSE Judged

\* Cancelled before timed out before anything the plugin said.
Judge ==
    IF parentDone THEN Failure("cancelled")
    ELSE IF ctx = "deadline" THEN Failure("timeout") ELSE Judged

WaitReturns ==
    /\ at = "wait" /\ proc = "dead" /\ MayReturn
    /\ at' = "deferred"
    /\ verdict' = Judge
    /\ UNCHANGED <<worldVars, bare, parentDone, ctx, held, killer, processVars>>

\* The deferred calls: network, process group, filter, scratch, cancel.
Return ==
    /\ at = "deferred"
    /\ at' = "done"
    /\ held' = {}
    /\ child' = IF call.os = "windows" /\ killer # "none" THEN AfterKill ELSE child
    /\ ctx' = IF ctx = "live" THEN "canceled" ELSE ctx
    /\ UNCHANGED <<worldVars, bare, parentDone, killer, proc, late, said, exit, verdict, killedFor>>

\* go func() { <-ctx.Done(); killProcessGroup(cmd) }
KillGroup ==
    /\ killer = "armed" /\ ctx \in {"deadline", "canceled"}
    /\ killer' = "done"
    /\ child' = AfterKill
    /\ IF proc = "alive"
       THEN /\ proc' = "dead" /\ exit' = 2 /\ killedFor' = ctx
       ELSE UNCHANGED <<proc, exit, killedFor>>
    /\ UNCHANGED <<worldVars, at, bare, parentDone, ctx, held, late, said, verdict>>

-----------------------------------------------------------------------------
(* The world                                                               *)

CancelRun ==
    /\ ~parentDone
    /\ at # "done"
    /\ parentDone' = TRUE
    /\ ctx' = IF ctx = "live" THEN "canceled" ELSE ctx
    /\ UNCHANGED <<worldVars, at, bare, held, killer, verdict, processVars>>

DeadlinePasses ==
    /\ ctx = "live"
    /\ ctx' = "deadline"
    /\ UNCHANGED <<worldVars, at, bare, parentDone, held, killer, verdict, processVars>>

\* It matters until the process has read them.
ReplaceFiles ==
    /\ installs < MaxInstalls
    /\ at \in {"called", "allowed", "runtime", "isolate", "start"}
    /\ installs' = installs + 1
    /\ content' \in Contents \ {content}
    /\ UNCHANGED <<call, at, bare, parentDone, ctx, held, killer, verdict, processVars>>

CallStep ==
    \/ CheckTrust \/ ChooseIsolation \/ FindRuntime \/ Isolate
    \/ StartProcess \/ AttachNetwork \/ WaitReturns \/ Return

CallNext ==
    \/ CallStep \/ CancelProcess \/ KillGroup \/ WaitDelayPasses \/ DeadlinePasses
    \/ StartChild \/ PluginEnds \/ ChildEnds \/ CancelRun \/ ReplaceFiles

\* Time passes and Fidespipe's goroutines run; plugins owe nothing.
CallFairness ==
    /\ WF_callVars(CallStep) /\ WF_callVars(CancelProcess) /\ WF_callVars(KillGroup)
    /\ WF_callVars(WaitDelayPasses) /\ WF_callVars(DeadlinePasses)

CallSpec == CallInit /\ [][CallNext]_callVars /\ CallFairness

-----------------------------------------------------------------------------
\* Type correctness.
CallTypeOK ==
    /\ call \in Call /\ content \in Contents /\ installs \in 0 .. MaxInstalls
    /\ at \in {"called", "allowed", "runtime", "isolate", "start", "attach", "wait", "deferred", "done"}
    /\ bare \in BOOLEAN /\ parentDone \in BOOLEAN /\ late \in BOOLEAN
    /\ ctx \in {"none", "live", "deadline", "canceled"}
    /\ held \subseteq {"scratch", "egress", "tap"}
    /\ proc \in {"none", "alive", "dead"} /\ child \in {"none", "group", "away", "dead"}
    /\ killer \in {"none", "armed", "done"} /\ killedFor \in {"none", "deadline", "canceled"}
    /\ said \in Answers /\ exit \in 0 .. 2

\* A plugin that the run's cancellation killed is reported as cancelled and
\* never tried again, one that the deadline killed is never a plugin's own
\* error, and a success is one the plugin reported before anybody killed it
\* (execPluginEnv, process.go:383-489), whichever of the two goroutines did it.
HonestVerdict ==
    at = "done" =>
        /\ killedFor = "canceled" => verdict.cancelled /\ ~ShouldRetry(verdict)
        /\ killedFor = "deadline" => verdict.code \in {"timeout", "cancelled"}
        /\ verdict.code = "ok" => killedFor = "none" /\ exit = 0 /\ said = "ok"

\* Every started plugin is waited for no longer than its deadline and
\* ProcWaitDelay, even when another process holds its output, and the call
\* gives everything back and leaves no process of its group (process.go:299-350).
CallLeavesNothing ==
    at = "wait" ~> (at = "done" /\ held = {} /\ proc = "dead" /\ child # "group")
=============================================================================
