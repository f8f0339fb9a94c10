------------------------------- MODULE MCParts -------------------------------
(***************************************************************************)
(* Instances of the parts that share no state with each other, checked in  *)
(* one run: part says which one moves, and all the others stay in one of   *)
(* their initial states. A behaviour of this specification is a behaviour  *)
(* of one part, and every behaviour of every part is there.                *)
(***************************************************************************)
EXTENDS RunService, WebAccess, Approvals, PluginProcess, EgressFilter, JournalFiles,
        McpServer, MCPipelineChecks, Install, Isolation, Contracts, SavedWork

VARIABLE part

PartNames == {"runs", "web", "approvals", "call", "egress", "reader", "store", "mcp", "exec",
              "pipeline", "install", "windows", "linux", "edits", "uploads", "contract", "presets", "import"}

-----------------------------------------------------------------------------
(* Values of the constants                                                 *)

Own(n) == [name |-> n, port |-> "own"]
Bare(n) == [name |-> n, port |-> NoPort]
Proxied == [scheme |-> "https", host |-> Bare("public")]

\* On the machine itself, without a session, in the local network, behind a
\* proxy; the first of the last two is refused.
MCListenChoices ==
    {[name |-> n, allowRemote |-> n # "localhost", noSession |-> s,
      publicHosts |-> h, trustedProxy |-> h # {}, scheme |-> ""] :
        n \in {"localhost", "any"}, s \in BOOLEAN, h \in {{}, {Bare("public")}}}

MCRequests ==
    {q \in [method : Methods, path : Paths, host : {Bare("public"), Own("localhost"), Own("elsewhere")},
            code : 0 .. 3, cookie : 0 .. 1, site : {"", "cross-site"}, origin : {NoOrigin, Proxied}] :
        /\ q.method = "GET" => q.site = "" /\ q.origin = NoOrigin
        /\ q.path = "/" => q.method = "GET"
        /\ q.path = "/api/runs" => q.code = 0
        /\ q.code # 0 => q.cookie = 0}

MCCalls ==
    LET plain == [os |-> "linux", runtime |-> "binary", agent |-> FALSE, untrusted |-> FALSE,
                  entryOutside |-> FALSE, anyHost |-> TRUE, list |-> {"shipped"}, deny |-> FALSE, allow |-> FALSE]
    IN  {plain,
         [plain EXCEPT !.untrusted = TRUE, !.allow = TRUE],
         [plain EXCEPT !.os = "windows", !.agent = TRUE, !.allow = TRUE],
         [plain EXCEPT !.runtime = "other", !.list = {"shipped", "changed"}],
         [plain EXCEPT !.os = "windows", !.runtime = "python", !.deny = TRUE]}

MCHostNames == {<<"corp">>, <<"api", "corp">>}
MCAsks ==
    {[connect |-> TRUE, host |-> <<"api", "corp">>, port |-> 0],
     [connect |-> TRUE, host |-> <<"corp">>, port |-> 443],
     [connect |-> TRUE, host |-> <<"api", "corp">>, port |-> 22],
     [connect |-> FALSE, host |-> <<"api", "corp">>, port |-> 0]}
MCAllow == {[anyHost |-> FALSE, pattern |-> <<"*", "corp">>, port |-> 0]}

MCPollLimits == [maxBytes |-> 4, maxEvents |-> 2]
MCTailLimits == [maxBytes |-> 6, maxEvents |-> 2]

MCEntries == {[source |-> "remote", pin |-> p, safe |-> TRUE, beside |-> TRUE] : p \in {0, 1}}

\* Two plugins share a directory, one is prepared twice: a1 of plugin a has
\* the network, b1 installs b and b2 runs it.
MCProfile == [l \in Launches |-> IF l \in Networked THEN "pa" ELSE "pb"]
MCReads == [l \in Launches |-> IF l \in Networked \cup Installs THEN <<"python">> ELSE <<"own", "python">>]

Manifest(s, l, u) == [sound |-> s, lock |-> l, untrusted |-> u]
MCManifests == {Manifest(TRUE, "l1", FALSE), Manifest(TRUE, "l2", TRUE), Manifest(FALSE, "l1", FALSE)}
MCTemplate == [f \in SourceNames |-> CASE f = "plugin.yaml" -> Manifest(TRUE, "l1", FALSE)
                                        [] f = "main.py" -> "c1"
                                        [] f = "requirements.lock" -> "l1"]
MCDrafts ==
    {[f \in {"plugin.yaml"} |-> m] : m \in MCManifests}
    \cup {[f \in {"plugin.yaml", "requirements.lock"} |-> IF f = "plugin.yaml" THEN Manifest(TRUE, "l2", TRUE) ELSE "l2"],
          [f \in {"main.py"} |-> "c2"]}
MCTrustLists == {{MCTemplate}, {Overlay(MCTemplate, d) : d \in MCDrafts}}

\* Every kind of source for each kind of port; conditions on one of them; what
\* takes turns reads items or an untyped value.
PortOf(t, f, o) == [type |-> t, format |-> f, optional |-> o]
Step(p, f) == [port |-> p, from |-> f, builtin |-> FALSE, onError |-> "stop", retries |-> 0, when |-> "none", runs |-> "once"]
MCPorts == {PortOf("string", f, FALSE) : f \in Formats} \cup {PortOf("string", "email", TRUE), PortOf("number", "", FALSE)}
MCSources == {f \in Sources : f.kind # "step item" /\ (f.kind = "output" => f.port \in MCPorts)}
Turned(p, k, r) == {[Step(p, [kind |-> k]) EXCEPT !.runs = r, !.onError = e, !.retries = n] : e \in {"stop", "skip", "retry"}, n \in {0, 2}}
MCWirings ==
    {Step(p, f) : p \in MCPorts, f \in MCSources}
    \cup {[Step(PortOf("string", "email", FALSE), f) EXCEPT !.when = c] : f \in MCSources, c \in Conditions}
    \cup {[Step(PortOf("string", "", FALSE), [kind |-> "deep"]) EXCEPT !.when = c] : c \in Conditions}
    \cup {[Step(TextPort, f) EXCEPT !.builtin = TRUE, !.onError = e] : f \in {f \in MCSources : f.kind \notin {"output"}}, e \in {"skip","stop"}}
    \cup Turned(PortOf("string", "file_ref", FALSE), "step item", "foreach")
    \cup Turned(PortOf("string", "", TRUE), "deep", "loop")
    \cup Turned(PortOf("string", "", FALSE), "deep", "once")

\* One field at a time; the last two say what the editor cannot carry.
MCPreset == [onError |-> "", timeout |-> "", when |-> NoWhen, input |-> [declared |-> FALSE, default |-> "small"],
             network |-> "", schedule |-> FALSE, rest |-> 1]
MCPresets ==
    {MCPreset, [MCPreset EXCEPT !.schedule = TRUE, !.network = "deny"], [MCPreset EXCEPT !.onError = "skip", !.timeout = "2m"]}
    \cup {[MCPreset EXCEPT !.network = n] : n \in {"allow", "odd"}}
    \cup {[MCPreset EXCEPT !.when = [op |-> o, value |-> v]] : o \in {"eq", "gt"}, v \in {"empty", "five", "5"}}
    \cup {[MCPreset EXCEPT !.input = [declared |-> TRUE, default |-> d]] : d \in {"absent", "null", "big"}}
MCChains == {[MCPreset EXCEPT !.network = "allow", !.when = [op |-> "eq", value |-> "five"], !.rest = 2]}

\* One thing at a time that an import may meet.
Dependency(n, f) == [name |-> n, form |-> f]
MCProject == [files |-> {"pyproject.toml"}, readable |-> TRUE, named |-> TRUE, dependencies |-> <<Dependency("x", "pin")>>,
              scripts |-> <<"function">>, where |-> "", packages |-> {"src"}, absolute |-> TRUE, loads |-> "well"]
MCProjects ==
    {[MCProject EXCEPT !.dependencies = d] :
        d \in {<<>>, <<Dependency("x", "range"), Dependency("x", "pin")>>}
              \cup {<<Dependency("x", "pin"), Dependency(n, f)>> : n \in {"x", "y"}, f \in Forms}}
    \cup {[MCProject EXCEPT !.scripts = s] : s \in {<<>>, <<"cli", "function">>, <<"cli">>, <<"malformed">>}}
    \cup {[MCProject EXCEPT !.where = w, !.packages = k, !.absolute = FALSE] : w \in {"", "src", "other"}, k \in SUBSET {"src", "root"}}
    \cup {[MCProject EXCEPT !.loads = l] : l \in {"raises", "exits"}}
    \cup {[MCProject EXCEPT !.files = f] : f \in {{"setup.cfg"}, {"setup.py"}, {}}}
    \cup {[MCProject EXCEPT !.readable = FALSE], [MCProject EXCEPT !.named = FALSE]}

-----------------------------------------------------------------------------
(* One part moves                                                          *)

\* All parts but the one that moves begin with these.
Stays(name, variable, value) == part = name \/ variable = value

PartsInit ==
    /\ part \in PartNames
    /\ RunsInit
    /\ Stays("web", options, CHOOSE o \in MCListenChoices : ValidateListen(o)) /\ WebInit
    /\ ApprovalsInit
    /\ Stays("call", call, CHOOSE c \in MCCalls : "shipped" \in c.list) /\ content = "shipped" /\ CallInit
    /\ Stays("egress", dns, [h \in MCHostNames |-> {"public"}]) /\ EgressInit
    /\ JournalFilesInit
    /\ McpInit /\ (part \in {"mcp", "exec"} \/ channels = [human |-> TRUE, elicitation |-> TRUE])
    /\ Stays("pipeline", pipeline, CHOOSE p \in MCPipelines : TRUE) /\ PipelineInit
    /\ Stays("install", entry, CHOOSE e \in MCEntries : TRUE) /\ checkout = [head |-> 1, files |-> 1]
    /\ Stays("install", place, Absent) /\ Stays("install", preset, 0)
    \* Either both of plugin and preset are there already or none is.
    /\ InstallInit /\ (place = Absent <=> preset = 0)
    /\ IsolationInit
    /\ Stays("edits", plugin, MCTemplate) /\ Stays("edits", trustList, {MCTemplate}) /\ PluginEditingInit
    /\ Stays("contract", wiring, Step(PortOf("string", "", FALSE), [kind |-> "deep"])) /\ ContractsInit
    /\ Stays("presets", presetFile, MCPreset) /\ PresetEditingInit
    /\ Stays("import", python3, TRUE) /\ ImportingInit

RunsMove == part = "runs" /\ RunsNext
WebMoves == part = "web" /\ WebNext
ApprovalsMove == part = "approvals" /\ ApprovalsNext
CallMoves == part = "call" /\ CallNext
EgressMoves == part = "egress" /\ EgressNext
ReaderMoves == part = "reader" /\ ReaderNext
StoreMoves == part = "store" /\ StoreNext
McpMoves == part = "mcp" /\ RunCallsNext
ExecMoves == part = "exec" /\ ExecCallsNext
PipelineMoves == part = "pipeline" /\ PipelineNext
InstallMoves == part = "install" /\ InstallNext
WindowsMoves == part = "windows" /\ WindowsNext
LinuxMoves == part = "linux" /\ LinuxNext
EditsMove == part = "edits" /\ EditNext
ContractMoves == part = "contract" /\ ContractsNext
PresetsMove == part = "presets" /\ PresetNext
ImportMoves == part = "import" /\ ImportingNext
UploadsMove == part = "uploads" /\ UploadNext

PartsNext ==
    /\ UNCHANGED part
    /\ \/ RunsMove /\ UNCHANGED <<webVars, approvalVars, callVars, egressVars, journalFileVars, mcpVars, pipelineVars, installVars, isolationVars, pluginEditingVars, contractVars, presetVars, importVars>>
       \/ WebMoves /\ UNCHANGED <<runsVars, approvalVars, callVars, egressVars, journalFileVars, mcpVars, pipelineVars, installVars, isolationVars, pluginEditingVars, contractVars, presetVars, importVars>>
       \/ ApprovalsMove /\ UNCHANGED <<runsVars, webVars, callVars, egressVars, journalFileVars, mcpVars, pipelineVars, installVars, isolationVars, pluginEditingVars, contractVars, presetVars, importVars>>
       \/ CallMoves /\ UNCHANGED <<runsVars, webVars, approvalVars, egressVars, journalFileVars, mcpVars, pipelineVars, installVars, isolationVars, pluginEditingVars, contractVars, presetVars, importVars>>
       \/ EgressMoves /\ UNCHANGED <<runsVars, webVars, approvalVars, callVars, journalFileVars, mcpVars, pipelineVars, installVars, isolationVars, pluginEditingVars, contractVars, presetVars, importVars>>
       \/ (ReaderMoves \/ StoreMoves) /\ UNCHANGED <<runsVars, webVars, approvalVars, callVars, egressVars, mcpVars, pipelineVars, installVars, isolationVars, pluginEditingVars, contractVars, presetVars, importVars>>
       \/ (McpMoves \/ ExecMoves) /\ UNCHANGED <<runsVars, webVars, approvalVars, callVars, egressVars, journalFileVars, pipelineVars, installVars, isolationVars, pluginEditingVars, contractVars, presetVars, importVars>>
       \/ PipelineMoves /\ UNCHANGED <<runsVars, webVars, approvalVars, callVars, egressVars, journalFileVars, mcpVars, installVars, isolationVars, pluginEditingVars, contractVars, presetVars, importVars>>
       \/ InstallMoves /\ UNCHANGED <<runsVars, webVars, approvalVars, callVars, egressVars, journalFileVars, mcpVars, pipelineVars, isolationVars, pluginEditingVars, contractVars, presetVars, importVars>>
       \/ (WindowsMoves \/ LinuxMoves) /\ UNCHANGED <<runsVars, webVars, approvalVars, callVars, egressVars, journalFileVars, mcpVars, pipelineVars, installVars, pluginEditingVars, contractVars, presetVars, importVars>>
       \/ (EditsMove \/ UploadsMove) /\ UNCHANGED <<runsVars, webVars, approvalVars, callVars, egressVars, journalFileVars, mcpVars, pipelineVars, installVars, isolationVars, contractVars, presetVars, importVars>>
       \/ ContractMoves /\ UNCHANGED <<runsVars, webVars, approvalVars, callVars, egressVars, journalFileVars, mcpVars, pipelineVars, installVars, isolationVars, pluginEditingVars, presetVars, importVars>>
       \/ PresetsMove /\ UNCHANGED <<runsVars, webVars, approvalVars, callVars, egressVars, journalFileVars, mcpVars, pipelineVars, installVars, isolationVars, pluginEditingVars, contractVars, importVars>>
       \/ ImportMoves /\ UNCHANGED <<runsVars, webVars, approvalVars, callVars, egressVars, journalFileVars, mcpVars, pipelineVars, installVars, isolationVars, pluginEditingVars, contractVars, presetVars>>

partsVars == <<part, runsVars, webVars, approvalVars, callVars, egressVars, journalFileVars, mcpVars, pipelineVars, installVars, isolationVars, pluginEditingVars, contractVars, presetVars, importVars>>

\* RunsFairness, CallFairness and McpFairness, each while its part moves.
PartsFairness ==
    /\ \A r \in Runs : /\ WF_runsVars(part = "runs" /\ GoroutineStep(r))
                       /\ WF_runsVars(part = "runs" /\ Reconcile(r))
                       /\ \A n \in Gates : WF_runsVars(part = "runs" /\ CloseOnCancel(r, n))
    /\ WF_callVars(part = "call" /\ CallStep) /\ WF_callVars(part = "call" /\ CancelProcess)
    /\ WF_callVars(part = "call" /\ KillGroup) /\ WF_callVars(part = "call" /\ WaitDelayPasses)
    /\ WF_callVars(part = "call" /\ DeadlinePasses)
    /\ WF_mcpVars(part = "mcp" /\ CancelInflightEnds)
    /\ \A r \in RunCalls : /\ WF_mcpVars(part = "mcp" /\ RunHandlerStep(r))
                           /\ WF_mcpVars(part = "mcp" /\ McpRunStep(r))

PartsSpec == PartsInit /\ [][PartsNext]_partsVars /\ PartsFairness

\* Type correctness of every part.
PartsTypeOK ==
    /\ RunsTypeOK /\ WebTypeOK /\ ApprovalsTypeOK /\ CallTypeOK /\ EgressTypeOK
    /\ JournalFilesTypeOK /\ McpTypeOK /\ PipelineTypeOK /\ InstallTypeOK
    /\ IsolationTypeOK /\ PluginEditingTypeOK /\ ContractsTypeOK
    /\ PresetEditingTypeOK /\ ImportingTypeOK
=============================================================================
