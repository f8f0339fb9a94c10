----------------------------- MODULE PartsProofs -----------------------------
(***************************************************************************)
(* Proofs about the parts side by side: in a behaviour of MCParts every    *)
(* part behaves as its own specification says, so that what was proved of  *)
(* each holds of all of them together. The parts that are specified with   *)
(* fairness, which MCParts asks for only of the part that moves, are       *)
(* followed by their invariants.                                           *)
(***************************************************************************)
EXTENDS MCParts, ConsoleProofs, PluginProofs, StorageProofs

-----------------------------------------------------------------------------
(* One part moves, the others stay                                         *)

\* All parts begin together, each as its own specification says.
LEMMA PartsBegin ==
    PartsInit => /\ RunsInit /\ WebInit /\ ApprovalsInit /\ CallInit /\ EgressInit /\ JournalFilesInit /\ McpInit
                 /\ PipelineInit /\ InstallInit /\ IsolationInit /\ ContractsInit /\ SavedWorkInit
BY DEF PartsInit, SavedWorkInit

\* A step of the parts is a step of one of them, and of every other one it changes
\* nothing.
LEMMA PartsMove ==
    ASSUME [PartsNext]_partsVars
    PROVE  /\ [RunsNext]_runsVars /\ [WebNext]_webVars /\ [ApprovalsNext]_approvalVars
           /\ [CallNext]_callVars /\ [EgressNext]_egressVars /\ [JournalFilesNext]_journalFileVars
           /\ [McpNext]_mcpVars /\ [PipelineNext]_pipelineVars /\ [InstallNext]_installVars
           /\ [WindowsNext \/ LinuxNext]_isolationVars /\ [ContractsNext]_contractVars
           /\ [SavedWorkNext]_savedWorkVars
<1>1. [RunsNext]_runsVars /\ [WebNext]_webVars /\ [ApprovalsNext]_approvalVars
  BY DEF PartsNext, partsVars, RunsMove, WebMoves, ApprovalsMove
<1>2. [CallNext]_callVars /\ [EgressNext]_egressVars /\ [JournalFilesNext]_journalFileVars
  BY DEF PartsNext, partsVars, CallMoves, EgressMoves, ReaderMoves, StoreMoves, JournalFilesNext
<1>3. [McpNext]_mcpVars /\ [PipelineNext]_pipelineVars /\ [InstallNext]_installVars
  BY DEF PartsNext, partsVars, McpMoves, ExecMoves, McpNext, PipelineMoves, InstallMoves
<1>4. [WindowsNext \/ LinuxNext]_isolationVars /\ [ContractsNext]_contractVars
  BY DEF PartsNext, partsVars, WindowsMoves, LinuxMoves, ContractMoves
<1>5. [SavedWorkNext]_savedWorkVars
  BY DEF PartsNext, partsVars, EditsMove, UploadsMove, PresetsMove, ImportMoves, SavedWorkNext, savedWorkVars
<1> QED
  BY <1>1, <1>2, <1>3, <1>4, <1>5

\* Every behaviour of the parts is one of each part that is specified without
\* fairness.
LEMMA PartsAreThemselves ==
    PartsSpec => /\ WebSpec /\ ApprovalsSpec /\ EgressSpec /\ JournalFilesSpec /\ PipelineSpec
                 /\ InstallSpec /\ IsolationSpec /\ ContractsSpec /\ SavedWorkSpec
<1>1. PartsInit => /\ WebInit /\ ApprovalsInit /\ EgressInit /\ JournalFilesInit /\ PipelineInit
                   /\ InstallInit /\ IsolationInit /\ ContractsInit /\ SavedWorkInit
  BY PartsBegin
<1>2. [PartsNext]_partsVars =>
          /\ [WebNext]_webVars /\ [ApprovalsNext]_approvalVars /\ [EgressNext]_egressVars
          /\ [JournalFilesNext]_journalFileVars /\ [PipelineNext]_pipelineVars /\ [InstallNext]_installVars
          /\ [WindowsNext \/ LinuxNext]_isolationVars /\ [ContractsNext]_contractVars
          /\ [SavedWorkNext]_savedWorkVars
  BY PartsMove
<1> QED
  BY <1>1, <1>2, PTL DEF PartsSpec, WebSpec, ApprovalsSpec, EgressSpec, JournalFilesSpec, PipelineSpec,
     InstallSpec, IsolationSpec, ContractsSpec, SavedWorkSpec

\* The invariants of the others.
FairPartsInv ==
    /\ RunsInv /\ ServiceInv
    /\ CallInv
    /\ McpInv /\ McpSlots /\ McpSmall

\* Their invariants hold of all behaviours of the parts.
LEMMA FairPartsInvariant == PartsSpec => []FairPartsInv
<1>1. PartsInit => FairPartsInv
  <2> SUFFICES ASSUME PartsInit PROVE FairPartsInv
    OBVIOUS
  <2>1. RunsInit /\ CallInit /\ McpInit
    BY PartsBegin
  <2>2. RunsInv /\ ServiceInv
    BY <2>1, RunsStart, ServiceBegins
  <2>3. McpInv /\ McpSlots /\ McpSmall
    BY <2>1, McpStart, SlotsStart, SmallStart
  <2> QED
    BY <2>1, <2>2, <2>3, CallBegins DEF FairPartsInv
<1>2. FairPartsInv /\ [PartsNext]_partsVars => FairPartsInv'
  <2> SUFFICES ASSUME FairPartsInv, [PartsNext]_partsVars PROVE FairPartsInv'
    OBVIOUS
  <2>1. [RunsNext]_runsVars /\ [CallNext]_callVars /\ [McpNext]_mcpVars
    BY PartsMove
  <2>2. RunsInv' /\ ServiceInv'
    BY <2>1, RunsKeeps, ServiceStep DEF FairPartsInv
  <2>3. CallInv'
    BY <2>1, CallKeeps DEF FairPartsInv
  <2>4. McpInv' /\ McpSlots' /\ McpSmall'
    BY <2>1, McpKeeps, SlotsKeep, SmallKeeps DEF FairPartsInv
  <2> QED
    BY <2>2, <2>3, <2>4 DEF FairPartsInv
<1> QED
  BY <1>1, <1>2, PTL DEF PartsSpec

-----------------------------------------------------------------------------
(* What holds of all parts                                                 *)

\* Every part holds what it may hold, whatever the constants: the slot of a
\* run is that of the one run that is under way, sessions are no more than
\* MaxSessions, an MCP server's slots are as many as its calls hold, a refused
\* pipeline has nothing left to run, nothing but a sound manifest is installed.
THEOREM PartsAreTyped == PartsSpec => []PartsTypeOK
<1>1. FairPartsInv => RunsTypeOK /\ CallTypeOK /\ McpTypeOK
  BY McpIsTyped DEF FairPartsInv, RunsInv, RunsTyped, CallInv
<1>2. ApprovalsInv => ApprovalsTypeOK
  BY DEF ApprovalsInv, ApprovalsTyped
<1>3. EgressInv => EgressTypeOK
  BY DEF EgressInv
<1>4. /\ RunsTypeOK /\ CallTypeOK /\ McpTypeOK /\ ApprovalsTypeOK /\ EgressTypeOK /\ WebTypeOK
      /\ JournalFilesTypeOK /\ PipelineTypeOK /\ InstallTypeOK /\ IsolationTypeOK /\ ContractsTypeOK
      /\ SavedWorkTypeOK
      => PartsTypeOK
  BY DEF SavedWorkTypeOK, PartsTypeOK
<1>5. PartsSpec => []RunsTypeOK /\ []CallTypeOK /\ []McpTypeOK
  BY <1>1, FairPartsInvariant, PTL
<1>6. PartsSpec => []ApprovalsTypeOK /\ []EgressTypeOK /\ []WebTypeOK
  BY <1>2, <1>3, PartsAreThemselves, ApprovalsInvariant, EgressInvariant, SessionsStayFew, PTL
<1>7. PartsSpec => []JournalFilesTypeOK /\ []PipelineTypeOK /\ []InstallTypeOK
  BY PartsAreThemselves, JournalFilesAreTyped, PipelineIsTyped, InstallIsTyped, PTL
<1>8. PartsSpec => []IsolationTypeOK /\ []ContractsTypeOK /\ []SavedWorkTypeOK
  BY PartsAreThemselves, IsolationIsTyped, ContractIsTyped, SavedWorkIsTyped, PTL
<1> QED
  BY <1>4, <1>5, <1>6, <1>7, <1>8, PTL

\* What the console, what surrounds a plugin and what lies on disk promise.
ConsoleIsSafe == NoLateDecision /\ CacheIsCurrent /\ DeadRunsAreClosed /\ GuessesAreLimited /\ LinkDecidesOnce /\ DialogDecidesItsGate
PluginIsSafe == HonestVerdict /\ NothingSlipsThrough /\ IsolatedCodeIsReady /\ ContractsHold /\ ChecksHold
StorageIsSafe == WindowIsTrue /\ PruneSparesNewest /\ NothingIsLost /\ SavedWorkIsWhole

\* Side by side the parts keep what each was proved to keep: every invariant
\* that is checked of them holds of all of them together, for any constants.
THEOREM PartsAreSafe == PartsSpec => [](ConsoleIsSafe /\ PluginIsSafe /\ StorageIsSafe)
<1>1. FairPartsInv => /\ NoLateDecision /\ CacheIsCurrent /\ DeadRunsAreClosed
                      /\ DialogDecidesItsGate /\ HonestVerdict
  BY DEF FairPartsInv, RunsInv, SoundCache, CacheIsCurrent, SoundJournals, DeadRunsAreClosed, Serving,
         McpInv, CallInv, Over, Honest, HonestVerdict
<1>2. PartsSpec => []GuessesAreLimited /\ []LinkDecidesOnce
  BY PartsAreThemselves, GuessesStayLimited, LinksDecideOnce, PTL
<1>3. PartsSpec => []NothingSlipsThrough /\ []IsolatedCodeIsReady /\ []ContractsHold /\ []ChecksHold
  BY PartsAreThemselves, FilterHolds, IsolationHolds, ContractsAreHeld, WhatIsCheckedHolds, PTL
<1>4. PartsSpec => []WindowIsTrue /\ []PruneSparesNewest /\ []NothingIsLost /\ []SavedWorkIsWhole
  BY PartsAreThemselves, ReadsAreTrue, PruneKeepsNewest, InstalledStays, SavedWorkStaysWhole, PTL
<1>5. /\ NoLateDecision /\ CacheIsCurrent /\ DeadRunsAreClosed /\ DialogDecidesItsGate /\ HonestVerdict
      /\ GuessesAreLimited /\ LinkDecidesOnce /\ NothingSlipsThrough /\ IsolatedCodeIsReady /\ ContractsHold
      /\ ChecksHold /\ WindowIsTrue /\ PruneSparesNewest /\ NothingIsLost /\ SavedWorkIsWhole
      => ConsoleIsSafe /\ PluginIsSafe /\ StorageIsSafe
  BY DEF ConsoleIsSafe, PluginIsSafe, StorageIsSafe
<1> QED
  BY <1>1, <1>2, <1>3, <1>4, <1>5, FairPartsInvariant, PTL

\* And the runs of the page keep the promise of RunLedger among them.
THEOREM PartsKeepTheLedger == PartsSpec => RunsKeepLedger
<1>1. PartsInit => Ledger!LedgerInit
  BY PartsBegin, LedgerOpens
<1>2. FairPartsInv /\ [PartsNext]_partsVars => [Ledger!LedgerNext]_Outside
  BY PartsMove, LedgerIsKept DEF FairPartsInv
<1> QED
  BY <1>1, <1>2, FairPartsInvariant, PTL DEF PartsSpec, RunsKeepLedger, Ledger!LedgerSpec, Outside

=============================================================================
