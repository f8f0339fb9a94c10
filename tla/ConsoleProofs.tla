---------------------------- MODULE ConsoleProofs ----------------------------
(***************************************************************************)
(* Proofs about runs and those who reach them from outside, for any number *)
(* of them: the runs of the web page and the requests about them           *)
(* (RunService), the approval links of Approvals, the pairing code and     *)
(* sessions of WebAccess, and the calls and dialogs of McpServer.          *)
(***************************************************************************)
EXTENDS RunService, Approvals, WebAccess, McpServer, FiniteSetTheorems, TLAPS

-----------------------------------------------------------------------------
(* RunService: what the server, the requests and the journals hold         *)

Statuses == Terminal \cup {"running"}
RequestRecords ==
    [at : {"idle", "stat", "scan", "store", "judge"}, run : Runs \cup {NoRun},
     gate : 0 .. GatesPerRun, size : Nat, status : Statuses, late : BOOLEAN]
Journals == [Runs -> Seq(Events)]
Summaries == [size : Nat, status : Statuses]

\* What the server and the journals hold.
RunsTyped ==
    /\ RunsTypeOK
    /\ journal \in Journals
    /\ cache \in [Runs -> Summaries]
    /\ request \in [Handlers -> RequestRecords]
    /\ reconciling \subseteq Runs

\* A request with a size got it when the journal was at most as long as it is
\* now, and a status it has read for that size is the journal's, unless the
\* journal has grown. A request that came late has not read "running".
SoundRequest(q) ==
    /\ q.at # "idle" => q.run \in Runs
    /\ q.late => q.at # "idle" /\ Status(journal[q.run]) # "running"
    /\ q.at \in {"scan", "store"} => q.size <= Len(journal[q.run])
    /\ q.at = "store" /\ q.size = Len(journal[q.run]) => q.status = Status(journal[q.run])
    /\ q.at \in {"store", "judge"} /\ q.late => q.status # "running"

\* The cache never says more than the journal.
SoundCache ==
    \A r \in Runs : /\ cache[r].size <= Len(journal[r])
                    /\ cache[r].size = Len(journal[r]) => cache[r].status = Status(journal[r])

\* A terminal event makes a status, and a dead run that the start has looked
\* at has one.
SoundJournals ==
    \A r \in Runs :
        /\ (\E i \in DOMAIN journal[r] : journal[r][i] \in Terminal) => Status(journal[r]) # "running"
        /\ phase[r] = "dead" /\ r \notin reconciling /\ HasStart(journal[r])
              => Status(journal[r]) # "running"

RunsInv ==
    /\ RunsTyped
    /\ \A h \in Handlers : SoundRequest(request[h])
    /\ SoundCache
    /\ SoundJournals
    /\ NoLateDecision

-----------------------------------------------------------------------------
(* The status of a journal                                                 *)

\* A terminal event is the status; any other leaves it as it was.
LEMMA StatusAfter ==
    ASSUME NEW events \in Seq(Events), NEW e \in Events
    PROVE  /\ Status(Append(events, e)) = IF e \in Terminal THEN e ELSE Status(events)
           /\ Append(events, e) \in Seq(Events)
           /\ Len(Append(events, e)) = Len(events) + 1
<1> DEFINE s == Append(events, e)
           Final(t) == {i \in DOMAIN t : /\ t[i] \in Terminal
                                         /\ \A j \in DOMAIN t : j > i => t[j] \notin Terminal}
<1>1. /\ s \in Seq(Events) /\ Len(s) = Len(events) + 1
      /\ DOMAIN s = 1 .. Len(events) + 1 /\ DOMAIN events = 1 .. Len(events) /\ Len(events) \in Nat
      /\ s[Len(events) + 1] = e
      /\ \A i \in DOMAIN events : s[i] = events[i]
  OBVIOUS
<1>2. \A t : Status(t) = IF Final(t) = {} THEN "running" ELSE t[CHOOSE i \in Final(t) : TRUE]
  BY DEF Status
<1> HIDE DEF s
<1>3. CASE e \in Terminal
  <2>1. Final(s) = {Len(events) + 1}
    BY <1>1, <1>3
  <2>2. (CHOOSE i \in Final(s) : TRUE) = Len(events) + 1
    BY <2>1
  <2> HIDE DEF Final
  <2>3. Status(s) = e
    BY <1>1, <1>2, <2>1, <2>2
  <2> QED
    BY <1>1, <1>3, <2>3 DEF s
<1>4. CASE e \notin Terminal
  <2>1. Final(s) = Final(events)
    BY <1>1, <1>4
  <2>2. Final(events) # {} => (CHOOSE i \in Final(events) : TRUE) \in DOMAIN events
    OBVIOUS
  <2> HIDE DEF Final
  <2>3. Status(s) = Status(events)
    BY <1>1, <1>2, <2>1, <2>2
  <2> QED
    BY <1>1, <1>4, <2>3 DEF s
<1> QED
  BY <1>3, <1>4

\* A status is "running" or a terminal event.
LEMMA StatusType ==
    ASSUME NEW events \in Seq(Events)
    PROVE  Status(events) \in Statuses
  BY DEF Status, Statuses

\* What an invariant state says of one journal, one request and the cache.
LEMMA RunsFacts ==
    ASSUME RunsTyped
    PROVE  /\ \A r \in Runs : /\ journal[r] \in Seq(Events)
                              /\ Status(journal[r]) \in Statuses
                              /\ Len(journal[r]) \in Nat
                              /\ cache[r].size \in Nat /\ cache[r].status \in Statuses
           /\ \A h \in Handlers : request[h] \in RequestRecords
           /\ Idle \in RequestRecords
<1>1. \A r \in Runs : journal[r] \in Seq(Events)
  BY DEF RunsTyped, Journals
<1>2. \A r \in Runs : cache[r] \in Summaries
  BY DEF RunsTyped
<1>3. Idle \in RequestRecords
  BY RunsAssumption DEF Idle, RequestRecords, Statuses
<1> QED
  BY <1>1, <1>2, <1>3, StatusType DEF RunsTyped, Summaries

\* A journal that grows takes nothing back: sound requests and summaries stay
\* sound, and what was over stays over.
LEMMA JournalGrows ==
    ASSUME RunsInv, NEW r \in Runs, NEW e \in Events, Log(r, e),
           UNCHANGED <<cache, request, lateAnswers>>
    PROVE  /\ journal' \in Journals
           /\ \A h \in Handlers : SoundRequest(request[h])'
           /\ SoundCache'
           /\ NoLateDecision'
           /\ \A s \in Runs :
                 /\ (\E i \in DOMAIN journal'[s] : journal'[s][i] \in Terminal)
                       => Status(journal'[s]) # "running"
                 /\ Status(journal[s]) # "running" => Status(journal'[s]) # "running"
           /\ Status(journal'[r]) = IF e \in Terminal THEN e ELSE Status(journal[r])
           /\ HasStart(journal'[r]) => HasStart(journal[r]) \/ e = "run_start"
<1>1. /\ RunsTyped /\ SoundCache /\ SoundJournals /\ NoLateDecision
      /\ \A h \in Handlers : SoundRequest(request[h])
  BY DEF RunsInv
<1>2. \A s \in Runs : journal[s] \in Seq(Events)
  BY <1>1, RunsFacts
<1>3. /\ Status(journal'[r]) = IF e \in Terminal THEN e ELSE Status(journal[r])
      /\ journal'[r] \in Seq(Events)
      /\ Len(journal'[r]) = Len(journal[r]) + 1
      /\ journal'[r] = Append(journal[r], e)
  <2>1. journal'[r] = Append(journal[r], e)
    BY <1>1 DEF Log, RunsTyped, Journals
  <2> QED
    BY <1>2, <2>1, StatusAfter
<1>4. \A s \in Runs : s # r => journal'[s] = journal[s]
  BY <1>1 DEF Log, RunsTyped, Journals
<1>5. journal' \in Journals
  BY <1>1, <1>2, <1>3, <1>4 DEF Log, RunsTyped, Journals
<1>6. Terminal \in SUBSET Statuses /\ "running" \notin Terminal
  BY DEF Terminal, Statuses
<1>7. \A s \in Runs : Status(journal[s]) # "running" => Status(journal'[s]) # "running"
  BY <1>3, <1>4, <1>6
<1>8. \A s \in Runs : Len(journal[s]) \in Nat /\ Len(journal'[s]) \in Nat
                      /\ (journal'[s] = journal[s] \/ Len(journal'[s]) = Len(journal[s]) + 1)
  BY <1>2, <1>3, <1>4
<1>9. ASSUME NEW h \in Handlers
      PROVE  SoundRequest(request[h])'
  <2>1. SoundRequest(request[h]) /\ request[h] \in RequestRecords /\ request'[h] = request[h]
    BY <1>1, RunsFacts
  <2>2. request[h].size \in Nat
    BY <2>1 DEF RequestRecords
  <2>3. CASE request[h].at = "idle"
    BY <2>1, <2>3 DEF SoundRequest
  <2>4. CASE request[h].at # "idle"
    <3>1. request[h].run \in Runs
      BY <2>1, <2>4 DEF SoundRequest
    <3> QED
      BY <1>7, <1>8, <2>1, <2>2, <3>1 DEF SoundRequest
  <2> QED
    BY <2>3, <2>4
<1>10. SoundCache'
  <2>1. \A s \in Runs : cache[s].size \in Nat /\ cache'[s] = cache[s]
    BY <1>1, RunsFacts
  <2> QED
    BY <1>1, <1>8, <2>1 DEF SoundCache
<1>11. ASSUME NEW s \in Runs, NEW i \in DOMAIN journal'[s], journal'[s][i] \in Terminal
       PROVE  Status(journal'[s]) # "running"
  <2>1. CASE s # r
    BY <1>1, <1>4, <1>11, <2>1 DEF SoundJournals
  <2>2. CASE s = r /\ e \in Terminal
    BY <1>3, <1>6, <2>2
  <2>3. CASE s = r /\ e \notin Terminal
    <3>1. i \in DOMAIN journal[r] /\ journal[r][i] = journal'[r][i]
      BY <1>2, <1>3, <1>11, <2>3
    <3> QED
      BY <1>1, <1>3, <1>11, <2>3, <3>1 DEF SoundJournals
  <2> QED
    BY <2>1, <2>2, <2>3
<1>12. HasStart(journal'[r]) => HasStart(journal[r]) \/ e = "run_start"
  BY <1>2, <1>3 DEF HasStart
<1> QED
  BY <1>1, <1>3, <1>5, <1>7, <1>9, <1>10, <1>11, <1>12 DEF NoLateDecision

-----------------------------------------------------------------------------
(* Every step keeps the invariant                                          *)

\* A server that starts for the first time.
LEMMA RunsStart == RunsInit => RunsInv
<1> SUFFICES ASSUME RunsInit PROVE RunsInv
  OBVIOUS
<1>1. \A r \in Runs : journal[r] = <<>> /\ phase[r] = "absent"
  BY DEF RunsInit
<1>2. <<>> \in Seq(Events) /\ Len(<<>>) = 0 /\ DOMAIN <<>> = {}
  OBVIOUS
<1>3. Status(<<>>) = "running"
  BY <1>2 DEF Status
<1>4. Idle \in RequestRecords
  BY RunsAssumption DEF Idle, RequestRecords, Statuses
<1>5. RunsTypeOK
  <2>1. \A r \in Runs : slot = r <=> phase[r] \notin OutOfServer
    BY <1>1, RunsAssumption DEF RunsInit, OutOfServer
  <2> QED
    BY <1>1, <1>2, <2>1, RunsAssumption DEF RunsInit, RunsTypeOK, Phases
<1>6. RunsTyped
  BY <1>2, <1>4, <1>5 DEF RunsInit, RunsTyped, Journals, Summaries, Statuses
<1>7. \A h \in Handlers : SoundRequest(request[h])
  BY DEF RunsInit, SoundRequest, Idle
<1>8. SoundCache
  <2>1. \A r \in Runs : cache[r].size = 0 /\ cache[r].status = "running"
    BY DEF RunsInit
  <2>2. \A r \in Runs : Len(journal[r]) = 0 /\ Status(journal[r]) = "running"
    BY <1>1, <1>2, <1>3
  <2>3. ASSUME NEW r \in Runs
        PROVE  cache[r].size <= Len(journal[r]) /\ cache[r].status = Status(journal[r])
    <3>1. cache[r].size = 0 /\ cache[r].status = "running" /\ Len(journal[r]) = 0
      BY <2>1, <2>2
    <3>2. cache[r].status = Status(journal[r])
      BY <2>2, <3>1
    <3> HIDE DEF Status
    <3> QED
      BY <3>1, <3>2
  <2> QED
    BY <2>3 DEF SoundCache
<1>9. SoundJournals
  BY <1>1, <1>2 DEF SoundJournals
<1> QED
  BY <1>6, <1>7, <1>8, <1>9 DEF RunsInit, RunsInv, NoLateDecision

\* A run that moves between two places of its goroutine, or leaves the slot.
LEMMA MoveType ==
    ASSUME RunsTyped, NEW r \in Runs, NEW from \in Phases, NEW to \in Phases \ {"dead"},
           Moves(r, from, to),
           \/ UNCHANGED slot /\ (from \in OutOfServer <=> to \in OutOfServer)
           \/ slot = NoRun /\ slot' = r /\ to \notin OutOfServer
           \/ from \notin OutOfServer /\ slot' = NoRun /\ to \in OutOfServer
    PROVE  /\ slot' \in Runs \cup {NoRun}
           /\ phase' \in [Runs -> Phases]
           /\ \A s \in Runs : slot' = s <=> phase'[s] \notin OutOfServer
           /\ \A s \in Runs : phase'[s] = "dead" => phase[s] = "dead"
<1>1. /\ phase \in [Runs -> Phases] /\ slot \in Runs \cup {NoRun}
      /\ \A s \in Runs : slot = s <=> phase[s] \notin OutOfServer
  BY DEF RunsTyped, RunsTypeOK
<1>2. /\ phase' \in [Runs -> Phases] /\ phase'[r] = to
      /\ \A s \in Runs : s # r => phase'[s] = phase[s]
  BY <1>1 DEF Moves
<1>3. slot' \in Runs \cup {NoRun}
  BY <1>1
<1>4. \A s \in Runs : slot' = s <=> phase'[s] \notin OutOfServer
  BY <1>1, <1>2, RunsAssumption DEF Moves
<1> QED
  BY <1>2, <1>3, <1>4

\* Steps that write no journal, no summary and no request.
QuietStep ==
    \/ \E r \in Runs :
          \/ HandleRunStart(r) \/ NewRunIDFails(r) \/ HandleRunCancel(r) \/ SetCancel(r)
          \/ DeferredCancel(r) \/ ClearCancel(r) \/ ClearGate(r) \/ Unlock(r)
    \/ \E r \in Runs, n \in Gates : CloseOnCancel(r, n)
    \/ UNCHANGED runsVars

\* What neither writes a journal nor answers a request leaves both alone.
LEMMA QuietType ==
    ASSUME RunsTyped, QuietStep
    PROVE  /\ RunsTyped'
           /\ \A s \in Runs : phase'[s] = "dead" => phase[s] = "dead"
           /\ UNCHANGED <<journal, cache, request, lateAnswers, reconciling>>
<1> USE DEF RunsTyped
<1>1. ASSUME NEW r \in Runs, HandleRunStart(r) \/ NewRunIDFails(r) \/ Unlock(r)
      PROVE  RunsTyped' /\ \A s \in Runs : phase'[s] = "dead" => phase[s] = "dead"
  <2>1. /\ slot' \in Runs \cup {NoRun}
        /\ phase' \in [Runs -> Phases]
        /\ \A s \in Runs : slot' = s <=> phase'[s] \notin OutOfServer
        /\ \A s \in Runs : phase'[s] = "dead" => phase[s] = "dead"
    BY <1>1, MoveType DEF HandleRunStart, NewRunIDFails, Unlock, Phases, OutOfServer, Moves
  <2> QED
    BY <1>1, <2>1 DEF HandleRunStart, NewRunIDFails, Unlock, otherVars, RunsTypeOK
<1>2. ASSUME NEW r \in Runs, SetCancel(r) \/ DeferredCancel(r) \/ ClearCancel(r) \/ ClearGate(r)
      PROVE  RunsTyped' /\ \A s \in Runs : phase'[s] = "dead" => phase[s] = "dead"
  <2>1. /\ slot' \in Runs \cup {NoRun}
        /\ phase' \in [Runs -> Phases]
        /\ \A s \in Runs : slot' = s <=> phase'[s] \notin OutOfServer
        /\ \A s \in Runs : phase'[s] = "dead" => phase[s] = "dead"
    BY <1>2, MoveType DEF SetCancel, DeferredCancel, ClearCancel, ClearGate, Phases, OutOfServer, Moves
  <2>2. chanUI' \in [Runs -> [Gates -> {"none", "idle", "decided", "closed"}]]
    <3>1. /\ chanUI \in [Runs -> [Gates -> {"none", "idle", "decided", "closed"}]]
          /\ gates[r] = 0 \/ gates[r] \in Gates
      BY RunsAssumption DEF RunsTypeOK, Gates
    <3>2. CASE ClearGate(r) /\ gates[r] # 0
      <4>1. chanUI' = [chanUI EXCEPT ![r][gates[r]] = IF @ = "idle" THEN "closed" ELSE @]
        BY <3>2 DEF ClearGate, CloseGate
      <4> QED
        BY <3>1, <3>2, <4>1
    <3>3. CASE ~(ClearGate(r) /\ gates[r] # 0)
      BY <1>2, <3>1, <3>3 DEF SetCancel, DeferredCancel, ClearCancel, ClearGate, CloseGate
    <3> QED
      BY <3>2, <3>3
  <2>3. gates' \in [Runs -> 0 .. GatesPerRun]
    BY <1>2, RunsAssumption DEF SetCancel, DeferredCancel, ClearCancel, ClearGate, RunsTypeOK
  <2>4. /\ ctxDone' \subseteq Runs /\ cancels' \subseteq Runs
        /\ UNCHANGED <<closers, journal, cache, request, reconciling, lateAnswers>>
    BY <1>2 DEF SetCancel, DeferredCancel, ClearCancel, ClearGate, otherVars, RunsTypeOK
  <2> QED
    BY <2>1, <2>2, <2>3, <2>4 DEF RunsTypeOK
<1>3. ASSUME NEW r \in Runs, HandleRunCancel(r)
      PROVE  RunsTyped' /\ UNCHANGED phase
  BY <1>3 DEF HandleRunCancel, otherVars, RunsTypeOK
<1>4. ASSUME NEW r \in Runs, NEW n \in Gates, CloseOnCancel(r, n)
      PROVE  RunsTyped' /\ UNCHANGED phase
  BY <1>4 DEF CloseOnCancel, otherVars, RunsTypeOK
<1>5. CASE UNCHANGED runsVars
  BY <1>5 DEF runsVars, otherVars, RunsTypeOK
<1>6. RunsTyped' /\ \A s \in Runs : phase'[s] = "dead" => phase[s] = "dead"
  BY <1>1, <1>2, <1>3, <1>4, <1>5 DEF QuietStep, runsVars
<1>7. UNCHANGED <<journal, cache, request, lateAnswers, reconciling>>
  BY DEF QuietStep, HandleRunStart, NewRunIDFails, Unlock, SetCancel, DeferredCancel, ClearCancel,
         ClearGate, HandleRunCancel, CloseOnCancel, runsVars, otherVars
<1> QED
  BY <1>6, <1>7

\* Such a step keeps the invariant.
LEMMA QuietKeeps ==
    ASSUME RunsInv, QuietStep
    PROVE  RunsInv'
<1>1. /\ RunsTyped'
      /\ \A s \in Runs : phase'[s] = "dead" => phase[s] = "dead"
      /\ UNCHANGED <<journal, cache, request, lateAnswers, reconciling>>
  BY QuietType DEF RunsInv
<1>2. \A h \in Handlers : SoundRequest(request[h])'
  BY <1>1 DEF RunsInv, SoundRequest
<1> QED
  BY <1>1, <1>2 DEF RunsInv, SoundCache, SoundJournals, NoLateDecision

\* Steps that log an event of a run that is not dead.
LogStep ==
    \E r \in Runs : BeginRun(r) \/ OpenGate(r) \/ LeaveGate(r) \/ RunReturns(r) \/ ForeignEvent(r)

\* A step of a run that may log writes one event to its own journal, or none.
LEMMA LogType ==
    ASSUME RunsTyped, NEW r \in Runs,
           BeginRun(r) \/ OpenGate(r) \/ LeaveGate(r) \/ RunReturns(r) \/ ForeignEvent(r)
    PROVE  /\ journal' \in Journals => RunsTyped'
           /\ phase'[r] # "dead" /\ \A s \in Runs : s # r => phase'[s] = phase[s]
           /\ UNCHANGED <<cache, request, lateAnswers, reconciling>>
           /\ UNCHANGED journal \/ \E e \in Events : Log(r, e)
<1>1. \E from, to \in Phases \ {"dead"} :
          Moves(r, from, to) /\ UNCHANGED slot /\ (from \in OutOfServer <=> to \in OutOfServer)
  <2>1. /\ {"absent", "listed", "working", "gate", "returned", "foreign", "foreign over"}
                 \subseteq Phases \ {"dead"}
        /\ {"absent", "foreign", "foreign over"} \subseteq OutOfServer
        /\ "listed" \notin OutOfServer /\ "working" \notin OutOfServer
        /\ "gate" \notin OutOfServer /\ "returned" \notin OutOfServer
    BY DEF Phases, OutOfServer
  <2>2. CASE BeginRun(r)
    <3>1. Moves(r, "listed", "working") /\ UNCHANGED slot
      BY <2>2 DEF BeginRun, memoryVars
    <3> QED
      BY <3>1, <2>1
  <2>3. CASE OpenGate(r)
    <3>1. Moves(r, "working", "gate") /\ UNCHANGED slot
      BY <2>3 DEF OpenGate
    <3> QED
      BY <3>1, <2>1
  <2>4. CASE LeaveGate(r)
    <3>1. Moves(r, "gate", "working") /\ UNCHANGED slot
      BY <2>4 DEF LeaveGate
    <3> QED
      BY <3>1, <2>1
  <2>5. CASE RunReturns(r)
    <3>1. Moves(r, "working", "returned") /\ UNCHANGED slot
      BY <2>5 DEF RunReturns, memoryVars
    <3> QED
      BY <3>1, <2>1
  <2>6. CASE ForeignEvent(r)
    <3>1. /\ Moves(r, "absent", "foreign") \/ Moves(r, "foreign", "foreign over")
          /\ UNCHANGED slot
      BY <2>6 DEF ForeignEvent, memoryVars
    <3> QED
      BY <3>1, <2>1
  <2> QED
    BY <2>2, <2>3, <2>4, <2>5, <2>6
<1>2. /\ slot' \in Runs \cup {NoRun}
      /\ phase' \in [Runs -> Phases]
      /\ \A s \in Runs : slot' = s <=> phase'[s] \notin OutOfServer
  BY <1>1, MoveType
<1>3. /\ phase'[r] # "dead"
      /\ \A s \in Runs : s # r => phase'[s] = phase[s]
  BY <1>1 DEF Moves, RunsTyped, RunsTypeOK
<1>4. /\ UNCHANGED <<cache, request, lateAnswers, reconciling>>
      /\ UNCHANGED journal \/ \E e \in Events : Log(r, e)
  <2>1. UNCHANGED <<cache, request, lateAnswers, reconciling>>
    BY DEF BeginRun, OpenGate, LeaveGate, RunReturns, ForeignEvent, otherVars
  <2>2. CASE RunReturns(r)
    <3>1. LastEvents(r) \subseteq Events
      BY DEF LastEvents, Events
    <3> QED
      BY <2>1, <2>2, <3>1 DEF RunReturns
  <2>3. CASE BeginRun(r) \/ OpenGate(r) \/ LeaveGate(r) \/ ForeignEvent(r)
    BY <2>1, <2>3 DEF BeginRun, OpenGate, LeaveGate, ForeignEvent, Events
  <2> QED
    BY <2>2, <2>3
<1>5. /\ ctxDone' \subseteq Runs /\ cancels' \subseteq Runs
      /\ gates' \in [Runs -> 0 .. GatesPerRun]
      /\ chanUI' \in [Runs -> [Gates -> {"none", "idle", "decided", "closed"}]]
      /\ closers' \subseteq Runs \X Gates
  <2>1. /\ ctxDone \subseteq Runs /\ cancels \subseteq Runs
        /\ gates \in [Runs -> 0 .. GatesPerRun]
        /\ chanUI \in [Runs -> [Gates -> {"none", "idle", "decided", "closed"}]]
        /\ closers \subseteq Runs \X Gates
    BY DEF RunsTyped, RunsTypeOK
  <2>2. CASE BeginRun(r) \/ RunReturns(r) \/ ForeignEvent(r)
    BY <2>1, <2>2 DEF BeginRun, RunReturns, ForeignEvent, memoryVars
  <2>3. CASE OpenGate(r)
    BY <2>1, <2>3, RunsAssumption DEF OpenGate, Closer, Gates
  <2>4. CASE LeaveGate(r)
    BY <2>1, <2>4 DEF LeaveGate
  <2> QED
    BY <2>2, <2>3, <2>4
<1>6. ASSUME journal' \in Journals
      PROVE  RunsTyped'
  <2>1. /\ cache' \in [Runs -> Summaries] /\ request' \in [Handlers -> RequestRecords]
        /\ reconciling' \subseteq Runs /\ lateAnswers' \subseteq Runs
    BY <1>4 DEF RunsTyped, RunsTypeOK
  <2>2. \A s \in Runs : journal'[s] \in Seq(Events)
    BY <1>6 DEF Journals
  <2> QED
    BY <1>2, <1>5, <1>6, <2>1, <2>2 DEF RunsTyped, RunsTypeOK
<1> QED
  BY <1>3, <1>4, <1>6

\* An event that is written makes no request, cache or status untrue.
LEMMA LogKeeps ==
    ASSUME RunsInv, LogStep
    PROVE  RunsInv'
<1>1. PICK r \in Runs : BeginRun(r) \/ OpenGate(r) \/ LeaveGate(r) \/ RunReturns(r) \/ ForeignEvent(r)
  BY DEF LogStep
<1>2. /\ journal' \in Journals => RunsTyped'
      /\ phase'[r] # "dead" /\ \A s \in Runs : s # r => phase'[s] = phase[s]
      /\ UNCHANGED <<cache, request, lateAnswers, reconciling>>
      /\ UNCHANGED journal \/ \E e \in Events : Log(r, e)
  BY <1>1, LogType DEF RunsInv
<1>3. CASE UNCHANGED journal
  <2>1. RunsTyped'
    BY <1>2, <1>3 DEF RunsInv, RunsTyped
  <2>2. \A h \in Handlers : SoundRequest(request[h])'
    BY <1>2, <1>3 DEF RunsInv, SoundRequest
  <2>3. SoundJournals'
    BY <1>2, <1>3 DEF RunsInv, SoundJournals
  <2> QED
    BY <1>2, <1>3, <2>1, <2>2, <2>3 DEF RunsInv, SoundCache, NoLateDecision
<1>4. ASSUME NEW e \in Events, Log(r, e)
      PROVE  RunsInv'
  <2>1. /\ journal' \in Journals
        /\ \A h \in Handlers : SoundRequest(request[h])'
        /\ SoundCache' /\ NoLateDecision'
        /\ \A s \in Runs :
              (\E i \in DOMAIN journal'[s] : journal'[s][i] \in Terminal) => Status(journal'[s]) # "running"
    BY <1>2, <1>4, JournalGrows
  <2>2. \A s \in Runs : s # r => journal'[s] = journal[s]
    BY <1>4 DEF Log, RunsInv, RunsTyped, Journals
  <2>3. SoundJournals'
    BY <1>2, <2>1, <2>2 DEF RunsInv, SoundJournals
  <2> QED
    BY <1>2, <2>1, <2>3 DEF RunsInv
<1> QED
  BY <1>2, <1>3, <1>4

\* The start of a server closes the journals it looks at.
LEMMA ReconcileKeeps ==
    ASSUME RunsInv, NEW r \in Runs, Reconcile(r)
    PROVE  RunsInv'
<1>1. /\ UNCHANGED <<memoryVars, phase, cache, request, lateAnswers>>
      /\ reconciling' = reconciling \ {r} /\ reconciling \subseteq Runs
      /\ journal \in Journals
  BY DEF Reconcile, RunsInv, RunsTyped
<1>2. journal' \in Journals => RunsTyped'
  <2>1. journal' \in Journals => \A s \in Runs : journal'[s] \in Seq(Events)
    BY DEF Journals
  <2> QED
    BY <1>1, <2>1 DEF memoryVars, RunsInv, RunsTyped, RunsTypeOK
<1>3. CASE LacksEnd(journal[r])
  <2>1. Log(r, "interrupted") /\ "interrupted" \in Events /\ "interrupted" \in Terminal
    BY <1>3 DEF Reconcile, Events, Terminal
  <2>2. /\ journal' \in Journals
        /\ \A h \in Handlers : SoundRequest(request[h])'
        /\ SoundCache' /\ NoLateDecision'
        /\ \A s \in Runs :
              (\E i \in DOMAIN journal'[s] : journal'[s][i] \in Terminal) => Status(journal'[s]) # "running"
        /\ Status(journal'[r]) = "interrupted"
    BY <1>1, <2>1, JournalGrows
  <2>3. \A s \in Runs : s # r => journal'[s] = journal[s]
    BY <1>1, <2>1 DEF Log, Journals
  <2>4. SoundJournals'
    BY <1>1, <2>2, <2>3 DEF RunsInv, SoundJournals
  <2> QED
    BY <1>2, <2>2, <2>4 DEF RunsInv
<1>4. CASE ~LacksEnd(journal[r])
  <2>1. UNCHANGED journal
    BY <1>4 DEF Reconcile
  <2>2. HasStart(journal[r]) => Status(journal[r]) # "running"
    BY <1>4 DEF LacksEnd, HasEnd, Terminal, RunsInv, SoundJournals
  <2>3. SoundJournals'
    BY <1>1, <2>1, <2>2 DEF RunsInv, SoundJournals
  <2>4. \A h \in Handlers : SoundRequest(request[h])'
    BY <1>1, <2>1 DEF RunsInv, SoundRequest
  <2> QED
    BY <1>1, <1>2, <2>1, <2>3, <2>4 DEF RunsInv, SoundCache, NoLateDecision
<1> QED
  BY <1>3, <1>4

\* A crash forgets the requests and the cache, and every journal is to be
\* looked at again.
LEMMA CrashKeeps ==
    ASSUME RunsInv, ServerCrash
    PROVE  RunsInv'
<1>1. /\ RunsTyped /\ UNCHANGED <<journal, lateAnswers>> /\ reconciling' = Runs
      /\ cache' = [r \in Runs |-> [size |-> 0, status |-> "running"]]
      /\ request' = [h \in Handlers |-> Idle]
  BY DEF RunsInv, ServerCrash
<1>2. \A r \in Runs : phase'[r] \in OutOfServer /\ phase'[r] \in Phases
  BY <1>1 DEF ServerCrash, RunsTyped, RunsTypeOK, OutOfServer, Phases
<1>3. Idle \in RequestRecords /\ \A r \in Runs : Len(journal[r]) \in Nat
  BY <1>1, RunsFacts
<1>4. RunsTyped'
  <2>1. RunsTypeOK'
    <3>1. /\ slot' = NoRun /\ ctxDone' = {} /\ cancels' = {} /\ closers' = {}
          /\ phase' \in [Runs -> Phases]
      BY <1>2 DEF ServerCrash
    <3>2. gates' \in [Runs -> 0 .. GatesPerRun]
      BY RunsAssumption DEF ServerCrash
    <3>3. chanUI' \in [Runs -> [Gates -> {"none", "idle", "decided", "closed"}]]
      BY DEF ServerCrash
    <3>4. \A r \in Runs : slot' = r <=> phase'[r] \notin OutOfServer
      BY <1>2, <3>1, RunsAssumption
    <3> QED
      BY <1>1, <3>1, <3>2, <3>3, <3>4 DEF RunsTyped, RunsTypeOK
  <2> QED
    BY <1>1, <1>3, <2>1 DEF RunsTyped, Summaries, Statuses
<1>5. \A h \in Handlers : SoundRequest(request[h])'
  BY <1>1 DEF SoundRequest, Idle
<1>6. SoundCache'
  <2>1. \A r \in Runs : /\ cache'[r].size = 0 /\ cache'[r].status = "running"
                        /\ Len(journal'[r]) \in Nat
                        /\ Len(journal'[r]) = 0 => Status(journal'[r]) = "running"
    <3>1. ASSUME NEW r \in Runs, Len(journal'[r]) = 0
          PROVE  Status(journal'[r]) = "running"
      <4>1. journal'[r] \in Seq(Events)
        BY <1>1 DEF RunsTyped, Journals
      <4> QED
        BY <3>1, <4>1 DEF Status
    <3> QED
      BY <1>1, <1>3, <3>1
  <2> QED
    BY <2>1 DEF SoundCache
<1>7. SoundJournals'
  BY <1>1 DEF RunsInv, SoundJournals
<1> QED
  BY <1>1, <1>4, <1>5, <1>6, <1>7 DEF RunsInv, NoLateDecision

-----------------------------------------------------------------------------
(* The steps of the requests                                               *)

\* A request that moves on with what it has, or answers, changes no journal.
LEMMA RequestMoves ==
    ASSUME RunsInv, NEW h \in Handlers, NEW q \in RequestRecords,
           request' = [request EXCEPT ![h] = q], SoundRequest(q),
           UNCHANGED <<slot, ctxDone, cancels, gates, closers, phase, journal, reconciling>>,
           chanUI' \in [Runs -> [Gates -> {"none", "idle", "decided", "closed"}]],
           cache' \in [Runs -> Summaries], SoundCache', NoLateDecision'
    PROVE  RunsInv'
<1>1. RunsTyped /\ SoundJournals /\ \A g \in Handlers : SoundRequest(request[g])
  BY DEF RunsInv
<1>2. request' \in [Handlers -> RequestRecords]
  BY <1>1 DEF RunsTyped
<1>3. RunsTyped'
  BY <1>1, <1>2 DEF RunsTyped, RunsTypeOK, NoLateDecision
<1>4. ASSUME NEW g \in Handlers
      PROVE  SoundRequest(request[g])'
  <2>1. request'[g] = q \/ request'[g] = request[g]
    BY <1>1 DEF RunsTyped
  <2> QED
    BY <1>1, <2>1 DEF SoundRequest
<1>5. SoundJournals'
  BY <1>1 DEF SoundJournals
<1> QED
  BY <1>3, <1>4, <1>5 DEF RunsInv

\* A request that reads, stores or decides keeps what is known of requests and cache.
LEMMA RequestKeeps ==
    ASSUME RunsInv, NEW h \in Handlers, RequestStep(h)
    PROVE  RunsInv'
<1> DEFINE q == request[h]
<1>1. /\ RunsTyped /\ SoundCache /\ NoLateDecision
      /\ SoundRequest(q) /\ q \in RequestRecords /\ Idle \in RequestRecords
      /\ chanUI \in [Runs -> [Gates -> {"none", "idle", "decided", "closed"}]]
      /\ cache \in [Runs -> Summaries]
  BY RunsFacts DEF RunsInv, RunsTyped, RunsTypeOK
<1>2. \A r \in Runs : /\ Status(journal[r]) \in Statuses /\ Len(journal[r]) \in Nat
                      /\ gates[r] \in 0 .. GatesPerRun
                      /\ cache[r].size \in Nat /\ cache[r].status \in Statuses
  BY <1>1, RunsFacts DEF RunsTyped, RunsTypeOK
<1>3. "running" \notin Terminal
  BY DEF Terminal
<1>4. ASSUME NEW r \in Runs, GateFor(h, r) \/ ListRun(h, r)
      PROVE  RunsInv'
  <2> DEFINE found == [Idle EXCEPT !.at = "stat", !.run = r, !.gate = gates[r],
                                   !.late = Status(journal[r]) # "running"]
             listed == [Idle EXCEPT !.at = "stat", !.run = r]
  <2>1. UNCHANGED <<memoryVars, phase, journal, cache, reconciling, lateAnswers>>
    BY <1>4 DEF GateFor, ListRun, otherVars
  <2>2. SoundCache' /\ NoLateDecision'
    BY <1>1, <2>1 DEF SoundCache, NoLateDecision
  <2>3. found \in RequestRecords /\ listed \in RequestRecords
    BY <1>1, <1>2 DEF RequestRecords
  <2>4. /\ found.at = "stat" /\ found.run = r /\ found.late = (Status(journal[r]) # "running")
        /\ listed.at = "stat" /\ listed.run = r /\ ~listed.late
    BY DEF Idle
  <2>5. SoundRequest(found) /\ SoundRequest(listed)
    BY <2>4 DEF SoundRequest
  <2>6. request' = [request EXCEPT ![h] = found] \/ request' = [request EXCEPT ![h] = listed]
    BY <1>4 DEF GateFor, ListRun
  <2> HIDE DEF found, listed
  <2> QED
    BY <1>1, <2>1, <2>2, <2>3, <2>5, <2>6, RequestMoves DEF memoryVars
<1>5. CASE StatJournal(h)
  <2> DEFINE hit == [q EXCEPT !.at = "judge", !.status = cache[q.run].status]
             miss == [q EXCEPT !.at = "scan", !.size = Len(journal[q.run])]
  <2>1. q.at = "stat" /\ q.run \in Runs
    BY <1>1, <1>5 DEF StatJournal, SoundRequest
  <2>2. /\ UNCHANGED <<memoryVars, phase, journal, cache, reconciling, lateAnswers>>
        /\ request' = [request EXCEPT ![h] = IF Len(journal[q.run]) = cache[q.run].size THEN hit ELSE miss]
    BY <1>5 DEF StatJournal, otherVars
  <2>3. SoundCache' /\ NoLateDecision'
    BY <1>1, <2>2 DEF SoundCache, NoLateDecision
  <2>4. CASE Len(journal[q.run]) = cache[q.run].size
    <3>1. hit \in RequestRecords /\ hit.at = "judge" /\ hit.run = q.run /\ hit.late = q.late
          /\ hit.status = cache[q.run].status
      BY <1>1, <1>2, <2>1 DEF RequestRecords
    <3>2. cache[q.run].status = Status(journal[q.run])
      BY <1>1, <1>2, <2>1, <2>4 DEF SoundCache
    <3>3. SoundRequest(hit)
      BY <1>1, <2>1, <3>1, <3>2 DEF SoundRequest
    <3> HIDE DEF hit, miss
    <3> QED
      BY <1>1, <2>2, <2>3, <2>4, <3>1, <3>3, RequestMoves DEF memoryVars
  <2>5. CASE Len(journal[q.run]) # cache[q.run].size
    <3>1. miss \in RequestRecords /\ miss.at = "scan" /\ miss.run = q.run /\ miss.late = q.late
          /\ miss.size = Len(journal[q.run])
      BY <1>1, <1>2, <2>1 DEF RequestRecords
    <3>2. SoundRequest(miss)
      BY <1>1, <1>2, <2>1, <3>1 DEF SoundRequest
    <3> HIDE DEF hit, miss
    <3> QED
      BY <1>1, <2>2, <2>3, <2>5, <3>1, <3>2, RequestMoves DEF memoryVars
  <2> QED
    BY <2>4, <2>5
<1>6. CASE ScanJournal(h)
  <2> DEFINE read == [q EXCEPT !.at = "store", !.status = Status(journal[q.run])]
  <2>1. q.at = "scan" /\ q.run \in Runs
    BY <1>1, <1>6 DEF ScanJournal, SoundRequest
  <2>2. /\ UNCHANGED <<memoryVars, phase, journal, cache, reconciling, lateAnswers>>
        /\ request' = [request EXCEPT ![h] = read]
    BY <1>1, <1>6 DEF ScanJournal, otherVars, RunsTyped
  <2>3. SoundCache' /\ NoLateDecision'
    BY <1>1, <2>2 DEF SoundCache, NoLateDecision
  <2>4. /\ read \in RequestRecords /\ read.at = "store" /\ read.run = q.run /\ read.late = q.late
        /\ read.size = q.size /\ read.status = Status(journal[q.run])
    BY <1>1, <1>2, <2>1 DEF RequestRecords
  <2>5. SoundRequest(read)
    BY <1>1, <2>1, <2>4 DEF SoundRequest
  <2> HIDE DEF read
  <2> QED
    BY <1>1, <2>2, <2>3, <2>4, <2>5, RequestMoves DEF memoryVars
<1>7. CASE StoreSummary(h)
  <2> DEFINE stored == [q EXCEPT !.at = "judge"]
  <2>1. q.at = "store" /\ q.run \in Runs
    BY <1>1, <1>7 DEF StoreSummary, SoundRequest
  <2>2. /\ UNCHANGED <<memoryVars, phase, journal, reconciling, lateAnswers>>
        /\ request' = [request EXCEPT ![h] = stored]
        /\ cache' = [cache EXCEPT ![q.run] = [size |-> q.size, status |-> q.status]]
    BY <1>1, <1>7 DEF StoreSummary, CachedSize, otherVars, RunsTyped
  <2>3. q.size \in Nat /\ q.status \in Statuses
    BY <1>1 DEF RequestRecords
  <2>4. cache' \in [Runs -> Summaries]
    BY <1>1, <2>2, <2>3 DEF Summaries
  <2>5. SoundCache'
    <3>1. /\ cache'[q.run].size = q.size /\ cache'[q.run].status = q.status
          /\ \A r \in Runs : r # q.run => cache'[r] = cache[r]
      BY <1>1, <2>1, <2>2
    <3>2. q.size <= Len(journal[q.run]) /\ (q.size = Len(journal[q.run]) => q.status = Status(journal[q.run]))
      BY <1>1, <2>1 DEF SoundRequest
    <3> QED
      BY <1>1, <2>2, <3>1, <3>2 DEF SoundCache
  <2>6. stored \in RequestRecords /\ stored.at = "judge" /\ stored.run = q.run /\ stored.late = q.late
        /\ stored.status = q.status
    BY <1>1 DEF RequestRecords
  <2>7. SoundRequest(stored)
    BY <1>1, <2>1, <2>6 DEF SoundRequest
  <2> HIDE DEF stored
  <2> QED
    BY <1>1, <2>2, <2>4, <2>5, <2>6, <2>7, RequestMoves DEF memoryVars, NoLateDecision
<1>8. CASE AnswerDecision(h)
  <2>1. q.at = "judge" /\ q.run \in Runs
    BY <1>1, <1>8 DEF AnswerDecision, SoundRequest
  <2>2. /\ UNCHANGED <<slot, phase, ctxDone, cancels, gates, closers, journal, cache, reconciling>>
        /\ request' = [request EXCEPT ![h] = Idle]
    BY <1>8 DEF AnswerDecision, otherVars
  <2>3. chanUI' \in [Runs -> [Gates -> {"none", "idle", "decided", "closed"}]]
    BY <1>1, <1>8, <2>1 DEF AnswerDecision
  <2>4. NoLateDecision'
    <3>1. ~(MaySend(q) /\ q.late)
      BY <1>1, <2>1 DEF MaySend, SoundRequest
    <3> QED
      BY <1>1, <1>8, <3>1 DEF AnswerDecision, NoLateDecision
  <2>5. SoundRequest(Idle)
    BY DEF SoundRequest, Idle
  <2>6. SoundCache'
    BY <1>1, <2>2 DEF SoundCache
  <2> QED
    BY <1>1, <2>2, <2>3, <2>4, <2>5, <2>6, RequestMoves
<1> QED
  BY <1>4, <1>5, <1>6, <1>7, <1>8 DEF RequestStep

-----------------------------------------------------------------------------
(* The theorems about the runs of the page                                 *)

\* The invariant of the runs is inductive.
LEMMA RunsKeeps ==
    ASSUME RunsInv, [RunsNext]_runsVars
    PROVE  RunsInv'
<1>1. ASSUME NEW r \in Runs, GoroutineStep(r)
      PROVE  QuietStep \/ LogStep
  BY <1>1 DEF GoroutineStep, QuietStep, LogStep
<1>2. CASE \E r \in Runs : HandleRunStart(r) \/ NewRunIDFails(r) \/ HandleRunCancel(r)
  BY <1>2, QuietKeeps DEF QuietStep
<1>3. CASE \E r \in Runs : GoroutineStep(r)
  BY <1>1, <1>3, QuietKeeps, LogKeeps
<1>4. CASE \/ \E r \in Runs, n \in Gates : CloseOnCancel(r, n)
           \/ UNCHANGED runsVars
  BY <1>4, QuietKeeps DEF QuietStep
<1>5. CASE \E h \in Handlers : RequestStep(h)
  BY <1>5, RequestKeeps
<1>6. CASE \E r \in Runs : ForeignEvent(r) \/ Reconcile(r)
  BY <1>6, LogKeeps, ReconcileKeeps DEF LogStep
<1>7. CASE ServerCrash
  BY <1>7, CrashKeeps
<1> QED
  BY <1>2, <1>3, <1>4, <1>5, <1>6, <1>7 DEF RunsNext

\* The inductive invariant of the runs of the web page.
THEOREM RunsInvariant == RunsSpec => []RunsInv
<1>1. RunsInit => RunsInv
  BY RunsStart
<1>2. RunsInv /\ [RunsNext]_runsVars => RunsInv'
  BY RunsKeeps
<1> QED
  BY <1>1, <1>2, PTL DEF RunsSpec

\* The slot belongs to the one run that is under way, at whatever place of its
\* goroutine, and to none when there is none (runMu, handlers_runs.go).
THEOREM SlotHasOneRun == RunsSpec => []RunsTypeOK
<1>1. RunsInv => RunsTypeOK
  BY DEF RunsInv, RunsTyped
<1> QED
  BY <1>1, RunsInvariant, PTL

\* A decision that found its gate after the terminal event was in the journal
\* is refused (handleRunGate), whatever other requests put into the cache.
THEOREM LateDecisionsAreRefused == RunsSpec => []NoLateDecision
<1>1. RunsInv => NoLateDecision
  BY DEF RunsInv
<1> QED
  BY <1>1, RunsInvariant, PTL

\* A summary cached for the size of the journal is the journal's, although
\* the size was taken before the scan (cachedRunSummary).
THEOREM CachedSummariesAreCurrent == RunsSpec => []CacheIsCurrent
<1>1. RunsInv => CacheIsCurrent
  BY DEF RunsInv, SoundCache, CacheIsCurrent
<1> QED
  BY <1>1, RunsInvariant, PTL

\* After the start of a server no run that died with its predecessor looks as
\* if it were running (reconcileInterruptedRuns).
THEOREM DeadRunsLookDead == RunsSpec => []DeadRunsAreClosed
<1>1. RunsInv => DeadRunsAreClosed
  BY DEF RunsInv, SoundJournals, DeadRunsAreClosed, Serving
<1> QED
  BY <1>1, RunsInvariant, PTL

-----------------------------------------------------------------------------
(* What a run promises to those who follow it                              *)

\* A run that has not begun has no journal, and is cancelled only once it is
\* listed; a server that starts has no runs of its own.
ServiceInv ==
    /\ \A r \in Runs : phase[r] \in {"absent", "admitted", "listed"} => journal[r] = <<>>
    /\ \A r \in Runs : phase[r] \in {"absent", "admitted"} => r \notin ctxDone
    /\ \A r \in cancels : phase[r] \in {"listed", "working", "gate", "returned", "cancelled"}
    /\ reconciling # {} => \A r \in Runs : phase[r] \in OutOfServer

\* Where the goroutine of a run is and what its journal says stay in step.
LEMMA ServiceStep ==
    ASSUME RunsInv, ServiceInv, [RunsNext]_runsVars
    PROVE  ServiceInv'
<1>1. /\ phase \in [Runs -> Phases] /\ journal \in Journals
      /\ ctxDone \subseteq Runs /\ cancels \subseteq Runs
  BY DEF RunsInv, RunsTyped, RunsTypeOK
<1>2. ASSUME NEW r \in Runs, HandleRunStart(r) \/ NewRunIDFails(r)
      PROVE  ServiceInv'
  <2>1. /\ phase[r] \in {"absent", "admitted"} /\ phase'[r] \in {"absent", "admitted"}
        /\ \A s \in Runs : s # r => phase'[s] = phase[s]
        /\ reconciling' = reconciling /\ UNCHANGED <<ctxDone, cancels, journal>>
        /\ phase[r] = "admitted" \/ reconciling = {}
    BY <1>1, <1>2 DEF HandleRunStart, NewRunIDFails, Moves, Serving, otherVars
  <2>2. reconciling = {}
    BY <2>1 DEF ServiceInv, OutOfServer
  <2> QED
    BY <1>1, <2>1, <2>2 DEF ServiceInv
<1>3. ASSUME NEW r \in Runs, SetCancel(r) \/ BeginRun(r) \/ OpenGate(r) \/ LeaveGate(r) \/ RunReturns(r)
      PROVE  ServiceInv'
  <2>1. /\ phase[r] \in {"admitted", "listed", "working", "gate"}
        /\ phase'[r] \in {"listed", "working", "gate", "returned"}
        /\ \A s \in Runs : s # r => phase'[s] = phase[s]
        /\ cancels' \subseteq cancels \cup {r} /\ reconciling' = reconciling /\ ctxDone' = ctxDone
    BY <1>1, <1>3 DEF SetCancel, BeginRun, OpenGate, LeaveGate, RunReturns, Moves, memoryVars, otherVars
  <2>2. /\ \A s \in Runs : s # r => journal'[s] = journal[s]
        /\ phase'[r] = "listed" => phase[r] = "admitted" /\ journal'[r] = journal[r]
    BY <1>1, <1>3 DEF SetCancel, BeginRun, OpenGate, LeaveGate, RunReturns, Moves, Log, Journals
  <2>3. reconciling = {}
    BY <2>1 DEF ServiceInv, OutOfServer
  <2> QED
    BY <1>1, <2>1, <2>2, <2>3 DEF ServiceInv
<1>4. ASSUME NEW r \in Runs, DeferredCancel(r) \/ ClearCancel(r) \/ ClearGate(r) \/ Unlock(r)
      PROVE  ServiceInv'
  <2>1. /\ phase[r] \in {"returned", "cancelled", "unlisted", "ungated"}
        /\ phase'[r] \in {"cancelled", "unlisted", "ungated", "over"}
        /\ \A s \in Runs : s # r => phase'[s] = phase[s]
        /\ phase'[r] = "cancelled" \/ r \notin cancels'
        /\ cancels' \subseteq cancels /\ reconciling' = reconciling
        /\ ctxDone' \subseteq ctxDone \cup {r} /\ journal' = journal
    BY <1>1, <1>4 DEF DeferredCancel, ClearCancel, ClearGate, Unlock, Moves, otherVars, ServiceInv
  <2>2. reconciling = {}
    BY <2>1 DEF ServiceInv, OutOfServer
  <2> QED
    BY <1>1, <2>1, <2>2 DEF ServiceInv
<1>5. ASSUME NEW r \in Runs, HandleRunCancel(r)
      PROVE  ServiceInv'
  BY <1>1, <1>5 DEF HandleRunCancel, otherVars, ServiceInv
<1>6. ASSUME NEW r \in Runs, ForeignEvent(r)
      PROVE  ServiceInv'
  <2>1. /\ phase'[r] \in {"foreign", "foreign over"} /\ phase[r] \in {"absent", "foreign"}
        /\ \A s \in Runs : s # r => phase'[s] = phase[s] /\ journal'[s] = journal[s]
        /\ UNCHANGED <<ctxDone, cancels, reconciling>>
    BY <1>1, <1>6 DEF ForeignEvent, Moves, Log, Journals, memoryVars, otherVars
  <2> QED
    BY <1>1, <2>1 DEF ServiceInv, OutOfServer
<1>7. ASSUME NEW r \in Runs, Reconcile(r)
      PROVE  ServiceInv'
  <2>1. /\ UNCHANGED <<phase, ctxDone, cancels>> /\ reconciling # {} /\ reconciling' \subseteq reconciling
        /\ \A s \in Runs : s # r => journal'[s] = journal[s]
        /\ journal[r] = <<>> => journal'[r] = journal[r]
    BY <1>1, <1>7 DEF Reconcile, LacksEnd, HasStart, Log, Journals, memoryVars
  <2> QED
    BY <1>1, <2>1 DEF ServiceInv
<1>8. CASE ServerCrash
  <2>1. /\ \A r \in Runs : phase'[r] = phase[r] \/ phase'[r] = "dead"
        /\ \A r \in Runs : phase'[r] \in OutOfServer
        /\ ctxDone' = {} /\ cancels' = {} /\ journal' = journal
    BY <1>1, <1>8 DEF ServerCrash, OutOfServer
  <2> QED
    BY <2>1 DEF ServiceInv
<1>9. CASE \/ \E r \in Runs, n \in Gates : CloseOnCancel(r, n)
           \/ \E h \in Handlers : RequestStep(h)
           \/ UNCHANGED runsVars
  <2>1. UNCHANGED <<phase, ctxDone, cancels, journal, reconciling>>
    BY <1>9 DEF CloseOnCancel, RequestStep, GateFor, ListRun, StatJournal, ScanJournal, StoreSummary,
       AnswerDecision, memoryVars, otherVars, runsVars
  <2> QED
    BY <2>1 DEF ServiceInv
<1> QED
  BY <1>2, <1>3, <1>4, <1>5, <1>6, <1>7, <1>8, <1>9 DEF RunsNext, GoroutineStep

\* A server starts without runs under way.
LEMMA ServiceBegins == RunsInit => ServiceInv
  BY DEF RunsInit, ServiceInv

\* The invariants the ledger needs, of every behaviour.
LEMMA ServiceInvariant == RunsSpec => [](RunsInv /\ ServiceInv)
<1>1. RunsInit => ServiceInv
  BY ServiceBegins
<1>2. RunsInv /\ ServiceInv /\ [RunsNext]_runsVars => ServiceInv'
  BY ServiceStep
<1> QED
  BY <1>1, <1>2, RunsInvariant, PTL DEF RunsSpec

\* What an event changes of what a journal tells.
LEMMA ToldAfter ==
    ASSUME NEW events \in Seq(Events), NEW e \in Events \ {"run_start"}
    PROVE  Told(Append(events, e)) = IF e \in Terminal THEN e ELSE Told(events)
<1>1. /\ DOMAIN Append(events, e) = 1 .. Len(events) + 1
      /\ DOMAIN events = 1 .. Len(events) /\ Len(events) \in Nat
      /\ Append(events, e)[Len(events) + 1] = e
      /\ \A i \in DOMAIN events : Append(events, e)[i] = events[i]
  OBVIOUS
<1>2. HasStart(Append(events, e)) <=> HasStart(events)
  BY <1>1 DEF HasStart
<1>3. "running" \notin Terminal
  BY DEF Terminal
<1>4. Status(Append(events, e)) = IF e \in Terminal THEN e ELSE Status(events)
  BY StatusAfter
<1> QED
  BY <1>2, <1>3, <1>4 DEF Told

\* A run that has said nothing yet.
LEMMA ToldFirst ==
    /\ Told(<<>>) = "none"
    /\ Told(Append(<<>>, "run_start")) = "run_start"
<1>1. <<>> \in Seq(Events) /\ DOMAIN <<>> = {} /\ "run_start" \in Events /\ "run_start" \notin Terminal
  BY DEF Events, Terminal
<1>2. Status(<<>>) = "running" /\ ~HasStart(<<>>)
  BY <1>1 DEF Status, HasStart
<1>3. Status(Append(<<>>, "run_start")) = "running"
  BY <1>1, <1>2, StatusAfter
<1>4. HasStart(Append(<<>>, "run_start"))
  <2>1. 1 \in DOMAIN Append(<<>>, "run_start") /\ Append(<<>>, "run_start")[1] = "run_start"
    OBVIOUS
  <2> QED
    BY <2>1 DEF HasStart
<1> QED
  BY <1>2, <1>3, <1>4 DEF Told

\* What stands as the status has been written.
LEMMA StatusWasWritten ==
    ASSUME NEW events \in Seq(Events), Status(events) # "running"
    PROVE  \E i \in DOMAIN events : events[i] = Status(events)
<1> DEFINE Final == {i \in DOMAIN events : /\ events[i] \in Terminal
                                           /\ \A j \in DOMAIN events : j > i => events[j] \notin Terminal}
<1>1. Status(events) = IF Final = {} THEN "running" ELSE events[CHOOSE i \in Final : TRUE]
  BY DEF Status
<1>2. Final # {} => (CHOOSE i \in Final : TRUE) \in DOMAIN events
  OBVIOUS
<1> HIDE DEF Final
<1> QED
  BY <1>1, <1>2

Outside == [r \in Runs |-> Seen(r)]

\* A step that shows at one run at most.
Frame(r) ==
    \A s \in Runs : s # r => /\ phase'[s] = phase[s] /\ journal'[s] = journal[s]
                             /\ s \in ctxDone' <=> s \in ctxDone

\* A step of one run leaves the ledger of the others alone.
LEMMA FrameStep ==
    ASSUME NEW r \in Runs, Frame(r)
    PROVE  /\ Seen(r)' = Seen(r) => Outside' = Outside
           /\ \A life, last, c : Seen(r)' = [life |-> life, told |-> last, cancelled |-> c]
                                    => Ledger!Becomes(r, life, last, c)
<1>1. ASSUME NEW s \in Runs, s # r
      PROVE  Seen(s)' = Seen(s)
  <2>1. phase'[s] = phase[s] /\ journal'[s] = journal[s] /\ (s \in ctxDone' <=> s \in ctxDone)
    BY <1>1 DEF Frame
  <2>2. Told(journal[s])' = Told(journal[s])
    BY <2>1
  <2> QED
    BY <2>1, <2>2 DEF Seen, Life, Foreign
<1>2. Seen(r)' = Seen(r) => Outside' = Outside
  BY <1>1 DEF Outside
<1>3. ASSUME NEW life, NEW last, NEW c, Seen(r)' = [life |-> life, told |-> last, cancelled |-> c]
      PROVE  Ledger!Becomes(r, life, last, c)
  <2>1. [s \in Runs |-> Seen(s)]' = [[s \in Runs |-> Seen(s)] EXCEPT
             ![r] = [life |-> life, told |-> last, cancelled |-> c]]
    BY <1>1, <1>3
  <2> QED
    BY <2>1 DEF Ledger!Becomes
<1> QED
  BY <1>2, <1>3

\* The goroutine of a run writes on and comes to its verdict.
LEMMA GoroutineShows ==
    ASSUME RunsInv, ServiceInv, NEW r \in Runs, GoroutineStep(r)
    PROVE  Ledger!LedgerNext \/ Outside' = Outside
<1>1. /\ phase \in [Runs -> Phases] /\ journal \in Journals /\ journal[r] \in Seq(Events)
      /\ Outside[r] = Seen(r)
  BY DEF RunsInv, RunsTyped, RunsTypeOK, Outside, Journals
<1>2. ASSUME NEW e, Log(r, e)
      PROVE  journal'[r] = Append(journal[r], e) /\ \A s \in Runs : s # r => journal'[s] = journal[s]
  BY <1>1, <1>2 DEF Log, Journals
<1>3. ASSUME NEW from, NEW to, Moves(r, from, to)
      PROVE  /\ phase[r] = from /\ phase'[r] = to
             /\ \A s \in Runs : s # r => phase'[s] = phase[s]
  BY <1>1, <1>3 DEF Moves
<1>4. CASE SetCancel(r)
  <2>1. /\ phase[r] = "admitted" /\ phase'[r] = "listed" /\ Frame(r) /\ r \notin ctxDone
        /\ journal' = journal /\ ctxDone' = ctxDone
    BY <1>3, <1>4 DEF SetCancel, Frame, ServiceInv
  <2>2. Seen(r)' = Seen(r)
    BY <2>1 DEF Seen, Life, Foreign
  <2> QED
    BY <2>1, <2>2, FrameStep
<1>5. CASE DeferredCancel(r) \/ ClearCancel(r) \/ ClearGate(r) \/ Unlock(r)
  <2>1. /\ phase[r] \in {"returned", "cancelled", "unlisted", "ungated"}
        /\ phase'[r] \in {"cancelled", "unlisted", "ungated", "over"}
        /\ Frame(r) /\ journal' = journal
    BY <1>3, <1>5 DEF DeferredCancel, ClearCancel, ClearGate, Unlock, Frame
  <2>2. Seen(r)' = Seen(r)
    BY <2>1 DEF Seen, Life, Foreign
  <2> QED
    BY <2>1, <2>2, FrameStep
<1>6. CASE BeginRun(r)
  <2>1. /\ phase[r] = "listed" /\ phase'[r] = "working" /\ ctxDone' = ctxDone
        /\ journal[r] = <<>> /\ (Log(r, "run_start") \/ journal' = journal)
    BY <1>3, <1>6 DEF BeginRun, memoryVars, ServiceInv
  <2>2. Frame(r)
    BY <1>2, <1>3, <1>6, <2>1 DEF BeginRun, Frame
  <2>3. Told(journal[r]) = "none" /\ Told(journal'[r]) \in {"none", "run_start"}
    BY <1>2, <2>1, ToldFirst
  <2>4. /\ Seen(r) = [life |-> "new", told |-> "none", cancelled |-> r \in ctxDone]
        /\ Seen(r)' = [life |-> "working", told |-> Told(journal'[r]), cancelled |-> r \in ctxDone]
    BY <2>1, <2>3 DEF Seen, Life, Foreign
  <2>5. Ledger!Becomes(r, "working", Told(journal'[r]), r \in ctxDone)
    BY <2>2, <2>4, FrameStep
  <2>6. Ledger!Begin(r)
    BY <1>1, <2>3, <2>4, <2>5 DEF Ledger!Begin, Ledger!Told, Outside
  <2> QED
    BY <2>6 DEF Ledger!LedgerNext
<1>7. CASE OpenGate(r) \/ LeaveGate(r)
  <2>1. /\ phase[r] \in {"working", "gate"} /\ phase'[r] \in {"working", "gate"} /\ ctxDone' = ctxDone
        /\ Log(r, "gate_wait") \/ Log(r, "gate_decision")
    BY <1>3, <1>7 DEF OpenGate, LeaveGate
  <2>2. Frame(r)
    BY <1>2, <1>3, <1>7, <2>1 DEF OpenGate, LeaveGate, Frame
  <2>3. {"gate_wait", "gate_decision"} \subseteq Events \ (Terminal \cup {"run_start"})
    BY DEF Events, Terminal
  <2>4. Told(journal'[r]) = Told(journal[r])
    BY <1>1, <1>2, <2>1, <2>3, ToldAfter
  <2>5. Seen(r)' = Seen(r)
    BY <2>1, <2>4 DEF Seen, Life, Foreign
  <2> QED
    BY <2>2, <2>5, FrameStep
<1>8. CASE RunReturns(r)
  <2>1. /\ phase[r] = "working" /\ phase'[r] = "returned" /\ ctxDone' = ctxDone
        /\ (\E last \in LastEvents(r) : Log(r, last)) \/ journal' = journal
    BY <1>3, <1>8 DEF RunReturns, memoryVars
  <2>2. Frame(r)
    BY <1>2, <1>3, <1>8, <2>1 DEF RunReturns, Frame
  <2>3. /\ Seen(r).life = "working" /\ Seen(r).told = Told(journal[r])
        /\ r \in ctxDone => Seen(r).cancelled
        /\ Seen(r)' = [life |-> "rest", told |-> Told(journal'[r]), cancelled |-> FALSE]
    <3>1. /\ Life(r) = "working" /\ Life(r)' = "rest" /\ ~Foreign(r) /\ ~Foreign(r)'
          /\ (r \in ctxDone' /\ phase'[r] \in {"listed", "working", "gate"}) = FALSE
          /\ phase[r] \in {"listed", "working", "gate"}
      BY <2>1 DEF Life, Foreign
    <3> QED
      BY <3>1 DEF Seen
  <2>4. Ledger!Becomes(r, "rest", Told(journal'[r]), FALSE)
    BY <2>2, <2>3, FrameStep
  <2>5. CASE journal' = journal
    <3>1. Ledger!Becomes(r, "rest", Seen(r).told, FALSE)
      BY <2>3, <2>4, <2>5
    <3>2. Ledger!Leave(r)
      BY <1>1, <2>3, <3>1 DEF Ledger!Leave, Outside
    <3> QED
      BY <3>2 DEF Ledger!LedgerNext
  <2>6. CASE \E last \in LastEvents(r) : Log(r, last)
    <3>1. PICK last \in LastEvents(r) : Log(r, last)
      BY <2>6
    <3>2. /\ last \in {"run_end", "run_failed", "run_cancelled"}
          /\ last = "run_cancelled" => r \in ctxDone
      BY DEF LastEvents
    <3>3. last \in Events \ {"run_start"} /\ last \in Terminal
      BY <3>2 DEF Events, Terminal
    <3>4. Told(journal'[r]) = last
      BY <1>1, <1>2, <3>1, <3>3, ToldAfter
    <3>5. Ledger!Becomes(r, "rest", last, FALSE)
      BY <2>4, <3>4
    <3>6. /\ Outside[r].life = "working" /\ (last = "run_cancelled" => Outside[r].cancelled)
      BY <1>1, <2>3, <3>2
    <3>7. Ledger!Conclude(r)
      BY <3>2, <3>5, <3>6 DEF Ledger!Conclude, Ledger!Told, Ledger!Verdicts, Outside
    <3> QED
      BY <3>7 DEF Ledger!LedgerNext
  <2> QED
    BY <2>1, <2>5, <2>6
<1> QED
  BY <1>4, <1>5, <1>6, <1>7, <1>8 DEF GoroutineStep

\* What others do to a run: admit it, cancel it, close its journal.
LEMMA OthersShow ==
    ASSUME RunsInv, ServiceInv, NEW r \in Runs,
           \/ HandleRunStart(r) \/ NewRunIDFails(r) \/ HandleRunCancel(r)
           \/ ForeignEvent(r) \/ Reconcile(r)
    PROVE  Ledger!LedgerNext \/ Outside' = Outside
<1>1. /\ phase \in [Runs -> Phases] /\ journal \in Journals /\ journal[r] \in Seq(Events)
      /\ Outside[r] = Seen(r) /\ ctxDone \subseteq Runs
  BY DEF RunsInv, RunsTyped, RunsTypeOK, Outside, Journals
<1>2. CASE HandleRunStart(r) \/ NewRunIDFails(r)
  <2>1. /\ {phase[r], phase'[r]} = {"absent", "admitted"} /\ Frame(r) /\ r \notin ctxDone
        /\ journal' = journal /\ ctxDone' = ctxDone
    BY <1>1, <1>2 DEF HandleRunStart, NewRunIDFails, Moves, Frame, ServiceInv
  <2>2. Seen(r)' = Seen(r)
    BY <2>1 DEF Seen, Life, Foreign
  <2> QED
    BY <2>1, <2>2, FrameStep
<1>3. CASE HandleRunCancel(r)
  <2>1. /\ phase[r] \in {"listed", "working", "gate", "returned", "cancelled"}
        /\ phase' = phase /\ journal' = journal /\ ctxDone' = ctxDone \cup {r} /\ Frame(r)
    BY <1>3 DEF HandleRunCancel, ServiceInv, Frame
  <2>2. CASE phase[r] \in {"returned", "cancelled"}
    <3>1. Seen(r)' = Seen(r)
      BY <2>1, <2>2 DEF Seen, Life, Foreign
    <3> QED
      BY <2>1, <3>1, FrameStep
  <2>3. CASE phase[r] \in {"listed", "working", "gate"}
    <3>1. /\ Seen(r)' = [life |-> Seen(r).life, told |-> Seen(r).told, cancelled |-> TRUE]
          /\ Seen(r).life # "rest"
      BY <2>1, <2>3 DEF Seen, Life, Foreign
    <3>2. Ledger!Becomes(r, Seen(r).life, Seen(r).told, TRUE)
      BY <2>1, <3>1, FrameStep
    <3> QED
      BY <1>1, <3>1, <3>2 DEF Ledger!LedgerNext, Ledger!Cancel, Outside
  <2> QED
    BY <2>1, <2>2, <2>3
<1>4. CASE ForeignEvent(r)
  <2>1. /\ phase[r] \in {"absent", "foreign"} /\ phase'[r] \in {"foreign", "foreign over"}
        /\ ctxDone' = ctxDone /\ Frame(r)
        /\ phase[r] = "absent" => journal[r] = <<>> /\ r \notin ctxDone
    BY <1>1, <1>4 DEF ForeignEvent, Moves, Log, Journals, Frame, memoryVars, ServiceInv
  <2>2. Seen(r)' = Seen(r)
    BY <2>1, ToldFirst DEF Seen, Life, Foreign
  <2> QED
    BY <2>1, <2>2, FrameStep
<1>5. CASE Reconcile(r)
  <2>1. /\ phase' = phase /\ ctxDone' = ctxDone /\ Frame(r)
        /\ phase[r] \in OutOfServer
        /\ phase[r] = "absent" => journal[r] = <<>>
    BY <1>1, <1>5 DEF Reconcile, Log, Journals, Frame, memoryVars, ServiceInv
  <2>2. CASE Foreign(r) \/ ~LacksEnd(journal[r])
    <3>1. Seen(r)' = Seen(r)
      BY <1>5, <2>1, <2>2 DEF Seen, Life, Foreign, Reconcile
    <3> QED
      BY <2>1, <3>1, FrameStep
  <2>3. CASE ~Foreign(r) /\ LacksEnd(journal[r])
    <3>1. phase[r] \in {"over", "dead"}
      <4>1. HasStart(journal[r]) /\ DOMAIN <<>> = {}
        BY <2>3 DEF LacksEnd
      <4>2. phase[r] # "absent"
        BY <2>1, <4>1 DEF HasStart
      <4> QED
        BY <2>1, <2>3, <4>2 DEF Foreign, OutOfServer
    <3>2. Told(journal[r]) \notin {"none", "run_end", "interrupted"}
      <4>1. Status(journal[r]) \notin {"run_end", "interrupted"}
        <5>1. CASE Status(journal[r]) = "running"
          BY <5>1
        <5>2. CASE Status(journal[r]) # "running"
          BY <1>1, <2>3, <5>2, StatusWasWritten DEF LacksEnd, HasEnd
        <5> QED
          BY <5>1, <5>2
      <4>2. Status(journal[r]) # "none" /\ HasStart(journal[r])
        BY <1>1, <2>3, StatusType DEF LacksEnd, Statuses, Terminal
      <4> QED
        BY <4>1, <4>2 DEF Told
    <3>3. "interrupted" \in Events \ {"run_start"} /\ "interrupted" \in Terminal
      BY DEF Events, Terminal
    <3>4. journal'[r] = Append(journal[r], "interrupted")
      BY <1>1, <1>5, <2>3 DEF Reconcile, Log, Journals
    <3>5. Told(journal'[r]) = "interrupted"
      BY <1>1, <3>3, <3>4, ToldAfter
    <3>6. /\ Seen(r).life = "rest" /\ Seen(r).told = Told(journal[r])
          /\ Seen(r)' = [life |-> "rest", told |-> "interrupted", cancelled |-> FALSE]
      BY <2>1, <3>1, <3>5 DEF Seen, Life, Foreign
    <3>7. Ledger!Becomes(r, "rest", "interrupted", FALSE)
      BY <2>1, <3>6, FrameStep
    <3>8. /\ Outside[r].life = "rest"
          /\ Outside[r].told \notin {"none", "run_end", "interrupted"}
      BY <1>1, <3>2, <3>6
    <3>9. Ledger!Interrupt(r)
      BY <3>7, <3>8 DEF Ledger!Interrupt, Outside
    <3> QED
      BY <3>9 DEF Ledger!LedgerNext
  <2> QED
    BY <2>2, <2>3
<1> QED
  BY <1>2, <1>3, <1>4, <1>5

\* A crash of the server is the end of the one run that was under way.
LEMMA CrashShows ==
    ASSUME RunsInv, ServiceInv, ServerCrash
    PROVE  Ledger!LedgerNext \/ Outside' = Outside
<1>1. /\ phase \in [Runs -> Phases]
      /\ \A r \in Runs : slot = r <=> phase[r] \notin OutOfServer
      /\ \A r \in Runs : Outside[r] = Seen(r)
      /\ journal' = journal /\ ctxDone' = {}
  BY DEF RunsInv, RunsTyped, RunsTypeOK, Outside, ServerCrash
<1>2. ASSUME NEW r \in Runs, phase[r] \in OutOfServer
      PROVE  Seen(r)' = Seen(r)
  <2>1. phase'[r] = phase[r]
    BY <1>2 DEF ServerCrash
  <2> QED
    BY <1>1, <1>2, <2>1 DEF Seen, Life, Foreign, OutOfServer
<1>3. ASSUME NEW r \in Runs, phase[r] \notin OutOfServer
      PROVE  /\ Seen(r)' = [life |-> "rest", told |-> Seen(r).told, cancelled |-> FALSE]
             /\ Seen(r).life = "rest" => ~Seen(r).cancelled
  <2>1. phase'[r] = "dead"
    BY <1>3 DEF ServerCrash
  <2> QED
    BY <1>1, <1>3, <2>1 DEF Seen, Life, Foreign, OutOfServer
<1>4. CASE \A r \in Runs : phase[r] \in OutOfServer
  BY <1>2, <1>4 DEF Outside
<1>5. CASE \E r \in Runs : phase[r] \notin OutOfServer
  <2>1. PICK r \in Runs : phase[r] \notin OutOfServer
    BY <1>5
  <2>2. \A s \in Runs : s # r => Seen(s)' = Seen(s)
    BY <1>1, <1>2, <2>1
  <2>3. CASE Seen(r).life = "rest"
    <3>1. Seen(r)' = Seen(r)
      BY <1>3, <2>1, <2>3 DEF Seen
    <3> QED
      BY <2>2, <3>1 DEF Outside
  <2>4. CASE Seen(r).life # "rest"
    <3>1. Ledger!Becomes(r, "rest", Seen(r).told, FALSE)
      BY <1>3, <2>1, <2>2 DEF Ledger!Becomes
    <3> QED
      BY <1>1, <2>4, <3>1 DEF Ledger!LedgerNext, Ledger!Leave, Outside
  <2> QED
    BY <2>3, <2>4
<1> QED
  BY <1>4, <1>5

\* No run has told anything at first.
LEMMA LedgerOpens == RunsInit => Ledger!LedgerInit
<1> SUFFICES ASSUME RunsInit PROVE Ledger!LedgerInit
  OBVIOUS
<1>1. \A r \in Runs : Seen(r) = [life |-> "new", told |-> "none", cancelled |-> FALSE]
  BY ToldFirst DEF RunsInit, Seen, Life, Foreign
<1> QED
  BY <1>1 DEF Ledger!LedgerInit

\* Every step of the page shows outside as one of RunLedger, or not at all.
LEMMA LedgerIsKept ==
    RunsInv /\ ServiceInv /\ [RunsNext]_runsVars => [Ledger!LedgerNext]_Outside
<1> SUFFICES ASSUME RunsInv, ServiceInv, [RunsNext]_runsVars
             PROVE  Ledger!LedgerNext \/ Outside' = Outside
  OBVIOUS
<1>1. ASSUME UNCHANGED <<phase, journal, ctxDone>>
      PROVE  Outside' = Outside
  BY <1>1 DEF Outside, Seen, Life, Foreign
<1>2. CASE \/ \E r \in Runs, n \in Gates : CloseOnCancel(r, n)
           \/ \E h \in Handlers : RequestStep(h)
           \/ UNCHANGED runsVars
  BY <1>1, <1>2 DEF CloseOnCancel, RequestStep, GateFor, ListRun, StatJournal, ScanJournal,
     StoreSummary, AnswerDecision, memoryVars, runsVars
<1> QED
  BY <1>2, GoroutineShows, OthersShow, CrashShows DEF RunsNext

\* The runs of the page keep the promise of RunLedger, as Runner does, with
\* any number of runs, requests and crashes: a run is begun once, comes to one
\* verdict, and is called interrupted by the start of a server only when no
\* process works on it and it has not said that it ended.
THEOREM RunsKeepTheirLedger == RunsSpec => RunsKeepLedger
  BY LedgerOpens, LedgerIsKept, ServiceInvariant, PTL DEF RunsSpec, RunsKeepLedger, Ledger!LedgerSpec, Outside

-----------------------------------------------------------------------------
(* Approvals                                                               *)

LinkRecords == [step : GateSteps, expires : Nat]
Postings ==
    [at : {"idle", "deliver", "send", "resolved", "unregister"}, link : Nat, gate : Nat,
     action : {"accept", "unknown"}]

\* What the register, the links and the requests hold.
ApprovalsTyped ==
    /\ ApprovalsTypeOK
    /\ links \in Seq(LinkRecords)
    /\ poster \in [Posters -> Postings]
    /\ clock \in Nat
    /\ waiting => Latest > 0

\* A request that is about to send through the register has burned its link,
\* no other one is about to send for that link, and none has.
LinksAreBurned ==
    /\ \A p \in Posters :
          poster[p].at = "send" =>
              /\ poster[p].link \in burned
              /\ \A q \in Posters : poster[q].at = "send" /\ poster[q].link = poster[p].link => q = p
              /\ \A d \in delivered : d.way = "send" => d.link # poster[p].link
    /\ \A d \in delivered : d.way = "send" => d.link \in burned

ApprovalsInv == ApprovalsTyped /\ LinksAreBurned /\ LinkDecidesOnce

\* Nothing has been asked or sent at first.
LEMMA ApprovalsStart == ApprovalsInit => ApprovalsInv
<1> SUFFICES ASSUME ApprovalsInit PROVE ApprovalsInv
  OBVIOUS
<1>1. Latest = 0
  BY DEF ApprovalsInit, Latest
<1>2. Resting \in Postings
  BY DEF Resting, Postings
<1>3. ApprovalsTypeOK
  <2>1. pending \in [GateSteps -> 0 .. Latest]
    BY <1>1 DEF ApprovalsInit
  <2>2. stepOf \in Seq(GateSteps) /\ Latest <= MaxGates
    BY <1>1, ApprovalsAssumption DEF ApprovalsInit
  <2>3. waiting \in BOOLEAN /\ asked \in GateSteps \cup {NoStep} /\ burned \subseteq DOMAIN links
    BY DEF ApprovalsInit
  <2>4. \A p \in Posters : poster[p].at = "idle"
    BY DEF ApprovalsInit, Resting
  <2> QED
    BY <2>1, <2>2, <2>3, <2>4 DEF ApprovalsTypeOK
<1>4. ApprovalsTyped
  BY <1>1, <1>2, <1>3 DEF ApprovalsInit, ApprovalsTyped
<1> QED
  BY <1>4 DEF ApprovalsInit, ApprovalsInv, LinksAreBurned, LinkDecidesOnce, Resting

\* The steps of the run, of its page and of the clock send nothing by a link.
LEMMA ApprovalsQuiet ==
    ASSUME ApprovalsInv,
           \/ \E s \in GateSteps : ComeToGate(s) \/ SignLink(s)
           \/ HearDecision \/ DecideOnPage \/ ReadWait \/ Register \/ PassTime
           \/ UNCHANGED approvalVars
    PROVE  ApprovalsInv'
<1> USE DEF ApprovalsInv, ApprovalsTyped, ApprovalsTypeOK, gateVars, linkVars, Latest
<1>1. UNCHANGED <<burned, poster, delivered>>
  BY DEF ComeToGate, SignLink, HearDecision, DecideOnPage, ReadWait, Register, PassTime, approvalVars
<1>2. (LinksAreBurned /\ LinkDecidesOnce)'
  BY <1>1 DEF LinksAreBurned, LinkDecidesOnce
<1> SUFFICES ApprovalsTyped'
  BY <1>2
<1>3. ASSUME NEW s \in GateSteps, ComeToGate(s)
      PROVE  ApprovalsTyped'
  <2>1. /\ stepOf' = Append(stepOf, s) /\ waiting' = TRUE /\ Len(stepOf) < MaxGates
        /\ UNCHANGED <<gateUI, asked, links, pending, burned, poster, clock>>
    BY <1>3 DEF ComeToGate
  <2>2. stepOf \in Seq(GateSteps) /\ MaxGates \in Nat
    BY ApprovalsAssumption
  <2>3. /\ stepOf' \in Seq(GateSteps) /\ Len(stepOf') = Len(stepOf) + 1
        /\ Len(stepOf') <= MaxGates /\ Len(stepOf') > 0 /\ Len(stepOf) \in Nat
    BY <2>1, <2>2
  <2>4. pending' \in [GateSteps -> 0 .. Len(stepOf')]
    BY <2>1, <2>3
  <2> QED
    BY <2>1, <2>3, <2>4
<1>4. ASSUME NEW s \in GateSteps, MakeLink(s)
      PROVE  /\ links' \in Seq(LinkRecords)
             /\ DOMAIN links \subseteq DOMAIN links'
  BY <1>4, ApprovalsAssumption DEF MakeLink, LinkRecords
<1>5. ASSUME NEW s \in GateSteps, SignLink(s)
      PROVE  ApprovalsTyped'
  BY <1>4, <1>5 DEF SignLink
<1>6. CASE Register
  BY <1>4, <1>6 DEF Register
<1>7. CASE HearDecision \/ DecideOnPage
  BY <1>7 DEF HearDecision, DecideOnPage
<1>9. CASE PassTime
  BY <1>9 DEF PassTime
<1>10. CASE UNCHANGED approvalVars
  BY <1>10 DEF approvalVars
<1>8. CASE ReadWait
  BY <1>8 DEF ReadWait
<1> QED
  BY <1>3, <1>5, <1>6, <1>7, <1>8, <1>9, <1>10

\* What the invariant says of one request.
LEMMA PostingType ==
    ASSUME ApprovalsTyped, NEW p \in Posters
    PROVE  /\ poster[p] \in Postings
           /\ Latest \in Nat
           /\ \A l \in DOMAIN links : pending[links[l].step] \in Nat
<1>1. Latest \in Nat
  BY DEF ApprovalsTyped, ApprovalsTypeOK, Latest
<1>2. pending \in [GateSteps -> Nat]
  BY <1>1 DEF ApprovalsTyped, ApprovalsTypeOK
<1>3. ASSUME NEW l \in DOMAIN links
      PROVE  links[l].step \in GateSteps
  <2>1. links[l] \in LinkRecords
    BY DEF ApprovalsTyped
  <2> QED
    BY <2>1 DEF LinkRecords
<1> QED
  BY <1>1, <1>2, <1>3 DEF ApprovalsTyped

\* A request moves on, and leaves what is typed as it is.
LEMMA PosterMoves ==
    ASSUME ApprovalsTyped, NEW p \in Posters, NEW q \in Postings,
           poster' = [poster EXCEPT ![p] = q],
           pending' \in [GateSteps -> 0 .. Latest], burned' \subseteq DOMAIN links,
           UNCHANGED <<gateVars, asked, links, clock>>
    PROVE  ApprovalsTyped'
<1>1. poster' \in [Posters -> Postings]
  BY DEF ApprovalsTyped
<1>2. \A r \in Posters : poster'[r].at \in {"idle", "deliver", "send", "resolved", "unregister"}
  BY <1>1 DEF Postings
<1> QED
  BY <1>1, <1>2 DEF ApprovalsTyped, ApprovalsTypeOK, gateVars, Latest

\* The steps of the requests: a link is burned before its decision is sent.
LEMMA ApprovalsPosting ==
    ASSUME ApprovalsInv, NEW p \in Posters,
           \/ \E l \in 1 .. MaxLinks, action \in {"accept", "unknown"} : HandleApprove(p, l, action)
           \/ Deliver(p) \/ SendDecision(p) \/ Unregister(p)
    PROVE  ApprovalsInv'
<1> DEFINE q == poster[p]
           g == pending[links[q.link].step]
<1>1. /\ ApprovalsTyped /\ q \in Postings /\ Latest \in Nat /\ Resting \in Postings
      /\ poster \in [Posters -> Postings]
      /\ pending \in [GateSteps -> 0 .. Latest] /\ burned \subseteq DOMAIN links
  BY PostingType DEF ApprovalsInv, ApprovalsTyped, ApprovalsTypeOK, Resting, Postings
<1>2. ASSUME NEW l \in 1 .. MaxLinks, NEW action \in {"accept", "unknown"}, HandleApprove(p, l, action)
      PROVE  ApprovalsInv'
  <2>1. [at |-> "deliver", link |-> l, gate |-> 0, action |-> action] \in Postings
    BY ApprovalsAssumption DEF Postings
  <2>2. ApprovalsTyped'
    BY <1>1, <1>2, <2>1, PosterMoves DEF HandleApprove, linkVars
  <2>3. LinksAreBurned' /\ LinkDecidesOnce'
    BY <1>1, <1>2 DEF HandleApprove, ApprovalsInv, LinksAreBurned, LinkDecidesOnce
  <2> QED
    BY <2>2, <2>3 DEF ApprovalsInv
<1>3. CASE Deliver(p) /\ burned' = Burn(q.link) /\ q.link \notin burned
  <2>1. /\ q.link \in DOMAIN links
        /\ poster' = [poster EXCEPT ![p] = [q EXCEPT !.at = "send", !.gate = g]]
    BY <1>1, <1>3 DEF Deliver, Verified, Burn
  <2>2. [q EXCEPT !.at = "send", !.gate = g] \in Postings
    BY <1>1, <2>1, PostingType DEF Postings
  <2>3. ApprovalsTyped'
    BY <1>1, <1>3, <2>1, <2>2, PosterMoves DEF Deliver, linkVars, Burn
  <2>4. LinksAreBurned' /\ LinkDecidesOnce'
    BY <1>1, <1>3, <2>1 DEF Deliver, ApprovalsInv, LinksAreBurned, LinkDecidesOnce, Burn, Postings
  <2> QED
    BY <2>3, <2>4 DEF ApprovalsInv
<1>4. CASE Deliver(p) /\ burned' = burned
  <2>1. PICK r \in {Resting, [q EXCEPT !.at = "resolved", !.gate = Latest]} :
           poster' = [poster EXCEPT ![p] = r]
    BY <1>1, <1>4 DEF Deliver, Burn
  <2>2. r \in Postings /\ r.at # "send"
    BY <1>1, <2>1 DEF Postings, Resting
  <2>3. ApprovalsTyped'
    BY <1>1, <1>4, <2>1, <2>2, PosterMoves DEF Deliver, linkVars
  <2>4. LinksAreBurned' /\ LinkDecidesOnce'
    BY <1>1, <1>4, <2>1, <2>2 DEF Deliver, ApprovalsInv, LinksAreBurned, LinkDecidesOnce
  <2> QED
    BY <2>3, <2>4 DEF ApprovalsInv
<1>5. CASE SendDecision(p)
  <2>1. PICK r \in {Resting, [q EXCEPT !.at = "unregister"]} :
           poster' = [poster EXCEPT ![p] = r]
    BY <1>5 DEF SendDecision
  <2>2. r \in Postings /\ r.at # "send"
    BY <1>1, <2>1 DEF Postings, Resting
  <2>3. ApprovalsTyped'
    BY <1>1, <1>5, <2>1, <2>2, PosterMoves DEF SendDecision, linkVars
  <2>4. \A o \in Posters : poster'[o].at = "send" => o # p /\ poster'[o] = poster[o]
    BY <1>1, <2>1, <2>2
  <2>5. \/ delivered' = delivered
        \/ \E d : delivered' = delivered \cup {d} /\ d.link = q.link /\ d.way = q.at
    BY <1>5 DEF SendDecision
  <2>6. q.at = "send" => \A d \in delivered : d.way = "send" => d.link # q.link
    BY DEF ApprovalsInv, LinksAreBurned
  <2>7. LinkDecidesOnce'
    BY <2>5, <2>6 DEF ApprovalsInv, LinkDecidesOnce
  <2>8. LinksAreBurned'
    BY <1>5, <2>4, <2>5 DEF SendDecision, ApprovalsInv, LinksAreBurned
  <2> QED
    BY <2>3, <2>7, <2>8 DEF ApprovalsInv
<1>6. CASE Unregister(p)
  <2>1. /\ poster' = [poster EXCEPT ![p] = Resting]
        /\ pending' = [pending EXCEPT ![links[q.link].step] = 0]
    BY <1>6 DEF Unregister
  <2>5. 0 \in 0 .. Latest
    BY <1>1
  <2>4. pending' \in [GateSteps -> 0 .. Latest]
    BY <1>1, <2>1, <2>5, Zenon
  <2>2. ApprovalsTyped'
    BY <1>1, <1>6, <2>1, <2>4, PosterMoves DEF Unregister
  <2>3. LinksAreBurned' /\ LinkDecidesOnce'
    BY <1>1, <1>6 DEF Unregister, ApprovalsInv, LinksAreBurned, LinkDecidesOnce, Resting
  <2> QED
    BY <2>2, <2>3 DEF ApprovalsInv
<1>7. Deliver(p) => burned' = burned \/ (burned' = Burn(q.link) /\ q.link \notin burned)
  BY DEF Deliver
<1> QED
  BY <1>2, <1>3, <1>4, <1>5, <1>6, <1>7

\* The invariant of links and requests.
THEOREM ApprovalsInvariant == ApprovalsSpec => []ApprovalsInv
<1>1. ApprovalsInit => ApprovalsInv
  BY ApprovalsStart
<1>2. ApprovalsInv /\ [ApprovalsNext]_approvalVars => ApprovalsInv'
  BY ApprovalsQuiet, ApprovalsPosting DEF ApprovalsNext
<1> QED
  BY <1>1, <1>2, PTL DEF ApprovalsSpec

\* However many requests post it, and whatever is registered for its step
\* meanwhile, a link found in the register decides at most one gate
\* (Deliver, approver.go:141-148).
THEOREM LinksDecideOnce == ApprovalsSpec => []LinkDecidesOnce
  BY ApprovalsInvariant, PTL DEF ApprovalsInv

-----------------------------------------------------------------------------
(* McpServer                                                               *)

CallPlaces == {"new", "begun", "claimed", "bound", "waiting", "answered"}
RunPlaces == {"none", "spawned", "going", "dialog", "console", "returned", "detached", "freed", "over"}
UsesRunSlot(r) ==
    \/ callAt[r] \in {"claimed", "bound"}
    \/ runAt[r] \in {"spawned", "going", "dialog", "console", "returned", "detached"}
ExecUsers == {c \in ExecCalls : callAt[c] \in {"claimed", "waiting"}}

\* Where the calls and the runs are.
McpTyped ==
    /\ callAt \in [McpCalls -> CallPlaces]
    /\ runAt \in [RunCalls -> RunPlaces]
    /\ dialog \in [RunCalls -> Nat]
    /\ gatesLeft \in [RunCalls -> Int]
    /\ outboundSeq \in 0 .. MaxDialogs
    /\ replies \in [DialogIds -> [word : DialogWords \cup {"none"}, run : RunCalls \cup {NoCall}, gate : Int]]
    /\ sent \subseteq [id : 1 .. outboundSeq, run : RunCalls, gate : Int]

\* Before its goroutine is there, a call has no run.
NoRunBeforeCall ==
    \A r \in RunCalls : callAt[r] \in {"new", "begun", "claimed", "bound"} => runAt[r] = "none"

\* A number stands for one request; an answer carries what that request was
\* about; and a run that waits has sent the request it waits for, about the
\* gate it is at.
AnswersBelong ==
    /\ \A p, q \in sent : p.id = q.id => p = q
    /\ \A i \in DialogIds :
          replies[i] # NoReply => \E q \in sent : q.id = i /\ q.run = replies[i].run /\ q.gate = replies[i].gate
    /\ \A r \in RunCalls :
          runAt[r] = "dialog" => \E q \in sent : q.id = dialog[r] /\ q.run = r /\ q.gate = gatesLeft[r]

\* The slots: the one of the run, and those of the plugin calls.
McpSlots ==
    /\ runSlot \in RunCalls \cup {NoCall}
    /\ \A r \in RunCalls : runSlot = r <=> UsesRunSlot(r)
    /\ IsFiniteSet(ExecUsers) /\ execTaken = Cardinality(ExecUsers)

McpInv == McpTyped /\ NoRunBeforeCall /\ AnswersBelong /\ DialogDecidesItsGate

\* Nothing is sent at first.
LEMMA McpStart == McpInit => McpInv
<1> SUFFICES ASSUME McpInit PROVE McpInv
  OBVIOUS
<1>1. \A i \in DialogIds : replies[i] = NoReply
  BY DEF McpInit
<1>2. McpTyped
  <2>1. NoReply \in [word : DialogWords \cup {"none"}, run : RunCalls \cup {NoCall}, gate : Int]
    BY DEF NoReply
  <2> QED
    BY <2>1, McpAssumption DEF McpInit, McpTyped, CallPlaces, RunPlaces
<1> QED
  BY <1>1, <1>2 DEF McpInit, McpInv, NoRunBeforeCall, AnswersBelong, DialogDecidesItsGate

\* Steps after which every run is where it was, with the gates it had.
McpQuietStep ==
    \/ Initialize \/ CancelInflightEnds \/ UNCHANGED mcpVars
    \/ \E c \in McpCalls : ReadCall(c) \/ CancelInflight(c) \/ RefuseCall(c)
    \/ \E r \in RunCalls :
          CancelTool(r) \/ BindRun(r) \/ RunCallReturns(r) \/ CloseConsole(r) \/ DecideInConsole(r)
    \/ \E c \in ExecCalls : AcquireExec(c) \/ BindExec(c) \/ ExecReturns(c)

\* Such a step keeps the invariant.
LEMMA McpQuiet ==
    ASSUME McpInv, McpQuietStep
    PROVE  McpInv'
<1>1. UNCHANGED <<runAt, dialog, gatesLeft, outboundSeq, sent, replies, mixedUp>>
  BY DEF McpQuietStep, Initialize, CancelInflightEnds, mcpVars, ReadCall, CancelInflight, RefuseCall,
         CancelTool, BindRun, RunCallReturns, CloseConsole, DecideInConsole, AcquireExec, BindExec,
         ExecReturns, mcpCallVars, mcpGateVars, mcpRunVars
<1>2. \/ UNCHANGED callAt
      \/ \E c \in McpCalls, at \in CallPlaces :
            callAt' = [callAt EXCEPT ![c] = at] /\ (c \in RunCalls /\ at # "answered" => callAt[c] \in {"new", "claimed"} /\ at \in {"begun", "bound"})
  BY McpAssumption
     DEF McpQuietStep, Initialize, CancelInflightEnds, mcpVars, ReadCall, CancelInflight, RefuseCall,
         CancelTool, BindRun, RunCallReturns, CloseConsole, DecideInConsole, AcquireExec, BindExec,
         ExecReturns, EndCall, mcpCallVars, mcpGateVars, mcpRunVars, CallPlaces, McpCalls
<1>3. McpTyped' /\ NoRunBeforeCall'
  BY <1>1, <1>2 DEF McpInv, McpTyped, NoRunBeforeCall, McpCalls, CallPlaces
<1> QED
  BY <1>1, <1>3 DEF McpInv, AnswersBelong, DialogDecidesItsGate

\* A run that moves on, but not to a dialog.
McpMoveStep ==
    \E r \in RunCalls :
        \/ TakeRunSlot(r) \/ SpawnRun(r) \/ SetRunCancel(r) \/ ReachGateConsole(r) \/ DialogStops(r)
        \/ DialogFails(r) \/ HearConsole(r) \/ McpRunReturns(r) \/ DetachRun(r) \/ GiveRunSlot(r)
        \/ CloseDone(r)

\* A call or run that goes on keeps the invariant.
LEMMA McpGoesOn ==
    ASSUME McpInv, McpMoveStep
    PROVE  McpInv'
<1>1. PICK r \in RunCalls :
        \/ TakeRunSlot(r) \/ SpawnRun(r) \/ SetRunCancel(r) \/ ReachGateConsole(r) \/ DialogStops(r)
        \/ DialogFails(r) \/ HearConsole(r) \/ McpRunReturns(r) \/ DetachRun(r) \/ GiveRunSlot(r)
        \/ CloseDone(r)
  BY DEF McpMoveStep
<1>2. /\ McpTyped /\ UNCHANGED <<outboundSeq, sent, replies, mixedUp>>
      /\ r \in McpCalls
  BY <1>1 DEF McpInv, McpCalls, TakeRunSlot, SpawnRun, SetRunCancel, ReachGateConsole, DialogStops, DialogFails,
         HearConsole, McpRunReturns, DetachRun, GiveRunSlot, CloseDone, mcpCallVars, mcpGateVars, mcpRunVars
<1>3. /\ dialog' \in [RunCalls -> Nat] /\ gatesLeft' \in [RunCalls -> Int]
      /\ \A s \in RunCalls \ {r} : dialog'[s] = dialog[s] /\ gatesLeft'[s] = gatesLeft[s] /\ runAt'[s] = runAt[s]
      /\ runAt' \in [RunCalls -> RunPlaces]
      /\ runAt'[r] # "dialog"
  <2>1. CASE TakeRunSlot(r)
    <3>1. runAt[r] = "none" /\ UNCHANGED <<runAt, dialog>>
      BY <2>1 DEF TakeRunSlot, McpInv, NoRunBeforeCall
    <3>2. \E n \in 0 .. GateCount : gatesLeft' = [gatesLeft EXCEPT ![r] = n]
      BY <2>1 DEF TakeRunSlot
    <3> QED
      BY <1>2, <3>1, <3>2, McpAssumption DEF McpTyped
  <2>2. CASE \/ SpawnRun(r) \/ SetRunCancel(r) \/ ReachGateConsole(r) \/ McpRunReturns(r) \/ DetachRun(r)
             \/ GiveRunSlot(r) \/ CloseDone(r)
    BY <1>2, <2>2 DEF McpTyped, RunPlaces, SpawnRun, SetRunCancel, ReachGateConsole, McpRunReturns, DetachRun,
         GiveRunSlot, CloseDone, mcpGateVars
  <2>3. CASE DialogStops(r) \/ DialogFails(r) \/ HearConsole(r)
    <3>1. runAt' = [runAt EXCEPT ![r] = "going"] \/ runAt' = [runAt EXCEPT ![r] = "console"]
      BY <2>3 DEF DialogStops, DialogFails, HearConsole, LeaveGateTo
    <3>2. \/ UNCHANGED gatesLeft
          \/ gatesLeft' = [gatesLeft EXCEPT ![r] = 0]
          \/ gatesLeft' = [gatesLeft EXCEPT ![r] = @ - 1]
      BY <2>3 DEF DialogStops, DialogFails, HearConsole, LeaveGateTo
    <3>3. UNCHANGED dialog \/ dialog' = [dialog EXCEPT ![r] = 0]
      BY <2>3 DEF DialogStops, DialogFails, HearConsole
    <3> QED
      BY <1>2, <3>1, <3>2, <3>3 DEF McpTyped, RunPlaces
  <2> QED
    BY <1>1, <2>1, <2>2, <2>3
<1>4. callAt' \in [McpCalls -> CallPlaces] /\ NoRunBeforeCall'
  <2>1. CASE TakeRunSlot(r)
    BY <1>2, <2>1 DEF TakeRunSlot, McpInv, NoRunBeforeCall, McpTyped, CallPlaces, McpCalls
  <2>2. CASE SpawnRun(r)
    BY <1>2, <2>2 DEF SpawnRun, McpInv, NoRunBeforeCall, McpTyped, CallPlaces, McpCalls
  <2>3. CASE ~TakeRunSlot(r) /\ ~SpawnRun(r)
    <3>1. UNCHANGED callAt /\ runAt[r] # "none"
      BY <1>1, <2>3 DEF SetRunCancel, ReachGateConsole, DialogStops, DialogFails,
         HearConsole, McpRunReturns, DetachRun, GiveRunSlot, CloseDone, mcpCallVars
    <3> QED
      BY <1>2, <1>3, <3>1 DEF McpInv, NoRunBeforeCall, McpTyped, CallPlaces, McpCalls
  <2> QED
    BY <2>1, <2>2, <2>3
<1>5. McpTyped'
  BY <1>2, <1>3, <1>4 DEF McpTyped
<1>6. AnswersBelong'
  BY <1>2, <1>3 DEF McpInv, AnswersBelong
<1> QED
  BY <1>2, <1>4, <1>5, <1>6 DEF McpInv, DialogDecidesItsGate

\* A dialog gets a number that no request had before.
LEMMA McpAsks ==
    ASSUME McpInv, NEW r \in RunCalls, ReachGateDialog(r)
    PROVE  McpInv'
<1> DEFINE q == [id |-> NextNumber, run |-> r, gate |-> gatesLeft[r]]
<1>1. /\ McpTyped /\ NextNumber = outboundSeq + 1 /\ NextNumber \in DialogIds
      /\ outboundSeq \in Nat /\ MaxDialogs \in Nat
      /\ runAt[r] = "going"
      /\ sent' = sent \cup {q} /\ outboundSeq' = outboundSeq + 1
      /\ replies' = [replies EXCEPT ![NextNumber] = NoReply]
      /\ dialog' = [dialog EXCEPT ![r] = NextNumber]
      /\ runAt' = [runAt EXCEPT ![r] = "dialog"]
      /\ UNCHANGED <<callAt, gatesLeft, mixedUp>>
  BY McpAssumption DEF ReachGateDialog, McpInv, McpTyped, NextNumber, DialogIds, mcpCallVars
<1>2. /\ q.id = outboundSeq + 1 /\ q.run = r /\ q.gate = gatesLeft[r] /\ gatesLeft[r] \in Int
      /\ \A p \in sent : p \in [id : 1 .. outboundSeq, run : RunCalls, gate : Int] /\ p.id \in 1 .. outboundSeq
  BY <1>1 DEF McpTyped
<1>3. \A p \in sent : p.id # q.id
  BY <1>1, <1>2
<1>4. McpTyped'
  <2>1. NoReply \in [word : DialogWords \cup {"none"}, run : RunCalls \cup {NoCall}, gate : Int]
    BY DEF NoReply
  <2>2. sent' \subseteq [id : 1 .. outboundSeq', run : RunCalls, gate : Int]
    BY <1>1, <1>2
  <2>3. outboundSeq' \in 0 .. MaxDialogs
    BY <1>1 DEF DialogIds
  <2> HIDE DEF q
  <2> QED
    BY <1>1, <2>1, <2>2, <2>3 DEF McpTyped, RunPlaces
<1>5. AnswersBelong'
  <2>1. \A p, o \in sent' : p.id = o.id => p = o
    BY <1>1, <1>3 DEF McpInv, AnswersBelong
  <2>2. ASSUME NEW i \in DialogIds, replies'[i] # NoReply
        PROVE  \E o \in sent' : o.id = i /\ o.run = replies'[i].run /\ o.gate = replies'[i].gate
    <3>1. replies'[i] = replies[i]
      BY <1>1, <2>2 DEF McpTyped
    <3> QED
      BY <1>1, <2>2, <3>1 DEF McpInv, AnswersBelong
  <2>3. ASSUME NEW s \in RunCalls, runAt'[s] = "dialog"
        PROVE  \E o \in sent' : o.id = dialog'[s] /\ o.run = s /\ o.gate = gatesLeft'[s]
    <3>1. CASE s = r
      <4>1. dialog'[s] = NextNumber /\ q \in sent'
        BY <1>1, <3>1 DEF McpTyped
      <4> QED
        BY <1>1, <1>2, <3>1, <4>1
    <3>2. CASE s # r
      <4>1. dialog'[s] = dialog[s] /\ runAt'[s] = runAt[s]
        BY <1>1, <3>2 DEF McpTyped
      <4> QED
        BY <1>1, <2>3, <4>1 DEF McpInv, AnswersBelong
    <3> QED
      BY <3>1, <3>2
  <2> QED
    BY <2>1, <2>2, <2>3 DEF AnswersBelong
<1>6. NoRunBeforeCall'
  BY <1>1 DEF McpInv, McpTyped, NoRunBeforeCall
<1> QED
  BY <1>1, <1>4, <1>5, <1>6 DEF McpInv, DialogDecidesItsGate

\* What the client sends is kept with what its request was about.
LEMMA McpAnswers ==
    ASSUME McpInv, ClientAnswers
    PROVE  McpInv'
<1>1. PICK q \in sent, word \in DialogWords :
          replies' = [replies EXCEPT ![q.id] = [word |-> word, run |-> q.run, gate |-> q.gate]]
  BY DEF ClientAnswers
<1>2. /\ UNCHANGED <<callAt, runAt, dialog, gatesLeft, outboundSeq, sent, mixedUp>>
      /\ McpTyped
  BY DEF ClientAnswers, mcpCallVars, mcpRunVars, McpInv
<1>3. q \in [id : 1 .. outboundSeq, run : RunCalls, gate : Int]
  BY <1>2 DEF McpTyped
<1>4. [word |-> word, run |-> q.run, gate |-> q.gate]
          \in [word : DialogWords \cup {"none"}, run : RunCalls \cup {NoCall}, gate : Int]
  BY <1>3
<1>5. McpTyped'
  BY <1>1, <1>2, <1>4 DEF McpTyped
<1>6. AnswersBelong'
  <2>1. ASSUME NEW i \in DialogIds, replies'[i] # NoReply
        PROVE  \E o \in sent : o.id = i /\ o.run = replies'[i].run /\ o.gate = replies'[i].gate
    <3>1. CASE i = q.id
      BY <1>1, <1>2, <3>1 DEF McpTyped
    <3>2. CASE i # q.id
      BY <1>1, <1>2, <2>1, <3>2 DEF McpInv, McpTyped, AnswersBelong
    <3> QED
      BY <3>1, <3>2
  <2> QED
    BY <1>2, <2>1 DEF McpInv, AnswersBelong
<1> QED
  BY <1>2, <1>5, <1>6 DEF McpInv, NoRunBeforeCall, DialogDecidesItsGate

\* The answer a run hears is one to the request it waits for.
LEMMA McpHears ==
    ASSUME McpInv, NEW r \in RunCalls, HearDialog(r)
    PROVE  McpInv'
<1> DEFINE reply == replies[dialog[r]]
<1>1. /\ McpTyped /\ AnswersBelong /\ runAt[r] = "dialog"
      /\ reply.word \in {"accept", "decline", "cancel", "unknown"}
      /\ runAt' = [runAt EXCEPT ![r] = "going"]
      /\ gatesLeft' = [gatesLeft EXCEPT ![r] = IF r \in stopped THEN 0 ELSE @ - 1]
      /\ dialog' = [dialog EXCEPT ![r] = 0]
      /\ UNCHANGED <<callAt, outboundSeq, sent, replies>>
  BY DEF HearDialog, LeaveGateTo, McpInv, mcpCallVars
<1>2. PICK q \in sent : q.id = dialog[r] /\ q.run = r /\ q.gate = gatesLeft[r]
  BY <1>1 DEF AnswersBelong
<1>3. dialog[r] \in DialogIds
  BY <1>1, <1>2, McpAssumption DEF McpTyped, DialogIds
<1>4. reply # NoReply
  BY <1>1 DEF NoReply
<1>5. PICK p \in sent : p.id = dialog[r] /\ p.run = reply.run /\ p.gate = reply.gate
  BY <1>1, <1>3, <1>4 DEF AnswersBelong
<1>6. reply.run = r /\ reply.gate = gatesLeft[r]
  BY <1>1, <1>2, <1>5 DEF AnswersBelong
<1>7. UNCHANGED mixedUp
  BY <1>6 DEF HearDialog
<1>8. McpTyped' /\ NoRunBeforeCall'
  BY <1>1 DEF McpInv, McpTyped, NoRunBeforeCall, RunPlaces
<1>9. AnswersBelong'
  <2>1. runAt'[r] # "dialog"
        /\ \A s \in RunCalls \ {r} : runAt'[s] = runAt[s] /\ dialog'[s] = dialog[s] /\ gatesLeft'[s] = gatesLeft[s]
    BY <1>1 DEF McpTyped
  <2> QED
    BY <1>1, <2>1 DEF AnswersBelong
<1> QED
  BY <1>7, <1>8, <1>9 DEF McpInv, DialogDecidesItsGate

\* The invariant of requests and answers is inductive.
LEMMA McpKeeps ==
    ASSUME McpInv, [McpNext]_mcpVars
    PROVE  McpInv'
<1>1. ASSUME NEW r \in RunCalls,
             ReadCall(r) \/ CancelInflight(r) \/ CancelTool(r) \/ RunHandlerStep(r) \/ DecideInConsole(r)
      PROVE  McpQuietStep \/ McpMoveStep
  BY <1>1 DEF McpQuietStep, McpMoveStep, RunHandlerStep, McpCalls
<1>2. ASSUME NEW r \in RunCalls, McpRunStep(r) \/ DialogFails(r)
      PROVE  McpQuietStep \/ McpMoveStep \/ ReachGateDialog(r) \/ HearDialog(r)
  BY <1>2 DEF McpQuietStep, McpMoveStep, McpRunStep
<1>3. ASSUME NEW c \in ExecCalls, ReadCall(c) \/ CancelInflight(c) \/ ExecHandlerStep(c)
      PROVE  McpQuietStep
  BY <1>3 DEF McpQuietStep, ExecHandlerStep, McpCalls
<1>4. CASE Initialize \/ CancelInflightEnds \/ UNCHANGED mcpVars
  BY <1>4, McpQuiet DEF McpQuietStep
<1> QED
  BY <1>1, <1>2, <1>3, <1>4, McpQuiet, McpGoesOn, McpAsks, McpAnswers, McpHears
     DEF McpNext, RunCallsNext, ExecCallsNext

\* The invariant of numbers, requests and answers.
THEOREM McpInvariant == McpSpec => []McpInv
<1>1. McpInit => McpInv
  BY McpStart
<1>2. McpInv /\ [McpNext]_mcpVars => McpInv'
  BY McpKeeps
<1> QED
  BY <1>1, <1>2, PTL DEF McpSpec

\* However late an answer of the client comes, and whatever became of the gate
\* it was asked about, it decides that gate or none (deliverClientResponse,
\* elicit.go).
THEOREM AnswersDecideTheirGate == McpSpec => []DialogDecidesItsGate
  BY McpInvariant, PTL DEF McpInv

\* A plugin call takes a slot or gives it back.
LEMMA ExecSlots ==
    ASSUME McpInv, McpSlots, NEW c \in ExecCalls, NEW at \in CallPlaces,
           callAt' = [callAt EXCEPT ![c] = at],
           execTaken' = IF at \in {"claimed", "waiting"}
                        THEN IF c \in ExecUsers THEN execTaken ELSE execTaken + 1
                        ELSE IF c \in ExecUsers THEN execTaken - 1 ELSE execTaken
    PROVE  IsFiniteSet(ExecUsers') /\ execTaken' = Cardinality(ExecUsers')
<1>1. callAt \in [McpCalls -> CallPlaces] /\ c \in McpCalls
  BY DEF McpInv, McpTyped, McpCalls
<1>2. IsFiniteSet(ExecUsers) /\ execTaken = Cardinality(ExecUsers) /\ Cardinality(ExecUsers) \in Nat
  BY FS_CardinalityType DEF McpSlots
<1>3. CASE at \in {"claimed", "waiting"}
  <2>1. ExecUsers' = ExecUsers \cup {c}
    BY <1>1, <1>3 DEF ExecUsers, McpCalls
  <2> QED
    BY <1>2, <1>3, <2>1, FS_AddElement
<1>4. CASE at \notin {"claimed", "waiting"}
  <2>1. ExecUsers' = ExecUsers \ {c}
    BY <1>1, <1>4 DEF ExecUsers, McpCalls
  <2> QED
    BY <1>2, <1>4, <2>1, FS_RemoveElement
<1> QED
  BY <1>3, <1>4

\* Steps of a run's call and of its goroutine leave the plugin calls alone.
LEMMA ExecStays ==
    ASSUME McpInv, McpSlots, UNCHANGED execTaken,
           \/ UNCHANGED callAt
           \/ \E r \in RunCalls, at \in CallPlaces : callAt' = [callAt EXCEPT ![r] = at]
    PROVE  IsFiniteSet(ExecUsers') /\ execTaken' = Cardinality(ExecUsers')
<1>1. ExecUsers' = ExecUsers
  BY McpAssumption DEF ExecUsers, McpInv, McpTyped, McpCalls
<1> QED
  BY <1>1 DEF McpSlots

\* At the start no slot is taken.
LEMMA SlotsStart == McpInit => McpSlots
<1> SUFFICES ASSUME McpInit PROVE McpSlots
  OBVIOUS
<1>1. ExecUsers = {} /\ \A r \in RunCalls : ~UsesRunSlot(r)
  BY DEF McpInit, ExecUsers, UsesRunSlot, McpCalls
<1> QED
  BY <1>1, FS_EmptySet, McpAssumption DEF McpInit, McpSlots

\* A slot is taken and given back by the call that holds it.
LEMMA SlotsKeep ==
    ASSUME McpInv, McpSlots, [McpNext]_mcpVars
    PROVE  McpSlots'
<1>1. /\ callAt \in [McpCalls -> CallPlaces] /\ runAt \in [RunCalls -> RunPlaces]
      /\ \A r \in RunCalls : runSlot = r <=> UsesRunSlot(r)
      /\ runSlot \in RunCalls \cup {NoCall} /\ NoCall \notin RunCalls
      /\ RunCalls \subseteq McpCalls /\ ExecCalls \subseteq McpCalls /\ RunCalls \cap ExecCalls = {}
  BY McpAssumption DEF McpInv, McpTyped, McpSlots, McpCalls
<1>2. CASE Initialize \/ CancelInflightEnds \/ ClientAnswers \/ UNCHANGED mcpVars
  <2>1. UNCHANGED <<callAt, runAt, runSlot, execTaken>>
    BY <1>2 DEF Initialize, CancelInflightEnds, ClientAnswers, mcpVars, mcpCallVars, mcpRunVars
  <2> QED
    BY <1>1, <2>1, ExecStays DEF McpSlots, UsesRunSlot
<1>3. ASSUME NEW r \in RunCalls,
             \/ ReadCall(r) \/ CancelInflight(r) \/ CancelTool(r) \/ RefuseCall(r) \/ BindRun(r)
             \/ RunCallReturns(r) \/ DecideInConsole(r)
      PROVE  McpSlots'
  <2>1. /\ UNCHANGED <<runAt, runSlot, execTaken>>
        /\ \/ UNCHANGED callAt
           \/ \E at \in CallPlaces :
                 /\ callAt' = [callAt EXCEPT ![r] = at]
                 /\ at \in {"claimed", "bound"} <=> callAt[r] \in {"claimed", "bound"}
    BY <1>3 DEF ReadCall, CancelInflight, CancelTool, RefuseCall, BindRun, RunCallReturns, DecideInConsole,
         EndCall, CallPlaces, mcpCallVars, mcpRunVars
  <2>2. \A s \in RunCalls : UsesRunSlot(s)' <=> UsesRunSlot(s)
    BY <1>1, <2>1 DEF UsesRunSlot
  <2>3. IsFiniteSet(ExecUsers') /\ execTaken' = Cardinality(ExecUsers')
    BY <2>1, ExecStays
  <2> QED
    BY <1>1, <2>1, <2>2, <2>3 DEF McpSlots
<1>4. ASSUME NEW r \in RunCalls, TakeRunSlot(r)
      PROVE  McpSlots'
  <2>1. /\ runSlot = NoCall /\ runSlot' = r /\ callAt' = [callAt EXCEPT ![r] = "claimed"]
        /\ UNCHANGED <<runAt, execTaken>> /\ "claimed" \in CallPlaces
    BY <1>4 DEF TakeRunSlot, CallPlaces
  <2>2. \A s \in RunCalls : UsesRunSlot(s)' <=> s = r
    BY <1>1, <2>1 DEF UsesRunSlot
  <2>3. IsFiniteSet(ExecUsers') /\ execTaken' = Cardinality(ExecUsers')
    BY <2>1, ExecStays
  <2> QED
    BY <1>1, <2>1, <2>2, <2>3 DEF McpSlots
<1>5. ASSUME NEW r \in RunCalls, SpawnRun(r)
      PROVE  McpSlots'
  <2>1. /\ callAt[r] = "bound" /\ callAt' = [callAt EXCEPT ![r] = "waiting"]
        /\ runAt' = [runAt EXCEPT ![r] = "spawned"]
        /\ UNCHANGED <<runSlot, execTaken>> /\ "waiting" \in CallPlaces
    BY <1>5 DEF SpawnRun, CallPlaces
  <2>2. \A s \in RunCalls : UsesRunSlot(s)' <=> UsesRunSlot(s)
    BY <1>1, <2>1 DEF UsesRunSlot
  <2>3. IsFiniteSet(ExecUsers') /\ execTaken' = Cardinality(ExecUsers')
    BY <2>1, ExecStays
  <2> QED
    BY <1>1, <2>1, <2>2, <2>3 DEF McpSlots
<1>6. ASSUME NEW r \in RunCalls, (McpRunStep(r) \/ DialogFails(r)) /\ ~GiveRunSlot(r)
      PROVE  McpSlots'
  <2> DEFINE Holding == {"spawned", "going", "dialog", "console", "returned", "detached"}
  <2>1. /\ UNCHANGED <<callAt, runSlot, execTaken>>
        /\ \/ UNCHANGED runAt
           \/ \E at \in RunPlaces :
                 runAt' = [runAt EXCEPT ![r] = at] /\ (at \in Holding <=> runAt[r] \in Holding)
    <3>1. CASE SetRunCancel(r) \/ ReachGateDialog(r) \/ ReachGateConsole(r)
      BY <3>1 DEF SetRunCancel, ReachGateDialog, ReachGateConsole, RunPlaces, mcpCallVars
    <3>2. CASE HearDialog(r) \/ DialogStops(r) \/ HearConsole(r) \/ DialogFails(r)
      BY <3>2 DEF HearDialog, DialogStops, HearConsole, DialogFails, LeaveGateTo, RunPlaces, mcpCallVars
    <3>3. CASE CloseConsole(r) \/ McpRunReturns(r) \/ DetachRun(r) \/ CloseDone(r)
      BY <3>3 DEF CloseConsole, McpRunReturns, DetachRun, CloseDone, RunPlaces, mcpCallVars, mcpRunVars
    <3> QED
      BY <1>6, <3>1, <3>2, <3>3 DEF McpRunStep
  <2>2. \A s \in RunCalls : UsesRunSlot(s)' <=> UsesRunSlot(s)
    BY <1>1, <2>1 DEF UsesRunSlot
  <2>3. IsFiniteSet(ExecUsers') /\ execTaken' = Cardinality(ExecUsers')
    BY <2>1, ExecStays
  <2> QED
    BY <1>1, <2>1, <2>2, <2>3 DEF McpSlots
<1>7. ASSUME NEW r \in RunCalls, GiveRunSlot(r)
      PROVE  McpSlots'
  <2>1. /\ runAt[r] = "detached" /\ runAt' = [runAt EXCEPT ![r] = "freed"] /\ runSlot' = NoCall
        /\ UNCHANGED <<callAt, execTaken>>
    BY <1>7 DEF GiveRunSlot, mcpCallVars
  <2>2. runSlot = r /\ callAt[r] \notin {"claimed", "bound"}
    BY <1>1, <2>1 DEF UsesRunSlot, McpInv, NoRunBeforeCall
  <2>3. \A s \in RunCalls : ~UsesRunSlot(s)'
    BY <1>1, <2>1, <2>2 DEF UsesRunSlot
  <2>4. IsFiniteSet(ExecUsers') /\ execTaken' = Cardinality(ExecUsers')
    BY <2>1, ExecStays
  <2> QED
    BY <1>1, <2>1, <2>3, <2>4 DEF McpSlots
<1>8. ASSUME NEW c \in ExecCalls,
             \/ ReadCall(c) \/ CancelInflight(c) \/ RefuseCall(c) \/ AcquireExec(c) \/ BindExec(c)
             \/ ExecReturns(c)
      PROVE  McpSlots'
  <2>1. UNCHANGED <<runAt, runSlot>>
    BY <1>8 DEF ReadCall, CancelInflight, RefuseCall, AcquireExec, BindExec, ExecReturns, mcpRunVars
  <2>2. CASE CancelInflight(c)
    BY <1>1, <2>1, <2>2, ExecStays DEF CancelInflight, McpSlots, UsesRunSlot
  <2>3. CASE ~CancelInflight(c)
    <3>1. \E at \in CallPlaces :
             /\ callAt' = [callAt EXCEPT ![c] = at]
             /\ execTaken' = IF at \in {"claimed", "waiting"}
                             THEN IF c \in ExecUsers THEN execTaken ELSE execTaken + 1
                             ELSE IF c \in ExecUsers THEN execTaken - 1 ELSE execTaken
      <4>1. CASE ReadCall(c)
        BY <4>1 DEF ReadCall, ExecUsers, CallPlaces
      <4>2. CASE RefuseCall(c)
        BY <4>2 DEF RefuseCall, EndCall, ExecUsers, CallPlaces
      <4>3. CASE AcquireExec(c)
        BY <4>3 DEF AcquireExec, ExecUsers, CallPlaces
      <4>4. CASE BindExec(c)
        BY <4>4 DEF BindExec, ExecUsers, CallPlaces
      <4>5. CASE ExecReturns(c)
        BY <4>5 DEF ExecReturns, EndCall, ExecUsers, CallPlaces
      <4> QED
        BY <1>8, <2>3, <4>1, <4>2, <4>3, <4>4, <4>5
    <3>2. IsFiniteSet(ExecUsers') /\ execTaken' = Cardinality(ExecUsers')
      BY <3>1, ExecSlots
    <3>3. \A s \in RunCalls : callAt'[s] = callAt[s]
      BY <1>1, <3>1
    <3> QED
      BY <1>1, <2>1, <3>2, <3>3 DEF McpSlots, UsesRunSlot
  <2> QED
    BY <2>2, <2>3
<1> QED
  BY <1>2, <1>3, <1>4, <1>5, <1>6, <1>7, <1>8
     DEF McpNext, RunCallsNext, ExecCallsNext, RunHandlerStep, ExecHandlerStep, McpRunStep

\* What is left of the type.
McpSmall ==
    /\ runCancels \subseteq RunCalls /\ told \subseteq McpCalls
    /\ \A r \in RunCalls : console[r] \in {"idle", "decided", "closed", "shut"}
    /\ console = [r \in RunCalls |-> console[r]]

\* Cancel functions, cancelled calls and consoles keep their types.
LEMMA SmallKeeps ==
    ASSUME McpSmall, [McpNext]_mcpVars
    PROVE  McpSmall'
<1>1. /\ told' \subseteq McpCalls
      /\ runCancels' \subseteq RunCalls
  BY DEF McpSmall, McpNext, RunCallsNext, ExecCallsNext, Initialize, CancelInflightEnds, ClientAnswers, ReadCall,
       CancelInflight, CancelTool, RunHandlerStep, RefuseCall, TakeRunSlot, BindRun, SpawnRun, RunCallReturns,
       McpRunStep, SetRunCancel, ReachGateDialog, ReachGateConsole, HearDialog, DialogStops, CloseConsole,
       HearConsole, McpRunReturns, DetachRun, GiveRunSlot, CloseDone, DialogFails, DecideInConsole,
       ExecHandlerStep, AcquireExec, BindExec, ExecReturns, mcpVars, mcpCallVars, mcpRunVars, McpCalls
<1>2. \/ UNCHANGED console
      \/ \E r \in RunCalls, word \in {"idle", "decided", "closed", "shut"} : console' = [console EXCEPT ![r] = word]
  BY DEF McpNext, RunCallsNext, ExecCallsNext, Initialize, CancelInflightEnds, ClientAnswers, ReadCall,
       CancelInflight, CancelTool, RunHandlerStep, RefuseCall, TakeRunSlot, BindRun, SpawnRun, RunCallReturns,
       McpRunStep, SetRunCancel, ReachGateDialog, ReachGateConsole, HearDialog, DialogStops, CloseConsole,
       HearConsole, McpRunReturns, DetachRun, GiveRunSlot, CloseDone, DialogFails, DecideInConsole,
       ExecHandlerStep, AcquireExec, BindExec, ExecReturns, mcpVars, mcpCallVars, mcpRunVars, mcpGateVars
<1> QED
  BY <1>1, <1>2 DEF McpSmall

\* They have their types at the start.
LEMMA SmallStart == McpInit => McpSmall
  BY DEF McpInit, McpSmall

\* The three invariants of the MCP server imply its type.
LEMMA McpIsTyped == McpInv /\ McpSlots /\ McpSmall => McpTypeOK
  BY DEF McpInv, McpTyped, McpSlots, McpSmall, McpTypeOK, UsesRunSlot, ExecUsers

\* The run slot belongs to the call or the run that is using it from toolRun
\* to the deferred hand-back, and as many slots of exec_plugin are taken as
\* calls hold one, refused, cancelled or failed ones included.
THEOREM McpSlotsAreHeld == McpSpec => []McpTypeOK
<1>1. McpInit => McpInv /\ McpSlots /\ McpSmall
  BY McpStart, SlotsStart, SmallStart
<1>2. McpInv /\ McpSlots /\ McpSmall /\ [McpNext]_mcpVars => (McpInv /\ McpSlots /\ McpSmall)'
  BY McpKeeps, SlotsKeep, SmallKeeps
<1> QED
  BY <1>1, <1>2, McpIsTyped, PTL DEF McpSpec

-----------------------------------------------------------------------------
(* WebAccess                                                               *)

Codes == [id : 0 .. MaxCodes, used : BOOLEAN, expires : Int, failures : Nat, blockedUntil : Nat]
Guesses == [n : Nat, at : Nat]

\* The guesses since the last lockout ended, and those of a stretch of time.
FreshGuesses == {g \in guesses : g.at >= code.blockedUntil}
GuessesFrom(t) == {g \in guesses : g.at >= t /\ g.at < t + Lockout}

WebTyped ==
    /\ options \in ListenOptions
    /\ code \in Codes
    /\ tokens \in Nat /\ time \in 0 .. MaxTime
    /\ guesses \subseteq Guesses /\ IsFiniteSet(guesses)

\* Guesses that a lockout followed are a lockout older than its end; those
\* since are no more than the count says, and the count never gets full.
CountIsRight ==
    /\ code.failures < MaxFailures
    /\ \A g \in guesses : /\ g.at <= time
                          /\ g.at < code.blockedUntil => g.at + Lockout <= code.blockedUntil
    /\ Cardinality(FreshGuesses) <= code.failures

WindowsAreSmall == \A t \in Int : Cardinality(GuessesFrom(t)) <= MaxFailures

\* A code that made a session is used up, and codes are numbered.
CodesAreSpent ==
    /\ codes = code.id
    /\ code.id = 0 => code.expires < 0
    /\ \A a \in taken : /\ a.code \in Nat /\ a.code <= code.id
                        /\ a.code = code.id => code.used
    /\ \A a, b \in taken : a.code = b.code => a = b

\* The sessions there are: few, made by now, and each with a token of its own.
SessionsAreFew ==
    /\ IsFiniteSet(sessions) /\ Cardinality(sessions) <= MaxSessions
    /\ \A s \in sessions : /\ s.token \in 1 .. tokens
                           /\ s.created \in Nat /\ s.created <= time
                           /\ s.expires = s.created + SessionTTL

WebInv == WebTyped /\ CountIsRight /\ WindowsAreSmall /\ CodesAreSpent /\ SessionsAreFew

\* At the start no guess was made and nobody is logged in.
LEMMA WebStart == WebInit => WebInv
<1> SUFFICES ASSUME WebInit PROVE WebInv
  OBVIOUS
<1>1. /\ options \in ListenOptions /\ sessions = {} /\ tokens = 0 /\ time = 0 /\ guesses = {} /\ taken = {}
      /\ code = IF options.noSession THEN NoCode ELSE FreshCode(1, 0)
      /\ codes = IF options.noSession THEN 0 ELSE 1
  BY WebAssumption DEF WebInit
<1>2. /\ NoCode \in Codes /\ NoCode.id = 0 /\ NoCode.expires = -1 /\ NoCode.failures = 0 /\ NoCode.blockedUntil = 0
  <2>1. /\ FreshCode(0, 0) \in Codes /\ FreshCode(0, 0).id = 0 /\ FreshCode(0, 0).failures = 0
        /\ FreshCode(0, 0).blockedUntil = 0
    BY WebAssumption DEF FreshCode, Codes
  <2>2. -1 \in Int
    OBVIOUS
  <2> QED
    BY <2>1, <2>2 DEF NoCode, Codes
<1>3. /\ FreshCode(1, 0) \in Codes /\ FreshCode(1, 0).id = 1 /\ FreshCode(1, 0).failures = 0
      /\ FreshCode(1, 0).blockedUntil = 0
  BY WebAssumption DEF FreshCode, Codes
<1>4. /\ code \in Codes /\ code.id = codes /\ code.failures = 0 /\ code.blockedUntil = 0
      /\ code.id = 0 => code.expires < 0
  BY <1>1, <1>2, <1>3
<1>5. IsFiniteSet({}) /\ Cardinality({}) = 0
  BY FS_EmptySet
<1>6. FreshGuesses = {} /\ \A t \in Int : GuessesFrom(t) = {}
  BY <1>1 DEF FreshGuesses, GuessesFrom
<1> QED
  BY <1>1, <1>4, <1>5, <1>6, WebAssumption
     DEF WebInv, WebTyped, CountIsRight, WindowsAreSmall, CodesAreSpent, SessionsAreFew

\* Adding an element to a set makes it at most one larger.
LEMMA OneMore ==
    ASSUME NEW S, NEW e, NEW T, IsFiniteSet(S), T \subseteq S \cup {e}
    PROVE  /\ IsFiniteSet(T) /\ Cardinality(T) \in Nat /\ Cardinality(S) \in Nat
           /\ Cardinality(T) <= Cardinality(S) + 1
<1>1. /\ IsFiniteSet(S \cup {e}) /\ Cardinality(S) \in Nat
      /\ Cardinality(S \cup {e}) = Cardinality(S) \/ Cardinality(S \cup {e}) = Cardinality(S) + 1
  BY FS_AddElement, FS_CardinalityType
<1>2. IsFiniteSet(T) /\ Cardinality(T) <= Cardinality(S \cup {e}) /\ Cardinality(T) \in Nat
  BY <1>1, FS_Subset, FS_CardinalityType
<1> QED
  BY <1>1, <1>2

\* A wrong code is counted, and the count that gets full locks and starts anew.
LEMMA WrongCode ==
    ASSUME WebTyped, CountIsRight, WindowsAreSmall,
           Alive(code, time), UNCHANGED time,
           code' = FailCode(code, time),
           guesses' = guesses \cup {[n |-> Cardinality(guesses) + 1, at |-> time]}
    PROVE  /\ code' \in Codes /\ guesses' \subseteq Guesses /\ IsFiniteSet(guesses')
           /\ code'.id = code.id /\ code'.used = code.used /\ code'.expires = code.expires
           /\ CountIsRight' /\ WindowsAreSmall'
<1> DEFINE g0 == [n |-> Cardinality(guesses) + 1, at |-> time]
<1>1. /\ code \in Codes /\ time \in Nat /\ guesses \subseteq Guesses /\ IsFiniteSet(guesses)
      /\ Cardinality(guesses) \in Nat
      /\ code.failures \in Nat /\ code.blockedUntil \in Nat /\ code.blockedUntil <= time
      /\ code.failures < MaxFailures /\ MaxFailures \in Nat /\ Lockout \in Nat /\ Lockout > 0
  BY FS_CardinalityType, WebAssumption DEF WebTyped, CountIsRight, Codes, Alive
<1>2. /\ g0 \in Guesses /\ g0.at = time
      /\ \A g \in guesses : g.at \in Nat /\ g.at <= time
  BY <1>1 DEF Guesses, CountIsRight
<1>3. guesses' \subseteq Guesses /\ IsFiniteSet(guesses')
  BY <1>1, <1>2, FS_AddElement
<1>4. IsFiniteSet(FreshGuesses) /\ Cardinality(FreshGuesses) \in Nat /\ Cardinality(FreshGuesses) <= code.failures
  BY <1>1, FS_Subset, FS_CardinalityType DEF FreshGuesses, CountIsRight
<1> HIDE DEF g0
<1>5. /\ code' \in Codes /\ code'.id = code.id /\ code'.used = code.used /\ code'.expires = code.expires
      /\ IF code.failures + 1 >= MaxFailures
         THEN code'.failures = 0 /\ code'.blockedUntil = time + Lockout
         ELSE code'.failures = code.failures + 1 /\ code'.blockedUntil = code.blockedUntil
  <2>1. CASE code.failures + 1 >= MaxFailures
    <3> DEFINE until == time + Lockout
    <3>1. code' = [code EXCEPT !.failures = 0, !.blockedUntil = until] /\ until \in Nat
      BY <1>1, <2>1 DEF FailCode
    <3>2. code' \in Codes
      <4> HIDE DEF until
      <4>1. code \in Codes /\ 0 \in Nat
        BY <1>1
      <4> QED
        BY <3>1, <4>1 DEF Codes
    <3>3. /\ code'.id = code.id /\ code'.used = code.used /\ code'.expires = code.expires
          /\ code'.failures = 0 /\ code'.blockedUntil = time + Lockout
      BY <1>1, <3>1 DEF Codes
    <3> QED
      BY <2>1, <3>2, <3>3
  <2>2. CASE ~(code.failures + 1 >= MaxFailures)
    <3>1. code' = [code EXCEPT !.failures = @ + 1] /\ code.failures + 1 \in Nat
      BY <1>1, <2>2 DEF FailCode
    <3> QED
      BY <1>1, <2>2, <3>1 DEF Codes
  <2> QED
    BY <2>1, <2>2
<1>6. guesses' = guesses \cup {g0}
  BY DEF g0
<1>7. CountIsRight'
  <2>1. CASE code.failures + 1 >= MaxFailures
    <3>1. FreshGuesses' = {}
      BY <1>1, <1>2, <1>5, <1>6, <2>1 DEF FreshGuesses
    <3>2. \A g \in guesses' : g.at <= time' /\ g.at + Lockout <= code'.blockedUntil
      BY <1>1, <1>2, <1>5, <1>6, <2>1
    <3> QED
      BY <1>1, <1>5, <2>1, <3>1, <3>2, FS_EmptySet DEF CountIsRight
  <2>2. CASE ~(code.failures + 1 >= MaxFailures)
    <3>1. FreshGuesses' \subseteq FreshGuesses \cup {g0}
      BY <1>5, <1>6, <2>2 DEF FreshGuesses
    <3>2. Cardinality(FreshGuesses') <= code.failures + 1
      <4>1. Cardinality(FreshGuesses') <= Cardinality(FreshGuesses) + 1 /\ Cardinality(FreshGuesses') \in Nat
        BY <1>4, <3>1, OneMore
      <4> QED
        BY <1>1, <1>4, <4>1
    <3>3. \A g \in guesses' : g.at <= time' /\ (g.at < code'.blockedUntil => g.at + Lockout <= code'.blockedUntil)
      BY <1>1, <1>2, <1>5, <1>6, <2>2 DEF CountIsRight
    <3> QED
      BY <1>1, <1>5, <2>2, <3>2, <3>3 DEF CountIsRight
  <2> QED
    BY <2>1, <2>2
<1>8. ASSUME NEW t \in Int
      PROVE  Cardinality(GuessesFrom(t)') <= MaxFailures
  <2>1. CASE t <= time /\ time < t + Lockout
    <3>1. GuessesFrom(t)' \subseteq FreshGuesses \cup {g0}
      BY <1>1, <1>2, <1>6, <2>1 DEF GuessesFrom, FreshGuesses, CountIsRight
    <3> QED
      <4>1. Cardinality(GuessesFrom(t)') <= Cardinality(FreshGuesses) + 1 /\ Cardinality(GuessesFrom(t)') \in Nat
        BY <1>4, <3>1, OneMore
      <4> QED
        BY <1>1, <1>4, <4>1
  <2>2. CASE ~(t <= time /\ time < t + Lockout)
    <3>1. GuessesFrom(t)' = GuessesFrom(t)
      BY <1>1, <1>2, <1>6, <2>2 DEF GuessesFrom
    <3> QED
      BY <3>1 DEF WindowsAreSmall
  <2> QED
    BY <2>1, <2>2
<1>9. WindowsAreSmall'
  BY <1>8 DEF WindowsAreSmall
<1> QED
  BY <1>3, <1>5, <1>7, <1>9

\* The smaller of two numbers.
LEMMA MinOfTwo ==
    ASSUME NEW a \in Nat, NEW b \in Nat
    PROVE  Min({a, b}) = IF a <= b THEN a ELSE b
<1> DEFINE m == IF a <= b THEN a ELSE b
<1>1. m \in {a, b} /\ \A y \in {a, b} : m <= y
  OBVIOUS
<1>2. \A x \in {a, b} : (\A y \in {a, b} : x <= y) => x = m
  OBVIOUS
<1> QED
  BY <1>1, <1>2 DEF Min

\* A new session takes a free place, or the place of the oldest ones.
LEMMA MintedSessions ==
    ASSUME SessionsAreFew, tokens \in Nat, time \in Nat,
           sessions' \in Mint(time), tokens' = tokens + 1, UNCHANGED time
    PROVE  /\ SessionsAreFew'
           /\ \A s \in sessions \ sessions' :
                 time <= s.expires => /\ Cardinality(sessions') = MaxSessions
                                      /\ \A t \in sessions' : s.created <= t.created
<1> DEFINE new == [token |-> tokens + 1, created |-> time, expires |-> time + SessionTTL]
           live == LiveSessions(time)
<1>1. /\ live \subseteq sessions /\ IsFiniteSet(live) /\ Cardinality(live) \in Nat
      /\ MaxSessions - 1 \in Nat /\ MaxSessions \in Nat /\ SessionTTL \in Nat
  BY FS_Subset, FS_CardinalityType, WebAssumption DEF LiveSessions, SessionsAreFew
<1>2. PICK kept \in SUBSET live :
         /\ Cardinality(kept) = Min({Cardinality(live), MaxSessions - 1})
         /\ \A s \in kept, t \in live \ kept : t.created <= s.created
         /\ sessions' = kept \cup {new}
  BY DEF Mint
<1>3. /\ IsFiniteSet(kept) /\ Cardinality(kept) \in Nat
      /\ Cardinality(kept) = IF Cardinality(live) <= MaxSessions - 1 THEN Cardinality(live) ELSE MaxSessions - 1
  BY <1>1, <1>2, FS_Subset, FS_CardinalityType, MinOfTwo
<1>4. new \notin kept /\ new.token = tokens + 1 /\ new.created = time /\ new.expires = time + SessionTTL
  BY <1>1, <1>2 DEF SessionsAreFew
<1> HIDE DEF new, live
<1>5. IsFiniteSet(sessions') /\ Cardinality(sessions') = Cardinality(kept) + 1
  BY <1>2, <1>3, <1>4, FS_AddElement
<1>6. SessionsAreFew'
  BY <1>1, <1>2, <1>3, <1>4, <1>5 DEF SessionsAreFew
<1>7. ASSUME NEW s \in sessions \ sessions', time <= s.expires
      PROVE  /\ Cardinality(sessions') = MaxSessions
             /\ \A t \in sessions' : s.created <= t.created
  <2>1. s \in live \ kept
    BY <1>2, <1>7 DEF live, LiveSessions
  <2>2. Cardinality(kept) # Cardinality(live)
    BY <1>1, <1>2, <2>1, FS_Subset
  <2>3. Cardinality(sessions') = MaxSessions
    BY <1>1, <1>3, <1>5, <2>2
  <2>4. \A t \in sessions' : s.created <= t.created
    BY <1>2, <1>4, <1>7, <2>1 DEF SessionsAreFew
  <2> QED
    BY <2>3, <2>4
<1> QED
  BY <1>6, <1>7

\* A code is exchanged, refused or found wrong.
LEMMA ExchangeKeeps ==
    ASSUME WebInv, NEW given, Exchange(given), UNCHANGED <<options, codes, time>>
    PROVE  /\ WebInv'
           /\ \A s \in sessions \ sessions' :
                 time <= s.expires => /\ Cardinality(sessions') = MaxSessions
                                      /\ \A t \in sessions' : s.created <= t.created
<1> USE DEF WebInv
<1>1. CASE UNCHANGED <<code, sessions, tokens, guesses, taken>>
  BY <1>1 DEF WebTyped, CountIsRight, WindowsAreSmall, CodesAreSpent, SessionsAreFew, FreshGuesses, GuessesFrom
<1>2. CASE /\ Alive(code, time) /\ code' = FailCode(code, time)
           /\ guesses' = guesses \cup {[n |-> Cardinality(guesses) + 1, at |-> time]}
           /\ UNCHANGED <<sessions, tokens, taken>>
  <2>1. /\ code' \in Codes /\ guesses' \subseteq Guesses /\ IsFiniteSet(guesses')
        /\ code'.id = code.id /\ code'.used = code.used /\ code'.expires = code.expires
        /\ CountIsRight' /\ WindowsAreSmall'
    BY <1>2, WrongCode
  <2> QED
    BY <1>2, <2>1 DEF WebTyped, CodesAreSpent, SessionsAreFew
<1>3. CASE /\ Alive(code, time) /\ given = code.id
           /\ sessions' \in Mint(time) /\ tokens' = tokens + 1
           /\ code' = [code EXCEPT !.used = TRUE]
           /\ taken' = taken \cup {[token |-> tokens + 1, code |-> given]}
           /\ UNCHANGED guesses
  <2>1. /\ code \in Codes /\ tokens \in Nat /\ time \in Nat
    BY DEF WebTyped
  <2>2. /\ code' \in Codes /\ code'.used /\ code'.id = code.id /\ code'.expires = code.expires
        /\ code'.failures = code.failures /\ code'.blockedUntil = code.blockedUntil
    BY <1>3, <2>1 DEF Codes
  <2>3. /\ SessionsAreFew'
        /\ \A s \in sessions \ sessions' :
              time <= s.expires => /\ Cardinality(sessions') = MaxSessions
                                   /\ \A t \in sessions' : s.created <= t.created
    BY <1>3, <2>1, MintedSessions
  <2>4. CountIsRight' /\ WindowsAreSmall'
    BY <1>3, <2>2 DEF CountIsRight, WindowsAreSmall, FreshGuesses, GuessesFrom
  <2>5. CodesAreSpent'
    <3>1. \A a \in taken : a.code # code.id
      BY <1>3 DEF Alive, CodesAreSpent
    <3>2. code.id \in Nat
      BY <2>1, WebAssumption DEF Codes
    <3> QED
      BY <1>3, <2>2, <3>1, <3>2 DEF CodesAreSpent
  <2> QED
    BY <1>3, <2>1, <2>2, <2>3, <2>4, <2>5 DEF WebTyped
<1> QED
  BY <1>1, <1>2, <1>3 DEF Exchange

\* A session that is looked up is dropped only when it has expired.
LEMMA LookUpKeeps ==
    ASSUME WebInv, NEW q, LookUp(q), UNCHANGED <<options, codes, time>>
    PROVE  WebInv' /\ \A s \in sessions \ sessions' : ~(time <= s.expires)
<1>1. sessions' \subseteq sessions /\ UNCHANGED <<code, tokens, guesses, taken>>
  BY DEF LookUp
<1>2. IsFiniteSet(sessions') /\ Cardinality(sessions') <= Cardinality(sessions)
      /\ Cardinality(sessions) \in Nat /\ Cardinality(sessions') \in Nat
  BY <1>1, FS_Subset, FS_CardinalityType DEF WebInv, SessionsAreFew
<1>3. SessionsAreFew'
  BY <1>1, <1>2, WebAssumption DEF WebInv, SessionsAreFew
<1>4. \A s \in sessions \ sessions' : ~(time <= s.expires)
  BY DEF LookUp
<1> QED
  BY <1>1, <1>3, <1>4
     DEF WebInv, WebTyped, CountIsRight, WindowsAreSmall, CodesAreSpent, FreshGuesses, GuessesFrom

\* A new code in the terminal, and time.
LEMMA WebQuiet ==
    ASSUME WebInv, Rotate \/ Tick \/ UNCHANGED webVars
    PROVE  WebInv' /\ UNCHANGED sessions
<1>1. CASE Rotate
  <2>1. /\ code' = FreshCode(codes + 1, time) /\ codes' = codes + 1 /\ guesses' = {}
        /\ UNCHANGED <<options, sessions, tokens, time, taken>>
        /\ codes < MaxCodes /\ codes \in Nat /\ codes = code.id /\ time \in Nat /\ MaxCodes \in Nat
    BY <1>1, WebAssumption DEF Rotate, WebInv, WebTyped, CodesAreSpent, Codes
  <2>2. /\ code' \in Codes /\ code'.id = codes + 1 /\ code'.failures = 0 /\ code'.blockedUntil = 0
    BY <2>1, WebAssumption DEF FreshCode, Codes
  <2>3. FreshGuesses' = {} /\ \A t \in Int : GuessesFrom(t)' = {}
    BY <2>1 DEF FreshGuesses, GuessesFrom
  <2>4. CountIsRight' /\ WindowsAreSmall'
    BY <2>1, <2>2, <2>3, FS_EmptySet, WebAssumption DEF CountIsRight, WindowsAreSmall
  <2>5. CodesAreSpent'
    BY <2>1, <2>2 DEF WebInv, CodesAreSpent
  <2> QED
    BY <2>1, <2>2, <2>4, <2>5, FS_EmptySet DEF WebInv, WebTyped, SessionsAreFew
<1>2. CASE Tick
  <2>1. /\ time' = time + 1 /\ time \in Nat /\ time' \in 0 .. MaxTime
        /\ UNCHANGED <<options, code, sessions, tokens, codes, guesses, taken>>
    BY <1>2, WebAssumption DEF Tick, WebInv, WebTyped
  <2>2. \A g \in guesses : g.at \in Nat
    BY DEF WebInv, WebTyped, Guesses
  <2> QED
    BY <2>1, <2>2 DEF WebInv, WebTyped, CountIsRight, WindowsAreSmall, CodesAreSpent, SessionsAreFew,
          FreshGuesses, GuessesFrom
<1>3. CASE UNCHANGED webVars
  BY <1>3 DEF webVars, WebInv, WebTyped, CountIsRight, WindowsAreSmall, CodesAreSpent, SessionsAreFew,
          FreshGuesses, GuessesFrom
<1> QED
  BY <1>1, <1>2, <1>3 DEF Tick, Rotate, webVars

\* What a step may do to the sessions.
EvictsOldest ==
    \A s \in sessions \ sessions' :
        time <= s.expires =>
            /\ Cardinality(sessions') = MaxSessions
            /\ \A t \in sessions' : s.created <= t.created

\* The invariant of guesses and sessions is inductive, and what is evicted is the oldest.
LEMMA WebKeeps ==
    ASSUME WebInv, [WebNext]_webVars
    PROVE  WebInv' /\ EvictsOldest
<1>1. ASSUME NEW q \in Requests, ServeRequest(q)
      PROVE  WebInv' /\ EvictsOldest
  BY <1>1, ExchangeKeeps, LookUpKeeps DEF ServeRequest, EvictsOldest
<1>2. CASE Rotate \/ Tick \/ UNCHANGED webVars
  BY <1>2, WebQuiet DEF EvictsOldest
<1> QED
  BY <1>1, <1>2 DEF WebNext

\* The invariant of pairing and sessions.
THEOREM WebInvariant == WebSpec => []WebInv
<1>1. WebInit => WebInv
  BY WebStart
<1>2. WebInv /\ [WebNext]_webVars => WebInv'
  BY WebKeeps
<1> QED
  BY <1>1, <1>2, PTL DEF WebSpec

\* No stretch of time shorter than the lockout sees more than MaxFailures wrong
\* codes judged against one code, although the count is reset with every
\* lockout, and a code makes at most one session (exchangePairingCode).
THEOREM GuessesStayLimited == WebSpec => []GuessesAreLimited
<1>1. WebInv => GuessesAreLimited
  BY WebAssumption DEF WebInv, WindowsAreSmall, GuessesFrom, CodesAreSpent, GuessesAreLimited
<1> QED
  BY <1>1, WebInvariant, PTL

\* There are never more sessions than maxSessions, each with a token and the
\* lifetime it was made with (mintSessionLocked).
THEOREM SessionsStayFew == WebSpec => []WebTypeOK
<1>1. WebInv => WebTypeOK
  <2>1. ASSUME WebInv
        PROVE  code \in [id : 0 .. MaxCodes, used : BOOLEAN, expires : Int, failures : 0 .. MaxFailures,
                         blockedUntil : Nat]
    BY <2>1, WebAssumption DEF WebInv, WebTyped, CountIsRight, Codes
  <2> QED
    BY <2>1 DEF WebInv, WebTyped, SessionsAreFew, WebTypeOK
<1> QED
  BY <1>1, WebInvariant, PTL

\* A session that is still good is dropped only for a new one that would not
\* fit, and it is one of the oldest (mintSessionLocked).
THEOREM OldestAreEvicted == WebSpec => OnlyOldestEvicted
<1>1. WebInv /\ [WebNext]_webVars => [EvictsOldest]_webVars
  BY WebKeeps
<1>2. WebSpec => [][EvictsOldest]_webVars
  BY <1>1, WebInvariant, PTL DEF WebSpec
<1> QED
  BY <1>2 DEF EvictsOldest, OnlyOldestEvicted

=============================================================================
