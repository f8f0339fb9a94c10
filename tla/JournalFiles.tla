---------------------------- MODULE JournalFiles ----------------------------
(***************************************************************************)
(* What is done with the files of runs while the runs go on                *)
(* (internal/journal/reader.go, store.go, prune.go): bounded reads of a    *)
(* growing journal by a client that polls with a cursor, and the runs      *)
(* directory with its index runs.db, which several processes read, change  *)
(* in memory and write back, and which a prune cleans.                     *)
(*                                                                         *)
(* A line of a journal is an event of some size, or blank (size 0). A      *)
(* limit of 0 is no limit. Directories are ordered by modification time,   *)
(* which is the length of the sequence of changes when they were touched.  *)
(***************************************************************************)
EXTENDS Integers, FiniteSets, Sequences

CONSTANTS
    Sizes,      \* sizes of events
    PollLimits, \* limits of the reads with a cursor: maxBytes, maxEvents
    TailLimits, \* limits of the reads of the end of a journal
    MaxLines,   \* bound on lines of the journal
    RunIds,     \* runs of the store
    KeepLast,   \* --keep-last of the prunes, 0 for none
    OldAge,     \* age, in changes, that --keep-days is in some of them
    MaxChanges  \* bound on changes of the runs directory

ASSUME JournalAssumption ==
    /\ Sizes \subseteq Nat \ {0}
    /\ PollLimits \in [maxBytes : Nat, maxEvents : Nat]
    /\ TailLimits \in [maxBytes : Nat, maxEvents : Nat]
    /\ KeepLast \in Nat /\ OldAge \in Nat /\ MaxChanges \in Nat

VARIABLES
    lines,   \* journal.jsonl: of each line its size and, as history, how many
             \* events end with it and how many bytes they have
    reading, \* the read under way: readEventWindow with its lineWindow
    cursor,  \* since of the client's next poll
    shown,   \* history: numbers of the events the client was given
    missed,  \* history: events that a poll read and dropped again
    window,  \* its result, until the next read: ReadResult
    touched, \* modification time of each run's directory, 0 for none
    changes, \* changes of the runs directory so far
    index,   \* runs listed in runs.db
    creator, \* what a process that creates a run has read of the index
    prune,   \* where the prune is, with what it listed, doomed, removed, read
    spared   \* history: runs created or touched since the prune listed

readVars == <<lines, reading, cursor, shown, missed, window>>
storeVars == <<touched, changes, index, creator, prune, spared>>
journalFileVars == <<lines, reading, cursor, shown, missed, window, touched, changes, index, creator, prune, spared>>

-----------------------------------------------------------------------------
(* EventsBounded: one bounded read at a time, line by line, while the       *)
(* process of the run goes on writing                                      *)

NoRead == [at |-> "none", tail |-> TRUE, since |-> 0, known |-> 0, scanned |-> 0,
           idx |-> 0, win |-> <<>>, bytes |-> 0]
NoWindow == [events |-> <<>>, total |-> 0, tail |-> TRUE, first |-> 0, next |-> 0, truncated |-> FALSE]

EventsAt(i) == IF i = 0 THEN 0 ELSE lines[i].events
BytesAt(i) == IF i = 0 THEN 0 ELSE lines[i].bytes
IsEvent(i) == lines[i].size # 0
Limits(tail) == IF tail THEN TailLimits ELSE PollLimits

\* lineWindow.full
IsFull ==
    LET limits == Limits(reading.tail) IN
    \/ limits.maxEvents > 0 /\ Len(reading.win) >= limits.maxEvents
    \/ limits.maxBytes > 0 /\ reading.bytes >= limits.maxBytes

\* Mutant: the window holds one event more.
RoomTooLate(size) ==
    LET limits == Limits(reading.tail) IN
    /\ limits.maxEvents > 0 => Len(reading.win) <= limits.maxEvents
    /\ limits.maxBytes > 0 /\ reading.win # <<>> => reading.bytes + size <= limits.maxBytes

\* What lineWindow.push drops old lines for; a line larger than the whole
\* budget goes into an empty window.
HasRoom(size) ==
    LET limits == Limits(reading.tail) IN
    /\ limits.maxEvents > 0 => Len(reading.win) < limits.maxEvents
    /\ limits.maxBytes > 0 /\ reading.win # <<>> => reading.bytes + size <= limits.maxBytes

EmitLine ==
    /\ Len(lines) < MaxLines
    /\ \E size \in Sizes \cup {0} :
          lines' = Append(lines, [size |-> size,
                                  events |-> EventsAt(Len(lines)) + (IF size = 0 THEN 0 ELSE 1),
                                  bytes |-> BytesAt(Len(lines)) + size])
    /\ UNCHANGED <<reading, cursor, shown, missed, window, storeVars>>

OpenJournal(tail, since) ==
    /\ reading.at = "none"
    /\ reading' = [NoRead EXCEPT !.at = "scan", !.tail = tail, !.since = since, !.known = Len(lines)]
    /\ window' = NoWindow
    /\ UNCHANGED <<lines, cursor, shown, missed, storeVars>>

PollJournal == OpenJournal(FALSE, cursor) \* GET /api/runs/<id>/journal?since=...
ReadTail == OpenJournal(TRUE, 0)          \* GET /api/runs/<id>

\* The scanner has the next line.
Scans(i) == reading.at = "scan" /\ i = reading.scanned + 1 /\ i <= Len(lines)
Wanted(i) == IsEvent(i) /\ reading.idx >= reading.since
ReadOnly == UNCHANGED <<lines, cursor, shown, missed, window, storeVars>>

SkipLine(i) ==
    /\ Scans(i) /\ ~Wanted(i)
    /\ reading' = [reading EXCEPT !.scanned = i, !.idx = IF IsEvent(i) THEN @ + 1 ELSE @]
    /\ ReadOnly

\* The line at which a read from a cursor breaks off is no longer to be seen.
BreakOff(i) ==
    /\ Scans(i) /\ Wanted(i)
    /\ ~reading.tail /\ IsFull
    /\ reading' = [reading EXCEPT !.scanned = i, !.at = "more"]
    /\ ReadOnly

TakeLine(i) ==
    /\ Scans(i) /\ Wanted(i)
    /\ reading.tail \/ ~IsFull
    /\ reading' = [reading EXCEPT !.scanned = i, !.at = "push"]
    /\ ReadOnly

DropOldest ==
    /\ reading.at = "push" /\ ~HasRoom(lines[reading.scanned].size)
    /\ reading' = [reading EXCEPT !.win = Tail(@), !.bytes = @ - lines[Head(reading.win)].size]
    /\ missed' = IF reading.tail THEN missed ELSE missed \cup {Head(reading.win)}
    /\ UNCHANGED <<lines, cursor, shown, window, storeVars>>

PushLine ==
    /\ reading.at = "push" /\ HasRoom(lines[reading.scanned].size)
    /\ reading' = [reading EXCEPT !.at = "scan", !.idx = @ + 1, !.win = Append(@, reading.scanned),
                            !.bytes = @ + lines[reading.scanned].size]
    /\ ReadOnly

EndOfFile ==
    /\ reading.at = "scan" /\ reading.scanned = Len(lines)
    /\ reading' = [reading EXCEPT !.at = "more"]
    /\ ReadOnly

\* moreEventsAfter: nothing is left when all was scanned that the file held
\* when it was opened.
MoreFollow ==
    /\ ~reading.tail /\ IsFull
    /\ reading.scanned < reading.known
    /\ \E i \in reading.scanned + 1 .. Len(lines) : IsEvent(i)

\* The result, and what a client that polls makes of it.
AnswerRead ==
    LET past == IF reading.since > reading.idx THEN reading.idx ELSE reading.since
        first == IF reading.tail THEN reading.idx - Len(reading.win) ELSE past
        next == IF reading.tail THEN reading.idx ELSE past + Len(reading.win)
    IN  /\ reading.at = "more"
        /\ window' = [events |-> reading.win, total |-> reading.idx, tail |-> reading.tail, first |-> first,
                      next |-> next, truncated |-> IF reading.tail THEN first > 0 ELSE MoreFollow]
        /\ IF reading.tail THEN UNCHANGED <<cursor, shown>>
           ELSE cursor' = next /\ shown' = shown \o reading.win
        /\ reading' = NoRead
        /\ UNCHANGED <<lines, missed, storeVars>>

\* A line that is too long, or does not decode: the client gets an error.
FailRead ==
    /\ reading.at \in {"scan", "more"}
    /\ reading' = NoRead
    /\ ReadOnly

-----------------------------------------------------------------------------
(* JsonStore                                                               *)

Directories == {r \in RunIds : touched[r] # 0}
NoCreator == [run |-> "none", read |-> {}]
NoPrune == [at |-> "none", old |-> 0, listed |-> {}, doomed |-> {}, removed |-> {}, failed |-> FALSE, read |-> {}]

Touch(r) ==
    /\ changes < MaxChanges
    /\ changes' = changes + 1
    /\ touched' = [touched EXCEPT ![r] = changes + 1]
    /\ spared' = spared \cup {r}

\* Create makes the directory and reads the index ...
CreateRun(r) ==
    /\ creator = NoCreator
    /\ touched[r] = 0 /\ r \notin index
    /\ Touch(r)
    /\ creator' = [run |-> r, read |-> index]
    /\ UNCHANGED <<readVars, index, prune>>

\* ... and writes it back; or the process dies between the two.
SaveIndex ==
    /\ creator # NoCreator
    /\ creator' = NoCreator
    /\ \/ index' = creator.read \cup {creator.run}
       \/ UNCHANGED index
    /\ UNCHANGED <<readVars, touched, changes, prune, spared>>

\* A snapshot of a run that goes on, or is resumed, touches its directory.
TouchRun(r) ==
    /\ touched[r] # 0
    /\ Touch(r)
    /\ UNCHANGED <<readVars, index, creator, prune>>

\* Mutant: one run less is kept.
KeptButOne(newer) == newer + 1 < KeepLast

\* The KeepLast runs changed last are kept, but for those that are too old.
KeptByRank(newer) == newer < KeepLast

Doomed(runs, old) ==
    {r \in runs :
        \/ KeepLast > 0 /\ ~KeptByRank(Cardinality({s \in runs : touched[s] > touched[r]}))
        \/ old > 0 /\ touched[r] + old < changes}

\* ListRuns reads the index; without one, or an empty one, the directories.
ListedRuns == (IF index = {} THEN Directories ELSE index) \cap Directories

BeginPrune ==
    /\ prune.at = "none"
    /\ \E old \in {0, OldAge} :
          /\ KeepLast > 0 \/ old > 0
          /\ prune' = [NoPrune EXCEPT !.at = "remove", !.old = old, !.listed = ListedRuns,
                                      !.doomed = Doomed(ListedRuns, old)]
    /\ spared' = {}
    /\ UNCHANGED <<readVars, touched, changes, index, creator>>

\* os.RemoveAll of one directory, which may fail.
RemoveRun(r) ==
    /\ prune.at = "remove" /\ r \in prune.doomed
    /\ \/ /\ touched' = [touched EXCEPT ![r] = 0]
          /\ prune' = [prune EXCEPT !.doomed = @ \ {r}, !.removed = @ \cup {r}]
       \/ /\ prune' = [prune EXCEPT !.doomed = @ \ {r}, !.failed = TRUE]
          /\ UNCHANGED touched
    /\ UNCHANGED <<readVars, changes, index, creator, spared>>

\* JsonStore.Prune leaves the index alone after a failure.
ReadIndex ==
    /\ prune.at = "remove" /\ prune.doomed = {}
    /\ prune' = IF prune.failed \/ prune.removed = {} THEN [prune EXCEPT !.at = "done"]
                ELSE [prune EXCEPT !.at = "save", !.read = index]
    /\ UNCHANGED <<readVars, touched, changes, index, creator, spared>>

WriteIndex ==
    /\ prune.at = "save"
    /\ index' = prune.read \ prune.removed
    /\ prune' = [prune EXCEPT !.at = "done"]
    /\ UNCHANGED <<readVars, touched, changes, creator, spared>>

EndPrune ==
    /\ prune.at = "done"
    /\ prune' = NoPrune
    /\ UNCHANGED <<readVars, touched, changes, index, creator, spared>>

JournalFilesInit ==
    /\ lines = <<>>
    /\ cursor = 0
    /\ shown = <<>>
    /\ missed = {}
    /\ window = NoWindow
    /\ reading = NoRead
    /\ touched = [r \in RunIds |-> 0]
    /\ changes = 0
    /\ index = {}
    /\ creator = NoCreator
    /\ prune = NoPrune
    /\ spared = {}

ReaderNext ==
    \/ EmitLine \/ PollJournal \/ ReadTail
    \/ \E i \in 1 .. Len(lines) : SkipLine(i) \/ BreakOff(i) \/ TakeLine(i)
    \/ DropOldest \/ PushLine \/ EndOfFile \/ AnswerRead \/ FailRead

StoreNext ==
    \/ \E r \in RunIds : CreateRun(r) \/ TouchRun(r) \/ RemoveRun(r)
    \/ SaveIndex \/ BeginPrune \/ ReadIndex \/ WriteIndex \/ EndPrune

JournalFilesNext == ReaderNext \/ StoreNext

JournalFilesSpec == JournalFilesInit /\ [][JournalFilesNext]_journalFileVars

-----------------------------------------------------------------------------
\* Type correctness.
JournalFilesTypeOK ==
    /\ lines \in Seq([size : Nat, events : Nat, bytes : Nat])
    /\ reading.at \in {"none", "scan", "push", "more"} /\ reading.tail \in BOOLEAN
    /\ reading.scanned \in 0 .. Len(lines) /\ reading.known \in 0 .. Len(lines)
    /\ reading.idx \in Nat /\ reading.bytes \in Nat /\ reading.since \in Nat
    /\ cursor \in Nat /\ window.first \in Nat /\ window.next \in Nat
    /\ touched \in [RunIds -> 0 .. MaxChanges]
    /\ index \subseteq RunIds /\ spared \subseteq RunIds
    /\ prune.at \in {"none", "remove", "save", "done"}
    /\ prune.doomed \cup prune.removed \subseteq prune.listed

\* These lines are, in order and without a gap, the events after the first n.
FollowEvents(n, numbers) ==
    \A k \in DOMAIN numbers :
        /\ numbers[k] \in DOMAIN lines
        /\ IsEvent(numbers[k]) /\ EventsAt(numbers[k]) = n + k

\* The bytes of events that follow each other.
SpanOf(numbers) ==
    IF numbers = <<>> THEN 0
    ELSE BytesAt(numbers[Len(numbers)]) - BytesAt(numbers[1]) + lines[numbers[1]].size

\* A client that polls with the cursor it was given has seen every event
\* before the cursor (reader.go:138-144, runs_limits_test.go:114).
CursorMissesNothing ==
    \A i \in DOMAIN lines : IsEvent(i) /\ EventsAt(i) <= cursor => i \in {shown[k] : k \in DOMAIN shown}

\* However the journal grows during a read and between reads, a read returns
\* the last events that it came to, without a gap and within its limits; it
\* says truthfully which they are when it reads the end, and owns up to what
\* it leaves out (reader.go:55-73). A client that polls with the cursor it was
\* given misses no event before the cursor but those that a poll read and
\* dropped again to stay within its bytes; until that happens it sees every
\* event once and in order (reader.go:138-144).
WindowIsTrue ==
    LET limits == Limits(window.tail)
        kept == Len(window.events)
    IN  /\ FollowEvents(window.total - kept, window.events)
        /\ limits.maxEvents > 0 => kept <= limits.maxEvents
        /\ limits.maxBytes > 0 => SpanOf(window.events) <= limits.maxBytes \/ kept = 1
        /\ window.next = window.first + kept /\ window.next <= window.total
        /\ window.tail => window.next = window.total /\ (window.truncated <=> window.first > 0)
        /\ window.truncated /\ ~window.tail => window.total < EventsAt(Len(lines))
        /\ \A i \in DOMAIN lines :
              IsEvent(i) /\ EventsAt(i) <= cursor => i \in {shown[k] : k \in DOMAIN shown} \cup missed
        /\ missed = {} => FollowEvents(0, shown) /\ Len(shown) = cursor
        /\ missed # {} => PollLimits.maxBytes > 0

\* Whatever is created, touched or removed meanwhile, a prune by number
\* leaves standing KeepLast of the runs that it listed, or all of them, and
\* every run that was created after its listing (prune.go:55-128).
PruneSparesNewest ==
    prune.at # "none" =>
        /\ prune.old = 0 => Cardinality(prune.listed \ prune.removed) >=
               IF Cardinality(prune.listed) < KeepLast THEN Cardinality(prune.listed) ELSE KeepLast
        /\ (spared \ prune.listed) \cap prune.removed = {}
=============================================================================
