--------------------------- MODULE StorageProofs ---------------------------
(***************************************************************************)
(* Proofs about what lies on disk: the runs directory under a prune        *)
(* (JournalFiles), the plugin and preset that several installers replace   *)
(* (Install), and what the tools write for a human (SavedWork): edits of a *)
(* plugin, uploads, presets and imports.                                   *)
(***************************************************************************)
EXTENDS JournalFiles, Install, SavedWork, FiniteSetTheorems, SequenceTheorems, WellFoundedInduction, TLAPS

-----------------------------------------------------------------------------
(* Prune                                                                   *)

Newer(r, runs) == {s \in runs : touched[s] > touched[r]}

\* Every nonempty set of numbers has a least one.
LEMMA LeastNumber ==
    ASSUME NEW S \in SUBSET Nat, S # {}
    PROVE  \E n \in S : \A m \in S : n <= m
<1> DEFINE Less == {p \in Nat \X Nat : p[1] < p[2]}
<1>1. IsWellFoundedOn(Less, Nat)
  BY NatLessThanWellFounded, Zenon DEF OpToRel
<1> HIDE DEF Less
<1>2. PICK n \in S : \A m \in S : ~(<<m, n>> \in Less)
  BY <1>1, WFMin
<1>3. ASSUME NEW m \in S
      PROVE  n <= m
  <2>1. m < n => <<m, n>> \in Less
    BY DEF Less
  <2> QED
    BY <1>2, <2>1
<1> QED
  BY <1>3

\* Of a nonempty set of runs one is such that no other of the set has fewer
\* runs newer than it.
LEMMA LeastNewer ==
    ASSUME NEW runs, IsFiniteSet(runs), NEW S \in SUBSET runs, S # {}
    PROVE  \E r \in S : \A s \in S : Cardinality(Newer(r, runs)) <= Cardinality(Newer(s, runs))
<1> DEFINE counts == {Cardinality(Newer(r, runs)) : r \in S}
<1>1. \A r : Newer(r, runs) \in SUBSET runs
  BY DEF Newer
<1>2. \A r : Cardinality(Newer(r, runs)) \in Nat
  BY <1>1, FS_Subset, FS_CardinalityType
<1>3. counts \in SUBSET Nat /\ counts # {}
  BY <1>2
<1> HIDE DEF counts
<1>4. PICK n \in counts : \A m \in counts : n <= m
  BY <1>3, LeastNumber
<1> QED
  BY <1>4 DEF counts

\* A prune by number spares so many: the runs newer than a doomed one that has
\* fewest newer ones are not doomed, and they are KeepLast at least.
LEMMA EnoughAreKept ==
    ASSUME NEW runs \in SUBSET RunIds, IsFiniteSet(runs), touched \in [RunIds -> Nat],
           Doomed(runs, 0) # {}
    PROVE  Cardinality(runs \ Doomed(runs, 0)) >= KeepLast
<1>1. PICK r \in Doomed(runs, 0) :
          \A s \in Doomed(runs, 0) : Cardinality(Newer(r, runs)) <= Cardinality(Newer(s, runs))
  BY LeastNewer DEF Doomed
<1>2. r \in runs /\ ~(Cardinality(Newer(r, runs)) < KeepLast)
  BY <1>1 DEF Doomed, KeptByRank, Newer
<1>3. \A s : /\ IsFiniteSet(Newer(s, runs)) /\ Cardinality(Newer(s, runs)) \in Nat
             /\ Newer(s, runs) \subseteq runs
  BY FS_Subset, FS_CardinalityType DEF Newer
<1>4. ASSUME NEW s \in Newer(r, runs)
      PROVE  s \notin Doomed(runs, 0)
  <2>1. s \in runs /\ touched[s] > touched[r] /\ touched[s] \in Nat /\ touched[r] \in Nat
    BY <1>2, <1>4 DEF Newer
  <2>2. Newer(s, runs) \subseteq Newer(r, runs)
    BY <1>2, <2>1 DEF Newer
  <2>3. s \notin Newer(s, runs)
    BY <2>1 DEF Newer
  <2>4. Cardinality(Newer(s, runs)) <= Cardinality(Newer(r, runs))
        /\ Cardinality(Newer(s, runs)) # Cardinality(Newer(r, runs))
    BY <1>3, <1>4, <2>2, <2>3, FS_Subset
  <2> QED
    BY <1>1, <1>3, <2>4
<1>5. Newer(r, runs) \subseteq runs \ Doomed(runs, 0)
  BY <1>3, <1>4
<1>6. IsFiniteSet(runs \ Doomed(runs, 0)) /\ Cardinality(runs \ Doomed(runs, 0)) \in Nat
  BY FS_Subset, FS_CardinalityType
<1>7. Cardinality(Newer(r, runs)) <= Cardinality(runs \ Doomed(runs, 0))
  BY <1>5, <1>6, FS_Subset
<1> QED
  BY <1>2, <1>3, <1>6, <1>7, JournalAssumption

\* What is left of a listing, once so many are gone or will be.
Spares(listed, gone) ==
    Cardinality(listed \ gone) >= IF Cardinality(listed) < KeepLast THEN Cardinality(listed) ELSE KeepLast

Prunes == [at : {"none", "remove", "save", "done"}, old : Nat, listed : SUBSET RunIds,
           doomed : SUBSET RunIds, removed : SUBSET RunIds, failed : BOOLEAN, read : SUBSET RunIds]
Creators == [run : RunIds, read : SUBSET RunIds]

StoreTyped ==
    /\ changes \in Nat /\ touched \in [RunIds -> Nat]
    /\ index \in SUBSET RunIds /\ spared \in SUBSET RunIds
    /\ creator \in Creators \cup {NoCreator}
    /\ prune \in Prunes

\* There are only as many directories as were created, so that a listing is
\* finite, and what a prune spared by number it goes on to spare.
PruneInv ==
    /\ StoreTyped
    /\ IsFiniteSet(Directories)
    /\ prune.at # "none" =>
          /\ IsFiniteSet(prune.listed)
          /\ prune.doomed \cup prune.removed \subseteq prune.listed
          /\ prune.old = 0 => Spares(prune.listed, prune.doomed \cup prune.removed)

\* A run is created or goes on.
LEMMA RunDirMoves ==
    ASSUME PruneInv, NEW r \in RunIds, CreateRun(r) \/ TouchRun(r)
    PROVE  PruneInv'
<1>1. /\ changes' = changes + 1 /\ touched' = [touched EXCEPT ![r] = changes + 1]
      /\ spared' = spared \cup {r} /\ UNCHANGED <<index, prune>>
      /\ creator' \in {creator, [run |-> r, read |-> index]}
  BY DEF CreateRun, TouchRun, Touch
<1>2. StoreTyped'
  <2>1. changes' \in Nat /\ touched' \in [RunIds -> Nat]
    BY <1>1 DEF PruneInv, StoreTyped
  <2>2. creator' \in Creators \cup {NoCreator}
    BY <1>1 DEF PruneInv, StoreTyped, Creators
  <2> QED
    BY <1>1, <2>1, <2>2 DEF PruneInv, StoreTyped
<1>3. Directories' = Directories \cup {r}
  BY <1>1 DEF PruneInv, StoreTyped, Directories
<1>4. IsFiniteSet(Directories')
  BY <1>3, FS_AddElement DEF PruneInv
<1> QED
  BY <1>1, <1>2, <1>4 DEF PruneInv, Spares
\* The listing of a prune by number spares enough runs.
LEMMA PruneBegins ==
    ASSUME PruneInv, BeginPrune
    PROVE  PruneInv'
<1>1. PICK old \in {0, OldAge} :
          prune' = [NoPrune EXCEPT !.at = "remove", !.old = old, !.listed = ListedRuns,
                                   !.doomed = Doomed(ListedRuns, old)]
  BY DEF BeginPrune
<1>2. /\ prune' \in Prunes
      /\ prune'.listed = ListedRuns /\ prune'.old = old /\ prune'.removed = {}
      /\ prune'.doomed = Doomed(ListedRuns, old)
  <2>1. Doomed(ListedRuns, old) \in SUBSET RunIds /\ ListedRuns \in SUBSET RunIds /\ old \in Nat
    BY JournalAssumption DEF Doomed, ListedRuns, Directories
  <2> QED
    BY <1>1, <2>1 DEF NoPrune, Prunes
<1>3. ListedRuns \in SUBSET RunIds /\ ListedRuns \subseteq Directories
  BY DEF ListedRuns, Directories
<1>4. IsFiniteSet(ListedRuns)
  BY <1>3, FS_Subset DEF PruneInv
<1>5. Doomed(ListedRuns, old) \subseteq ListedRuns
  BY DEF Doomed
<1>6. ASSUME old = 0
      PROVE  Spares(ListedRuns, Doomed(ListedRuns, old))
  <2>1. Cardinality(ListedRuns) \in Nat
    BY <1>4, FS_CardinalityType
  <2>2. CASE Doomed(ListedRuns, old) = {}
    <3>1. ListedRuns \ Doomed(ListedRuns, old) = ListedRuns
      BY <2>2
    <3> QED
      BY <2>1, <3>1, JournalAssumption DEF Spares
  <2>3. CASE Doomed(ListedRuns, old) # {}
    <3>1. Cardinality(ListedRuns \ Doomed(ListedRuns, old)) >= KeepLast
      BY <1>3, <1>4, <1>6, <2>3, EnoughAreKept DEF PruneInv, StoreTyped
    <3>2. Cardinality(ListedRuns \ Doomed(ListedRuns, old)) \in Nat
      BY <1>4, FS_Difference, FS_CardinalityType
    <3> QED
      BY <2>1, <3>1, <3>2, JournalAssumption DEF Spares
  <2> QED
    BY <2>2, <2>3
<1>7. UNCHANGED <<touched, changes, index, creator>> /\ spared' = {}
  BY DEF BeginPrune
<1>8. IsFiniteSet(Directories')
  BY <1>7 DEF PruneInv, Directories
<1>9. Doomed(ListedRuns, old) \cup {} = Doomed(ListedRuns, old)
  OBVIOUS
<1>10. prune'.old = 0 => Spares(prune'.listed, prune'.doomed \cup prune'.removed)
  BY <1>2, <1>6, <1>9
<1> QED
  BY <1>2, <1>3, <1>4, <1>5, <1>7, <1>8, <1>10 DEF PruneInv, StoreTyped, Spares

\* One directory less, or one that could not be removed.
LEMMA PruneRemoves ==
    ASSUME PruneInv, NEW r \in RunIds, RemoveRun(r)
    PROVE  PruneInv'
<1>1. /\ prune.at = "remove" /\ r \in prune.doomed /\ UNCHANGED <<changes, index, creator, spared>>
      /\ touched' \in {touched, [touched EXCEPT ![r] = 0]}
      /\ prune' \in {[prune EXCEPT !.doomed = @ \ {r}, !.removed = @ \cup {r}],
                     [prune EXCEPT !.doomed = @ \ {r}, !.failed = TRUE]}
  BY DEF RemoveRun
<1>2. touched' \in [RunIds -> Nat] /\ Directories' \subseteq Directories
  BY <1>1 DEF PruneInv, StoreTyped, Directories
<1>3. IsFiniteSet(Directories')
  BY <1>2, FS_Subset DEF PruneInv
<1>4. prune \in Prunes
  BY DEF PruneInv, StoreTyped
<1>5. /\ prune' \in Prunes /\ prune'.listed = prune.listed /\ prune'.old = prune.old
      /\ prune'.doomed \cup prune'.removed \subseteq prune.doomed \cup prune.removed
  <2>1. CASE prune' = [prune EXCEPT !.doomed = @ \ {r}, !.removed = @ \cup {r}]
    <3>1. prune' \in Prunes /\ prune'.listed = prune.listed /\ prune'.old = prune.old
      BY <1>4, <2>1 DEF Prunes
    <3>2. prune'.doomed = prune.doomed \ {r} /\ prune'.removed = prune.removed \cup {r}
      BY <1>4, <2>1 DEF Prunes
    <3> QED
      BY <1>1, <3>1, <3>2
  <2>2. CASE prune' = [prune EXCEPT !.doomed = @ \ {r}, !.failed = TRUE]
    <3>1. prune' \in Prunes /\ prune'.listed = prune.listed /\ prune'.old = prune.old
      BY <1>4, <2>2 DEF Prunes
    <3>2. prune'.doomed = prune.doomed \ {r} /\ prune'.removed = prune.removed
      BY <1>4, <2>2 DEF Prunes
    <3> QED
      BY <3>1, <3>2
  <2> QED
    BY <1>1, <2>1, <2>2
<1>6. StoreTyped'
  BY <1>1, <1>2, <1>5 DEF PruneInv, StoreTyped
<1>7. /\ IsFiniteSet(prune.listed) /\ prune.doomed \cup prune.removed \subseteq prune.listed
      /\ prune.old = 0 => Spares(prune.listed, prune.doomed \cup prune.removed)
  BY <1>1 DEF PruneInv
<1>8. ASSUME prune.old = 0
      PROVE  Spares(prune.listed, prune'.doomed \cup prune'.removed)
  <2> DEFINE left == prune.listed \ (prune.doomed \cup prune.removed)
             leftNow == prune.listed \ (prune'.doomed \cup prune'.removed)
  <2>1. left \subseteq leftNow
    BY <1>5
  <2>2. IsFiniteSet(leftNow)
    BY <1>7, FS_Difference
  <2> HIDE DEF left, leftNow
  <2>3. /\ Cardinality(left) <= Cardinality(leftNow)
        /\ Cardinality(left) \in Nat /\ Cardinality(leftNow) \in Nat
    BY <2>1, <2>2, FS_Subset, FS_CardinalityType
  <2>4. Cardinality(prune.listed) \in Nat
    BY <1>7, FS_CardinalityType
  <2> QED
    BY <1>7, <1>8, <2>3, <2>4, JournalAssumption DEF Spares, left, leftNow
<1> QED
  BY <1>3, <1>5, <1>6, <1>7, <1>8 DEF PruneInv, Spares

\* The index is read and written; the listing stays what it was.
LEMMA PruneEnds ==
    ASSUME PruneInv, ReadIndex \/ WriteIndex \/ EndPrune \/ SaveIndex
    PROVE  PruneInv'
<1>1. /\ StoreTyped /\ prune \in Prunes /\ index \in SUBSET RunIds
      /\ UNCHANGED <<touched, changes, spared>>
  BY DEF PruneInv, StoreTyped, ReadIndex, WriteIndex, EndPrune, SaveIndex
<1>2. IsFiniteSet(Directories')
  BY <1>1 DEF PruneInv, Directories
<1>3. CASE ReadIndex
  <2>1. /\ prune.at = "remove" /\ UNCHANGED <<index, creator>>
        /\ prune' \in {[prune EXCEPT !.at = "done"], [prune EXCEPT !.at = "save", !.read = index]}
    BY <1>3 DEF ReadIndex
  <2>2. /\ prune' \in Prunes /\ prune'.listed = prune.listed /\ prune'.old = prune.old
        /\ prune'.doomed = prune.doomed /\ prune'.removed = prune.removed
    BY <1>1, <2>1 DEF Prunes
  <2> QED
    BY <1>1, <1>2, <2>1, <2>2 DEF PruneInv, StoreTyped, Spares
<1>4. CASE WriteIndex
  <2>1. /\ prune.at = "save" /\ UNCHANGED creator /\ index' = prune.read \ prune.removed
        /\ prune' = [prune EXCEPT !.at = "done"]
    BY <1>4 DEF WriteIndex
  <2>2. /\ prune' \in Prunes /\ prune'.listed = prune.listed /\ prune'.old = prune.old
        /\ prune'.doomed = prune.doomed /\ prune'.removed = prune.removed
        /\ index' \in SUBSET RunIds
    BY <1>1, <2>1 DEF Prunes
  <2> QED
    BY <1>1, <1>2, <2>1, <2>2 DEF PruneInv, StoreTyped, Spares
<1>5. CASE EndPrune
  <2>1. prune' = NoPrune /\ UNCHANGED <<index, creator>>
    BY <1>5 DEF EndPrune
  <2>2. prune' \in Prunes /\ prune'.at = "none"
    BY <2>1 DEF NoPrune, Prunes
  <2> QED
    BY <1>1, <1>2, <2>1, <2>2 DEF PruneInv, StoreTyped
<1>6. CASE SaveIndex
  <2>1. /\ creator # NoCreator /\ creator' = NoCreator /\ UNCHANGED prune
        /\ index' \in {creator.read \cup {creator.run}, index}
    BY <1>6 DEF SaveIndex
  <2>2. creator \in Creators
    BY <1>1, <2>1 DEF StoreTyped
  <2>3. index' \in SUBSET RunIds
    BY <1>1, <2>1, <2>2 DEF Creators
  <2>4. StoreTyped'
    BY <1>1, <2>1, <2>3 DEF StoreTyped
  <2> QED
    BY <1>2, <2>1, <2>4 DEF PruneInv, Spares
<1> QED
  BY <1>3, <1>4, <1>5, <1>6

\* Reads of journals, and nothing.
LEMMA PruneStutters ==
    ASSUME PruneInv, UNCHANGED storeVars
    PROVE  PruneInv'
<1>1. UNCHANGED <<touched, changes, index, creator, prune, spared>>
  BY DEF storeVars
<1>2. StoreTyped' /\ IsFiniteSet(Directories')
  BY <1>1 DEF PruneInv, StoreTyped, Directories
<1> QED
  BY <1>1, <1>2 DEF PruneInv, Spares

\* The invariant of the runs directory.
THEOREM PruneInvariant == JournalFilesSpec => []PruneInv
<1>1. JournalFilesInit => PruneInv
  <2> SUFFICES ASSUME JournalFilesInit PROVE PruneInv
    OBVIOUS
  <2>1. Directories = {}
    BY DEF JournalFilesInit, Directories
  <2>2. IsFiniteSet(Directories)
    BY <2>1, FS_EmptySet
  <2>3. NoPrune \in Prunes /\ prune = NoPrune /\ prune.at = "none"
    BY DEF JournalFilesInit, NoPrune, Prunes
  <2>4. StoreTyped
    BY <2>3 DEF JournalFilesInit, StoreTyped
  <2> QED
    BY <2>2, <2>3, <2>4 DEF PruneInv
<1>2. PruneInv /\ [JournalFilesNext]_journalFileVars => PruneInv'
  <2> SUFFICES ASSUME PruneInv, [JournalFilesNext]_journalFileVars PROVE PruneInv'
    OBVIOUS
  <2>1. CASE ReaderNext \/ UNCHANGED journalFileVars
    <3>1. UNCHANGED storeVars
      BY <2>1 DEF ReaderNext, EmitLine, PollJournal, ReadTail, OpenJournal, SkipLine, BreakOff, TakeLine,
                   DropOldest, PushLine, EndOfFile, AnswerRead, FailRead, ReadOnly, storeVars, journalFileVars
    <3> QED
      BY <3>1, PruneStutters
  <2>2. CASE StoreNext
    BY <2>2, RunDirMoves, PruneBegins, PruneRemoves, PruneEnds DEF StoreNext
  <2> QED
    BY <2>1, <2>2 DEF JournalFilesNext
<1> QED
  BY <1>1, <1>2, PTL DEF JournalFilesSpec

\* A prune by number leaves KeepLast of the runs it listed, or all of them,
\* whatever is created, touched or removed meanwhile, and none that was created
\* after its listing is gone (prune.go).
THEOREM PruneKeepsNewest == JournalFilesSpec => []PruneSparesNewest
<1>1. PruneInv => PruneSparesNewest
  <2> SUFFICES ASSUME PruneInv, prune.at # "none"
               PROVE  /\ prune.old = 0 => Spares(prune.listed, prune.removed)
                      /\ (spared \ prune.listed) \cap prune.removed = {}
    BY DEF PruneSparesNewest, Spares
  <2>1. /\ IsFiniteSet(prune.listed)
        /\ prune.doomed \cup prune.removed \subseteq prune.listed
        /\ prune.old = 0 => Spares(prune.listed, prune.doomed \cup prune.removed)
    BY DEF PruneInv
  <2> DEFINE left == prune.listed \ (prune.doomed \cup prune.removed)
             standing == prune.listed \ prune.removed
  <2>2. left \subseteq standing
    OBVIOUS
  <2>3. IsFiniteSet(standing)
    BY <2>1, FS_Difference
  <2> HIDE DEF left, standing
  <2>4. /\ Cardinality(left) <= Cardinality(standing)
        /\ Cardinality(left) \in Nat /\ Cardinality(standing) \in Nat
    BY <2>2, <2>3, FS_Subset, FS_CardinalityType
  <2>5. Cardinality(prune.listed) \in Nat
    BY <2>1, FS_CardinalityType
  <2>6. prune.old = 0 => Spares(prune.listed, prune.removed)
    BY <2>1, <2>4, <2>5, JournalAssumption DEF Spares, left, standing
  <2> QED
    BY <2>1, <2>6
<1> QED
  BY <1>1, PruneInvariant, PTL
-----------------------------------------------------------------------------
(* Installation                                                            *)

Numbers == Commits \cup {0}
Places == [content : (Commits \ Broken) \cup {0}, lock : Numbers, donor : BOOLEAN]
Asides == [place : Places, preset : Texts \cup {0}]
PluginSteps == {"planned", "fetched", "staged", "occupied", "free"}
PresetSteps == {"preset needs", "preset checked", "preset valid", "preset free", "preset published",
                "preset summed"}
Works ==
    [at : PluginSteps \cup PresetSteps \cup {"rest", "published", "deps", "donor", "donor here", "lock read"},
     plan : {"none", "local", "directory", "beside", "clone"},
     staged : Numbers, lock : Numbers, preset : Texts \cup {0}, read : Numbers \cup Texts]

\* What an installer is about to write is something that may be written.
SoundWork(w) ==
    /\ w.at \in PluginSteps => w.lock \in Commits
    /\ w.at \in {"staged", "occupied", "free"} => w.staged \notin Broken
    /\ w.at = "lock read" => w.read \in Numbers
    /\ w.at \in PresetSteps => w.preset \in Texts
    /\ w.at = "preset summed" => w.read \in Texts

InstallTyped ==
    /\ entry \in Entries
    /\ checkout \in [head : Commits, files : Numbers]
    /\ place \in Places /\ preset \in Texts \cup {0} /\ sidecar \in Texts \cup {0}
    /\ asides \in [Installers -> Asides]
    /\ donorTemp \in BOOLEAN
    /\ work \in [Installers -> Works] /\ \A i \in Installers : SoundWork(work[i])
    /\ deaths \in Nat

Replacing(i) == work[i].at = "free" /\ asides[i].place # Absent
ReplacingPreset(i) == work[i].at = "preset free" /\ asides[i].preset # 0

\* An empty place is one that an installer is filling and can give back.
PluginIsKept == deaths = 0 /\ "plugin" \in installed /\ place = Absent => \E i \in Installers : Replacing(i)
PresetIsKept == deaths = 0 /\ "preset" \in installed /\ preset = 0 => \E i \in Installers : ReplacingPreset(i)

InstallInv == InstallTyped /\ PluginIsKept /\ PresetIsKept

\* At the start nobody has moved anything aside.
LEMMA InstallStart == InstallInit => InstallInv
<1> SUFFICES ASSUME InstallInit PROVE InstallInv
  OBVIOUS
<1>1. Absent \in Places
  BY DEF Absent, Places, Numbers
<1>2. place \in Places
  <2>1. CASE place = Absent
    BY <1>1, <2>1
  <2>2. CASE place # Absent
    <3>1. PICK c \in Commits \ Broken : place = [content |-> c, lock |-> c, donor |-> FALSE]
      BY <2>2 DEF InstallInit
    <3> QED
      BY <3>1 DEF Places, Numbers
  <2> QED
    BY <2>1, <2>2
<1>3. checkout \in [head : Commits, files : Numbers]
  BY DEF InstallInit, Numbers
<1>4. asides \in [Installers -> Asides]
  BY <1>1 DEF InstallInit, Asides, NothingAside
<1>5. AtRest \in Works /\ SoundWork(AtRest)
  BY DEF AtRest, Works, Numbers, SoundWork, PluginSteps, PresetSteps
<1>6. work \in [Installers -> Works] /\ \A i \in Installers : SoundWork(work[i])
  BY <1>5 DEF InstallInit
<1>7. InstallTyped
  BY <1>2, <1>3, <1>4, <1>6 DEF InstallInit, InstallTyped
<1>8. ("plugin" \in installed => place # Absent) /\ ("preset" \in installed => preset # 0)
  BY DEF InstallInit
<1> QED
  BY <1>7, <1>8 DEF InstallInv, PluginIsKept, PresetIsKept

\* An installer that is not about to rename what it has staged, and neither
\* moves the plugin or the preset away nor brings one.
QuietChange(i) ==
    /\ work[i].at \notin {"free", "preset free"}
    /\ \E w \in Works : SoundWork(w) /\ work' = [work EXCEPT ![i] = w]
    /\ UNCHANGED <<entry, checkout, preset, installed, deaths>>
    /\ asides' = asides \/ (work[i].at = "published" /\ asides' = [asides EXCEPT ![i].place = Absent])
    /\ place' \in Places /\ (place = Absent <=> place' = Absent)
    /\ sidecar' \in Texts \cup {0} /\ donorTemp' \in BOOLEAN

\* It loses nothing.
LEMMA QuietWork ==
    ASSUME InstallInv, NEW i \in Installers, QuietChange(i)
    PROVE  InstallInv'
<1>1. PICK w \in Works : SoundWork(w) /\ work' = [work EXCEPT ![i] = w]
  BY DEF QuietChange
<1>2. /\ work[i].at \notin {"free", "preset free"}
      /\ UNCHANGED <<entry, checkout, preset, installed, deaths>>
      /\ asides' = asides \/ (work[i].at = "published" /\ asides' = [asides EXCEPT ![i].place = Absent])
      /\ place' \in Places /\ (place = Absent <=> place' = Absent)
      /\ sidecar' \in Texts \cup {0} /\ donorTemp' \in BOOLEAN
  BY DEF QuietChange
<1>3. InstallTyped /\ PluginIsKept /\ PresetIsKept
  BY DEF InstallInv
<1>4. /\ work' \in [Installers -> Works] /\ \A k \in Installers : SoundWork(work'[k])
      /\ \A k \in Installers \ {i} : work'[k] = work[k]
  BY <1>1, <1>3 DEF InstallTyped
<1>5. asides' \in [Installers -> Asides] /\ \A k \in Installers \ {i} : asides'[k] = asides[k]
  <2>1. Absent \in Places
    BY DEF Absent, Places, Numbers
  <2> QED
    BY <1>2, <1>3, <2>1 DEF InstallTyped, Asides
<1>6. InstallTyped'
  BY <1>2, <1>3, <1>4, <1>5 DEF InstallTyped
<1>7. \A k \in Installers :
          (Replacing(k) => Replacing(k)') /\ (ReplacingPreset(k) => ReplacingPreset(k)')
  BY <1>2, <1>4, <1>5 DEF Replacing, ReplacingPreset
<1>8. PluginIsKept' /\ PresetIsKept'
  BY <1>2, <1>3, <1>7 DEF PluginIsKept, PresetIsKept
<1> QED
  BY <1>6, <1>8 DEF InstallInv

\* Steps from the registry to the stat of the plugin's directory.
LEMMA PlansKeep ==
    ASSUME InstallInv, NEW i \in Installers,
           StartInstall(i) \/ RefuseEntry(i) \/ FetchSource(i) \/ StagePlugin(i) \/ StatPlace(i)
    PROVE  \E w \in Works : SoundWork(w) /\ work' = [work EXCEPT ![i] = w]
<1> DEFINE old == work[i]
<1>1. old \in Works /\ SoundWork(old) /\ entry \in Entries /\ checkout.files \in Numbers
  BY DEF InstallInv, InstallTyped
<1>2. AtRest \in Works /\ SoundWork(AtRest)
  BY DEF AtRest, Works, Numbers, SoundWork, PluginSteps, PresetSteps
<1>3. entry.pin \in Numbers
  BY <1>1, InstallAssumption DEF Numbers
<1>4. CASE EndsWork(i)
  BY <1>2, <1>4 DEF EndsWork
<1>5. CASE StartInstall(i)
  <2>1. PICK web \in BOOLEAN, label \in Commits :
            work' = [work EXCEPT ![i].at = "planned", ![i].plan = Plan(web), ![i].lock = label]
    BY <1>5 DEF StartInstall
  <2> DEFINE w == [old EXCEPT !.at = "planned", !.plan = Plan(web), !.lock = label]
  <2>2. Plan(web) \in {"none", "local", "directory", "beside", "clone"}
    BY DEF Plan
  <2>3. w \in Works /\ w.at = "planned" /\ w.lock = label
    BY <1>1, <2>2 DEF Works, PluginSteps, Numbers
  <2>4. SoundWork(w)
    BY <2>3 DEF SoundWork, PluginSteps, PresetSteps
  <2>5. work' = [work EXCEPT ![i] = w]
    BY <2>1
  <2> QED
    BY <2>3, <2>4, <2>5
<1>6. CASE FetchSource(i) /\ ~EndsWork(i)
  <2>1. CASE work[i].at = "planned" /\ work' = [work EXCEPT ![i].at = "fetched", ![i].staged = entry.pin]
    <3> DEFINE w == [old EXCEPT !.at = "fetched", !.staged = entry.pin]
    <3>1. w \in Works /\ w.at = "fetched" /\ w.lock = old.lock
      BY <1>1, <1>3 DEF Works, PluginSteps
    <3>2. SoundWork(w)
      BY <1>1, <2>1, <3>1 DEF SoundWork, PluginSteps, PresetSteps
    <3>3. work' = [work EXCEPT ![i] = w]
      BY <2>1
    <3> QED
      BY <3>1, <3>2, <3>3
  <2>2. CASE work[i].at = "planned" /\ Goes(i, "fetched")
    <3> DEFINE w == [old EXCEPT !.at = "fetched"]
    <3>1. w \in Works /\ w.at = "fetched" /\ w.lock = old.lock
      BY <1>1 DEF Works, PluginSteps
    <3>2. SoundWork(w)
      BY <1>1, <2>2, <3>1 DEF SoundWork, PluginSteps, PresetSteps
    <3>3. work' = [work EXCEPT ![i] = w]
      BY <2>2 DEF Goes
    <3> QED
      BY <3>1, <3>2, <3>3
  <2> QED
    BY <1>6, <2>1, <2>2 DEF FetchSource
<1>7. CASE StagePlugin(i) /\ ~EndsWork(i)
  <2> DEFINE copy == IF old.plan = "clone" THEN old.staged ELSE checkout.files
             w == [old EXCEPT !.at = "staged", !.staged = copy]
  <2>1. copy \in Numbers
    BY <1>1 DEF Works
  <2>2. old.at = "fetched" /\ copy \notin Broken /\ work' = [work EXCEPT ![i].at = "staged", ![i].staged = copy]
    BY <1>7 DEF StagePlugin
  <2> HIDE DEF copy
  <2>3. w \in Works /\ w.at = "staged" /\ w.lock = old.lock /\ w.staged = copy
    BY <1>1, <2>1 DEF Works, PluginSteps
  <2>4. SoundWork(w)
    BY <1>1, <2>2, <2>3 DEF SoundWork, PluginSteps, PresetSteps
  <2>5. work' = [work EXCEPT ![i] = w]
    BY <2>2
  <2> QED
    BY <2>3, <2>4, <2>5
<1>8. CASE StatPlace(i)
  <2>1. PICK at \in {"free", "occupied"} : old.at = "staged" /\ Goes(i, at)
    BY <1>8 DEF StatPlace
  <2> DEFINE w == [old EXCEPT !.at = at]
  <2>2. w \in Works /\ w.at = at /\ w.lock = old.lock /\ w.staged = old.staged
    BY <1>1 DEF Works, PluginSteps
  <2>3. SoundWork(w)
    BY <1>1, <2>1, <2>2 DEF SoundWork, PluginSteps, PresetSteps
  <2>4. work' = [work EXCEPT ![i] = w]
    BY <2>1 DEF Goes
  <2> QED
    BY <2>2, <2>3, <2>4
<1> QED
  BY <1>4, <1>5, <1>6, <1>7, <1>8 DEF RefuseEntry

\* An installer comes to rest, or on to its preset.
LEMMA WorkEnds ==
    ASSUME InstallInv, NEW i \in Installers, EndsWork(i) \/ AfterPlugin(i)
    PROVE  \E w \in Works : SoundWork(w) /\ work' = [work EXCEPT ![i] = w]
<1>1. AtRest \in Works /\ SoundWork(AtRest)
  BY DEF AtRest, Works, Numbers, SoundWork, PluginSteps, PresetSteps
<1>2. CASE EndsWork(i)
  BY <1>1, <1>2 DEF EndsWork
<1>3. CASE AfterPlugin(i) /\ ~EndsWork(i)
  <2> DEFINE w == [AtRest EXCEPT !.at = "preset checked", !.preset = work[i].preset]
  <2>1. work[i].preset \in Texts \cup {0} /\ work[i].preset # 0 /\ work' = [work EXCEPT ![i] = w]
    BY <1>3 DEF AfterPlugin, InstallInv, InstallTyped, Works
  <2>2. w \in Works /\ w.at = "preset checked" /\ w.preset \in Texts
    BY <1>1, <2>1 DEF Works, PresetSteps, AtRest
  <2>3. SoundWork(w)
    BY <2>2 DEF SoundWork, PluginSteps, PresetSteps
  <2> QED
    BY <2>1, <2>2, <2>3
<1> QED
  BY <1>2, <1>3

\* An installer goes on to a step that asks nothing of what it holds, but a
\* preset of those that install one.
LEMMA WorkGoes ==
    ASSUME InstallInv, NEW i \in Installers,
           NEW at \in {"deps", "donor", "donor here", "preset valid", "preset free", "preset published"},
           Goes(i, at),
           at \in PresetSteps => work[i].preset \in Texts
    PROVE  \E w \in Works : SoundWork(w) /\ work' = [work EXCEPT ![i] = w]
<1> DEFINE w == [work[i] EXCEPT !.at = at]
<1>1. work[i] \in Works
  BY DEF InstallInv, InstallTyped
<1>2. w \in Works /\ w.at = at /\ w.preset = work[i].preset
  BY <1>1 DEF Works, PresetSteps
<1>3. SoundWork(w)
  BY <1>2 DEF SoundWork, PluginSteps, PresetSteps
<1>4. work' = [work EXCEPT ![i] = w]
  BY DEF Goes
<1> QED
  BY <1>2, <1>3, <1>4

\* What is read on the way is what may be written again.
LEMMA WorkReads ==
    ASSUME InstallInv, NEW i \in Installers, NEW at \in {"lock read", "preset summed"},
           NEW read, work' = [work EXCEPT ![i].at = at, ![i].read = read],
           \/ at = "lock read" /\ read \in Numbers
           \/ at = "preset summed" /\ read \in Texts /\ work[i].preset \in Texts
    PROVE  \E w \in Works : SoundWork(w) /\ work' = [work EXCEPT ![i] = w]
<1> DEFINE w == [work[i] EXCEPT !.at = at, !.read = read]
<1>1. work[i] \in Works /\ read \in Numbers \cup Texts
  BY DEF InstallInv, InstallTyped
<1>2. w \in Works /\ w.at = at /\ w.read = read /\ w.preset = work[i].preset
  BY <1>1 DEF Works, PresetSteps
<1>3. SoundWork(w)
  BY <1>2 DEF SoundWork, PluginSteps, PresetSteps
<1>4. work' = [work EXCEPT ![i] = w]
  OBVIOUS
<1> QED
  BY <1>2, <1>3, <1>4

\* Steps that leave the plugin and the preset where they are.
LEMMA QuietSteps ==
    ASSUME InstallInv, NEW i \in Installers,
           \/ StartInstall(i) \/ RefuseEntry(i) \/ FetchSource(i) \/ StagePlugin(i) \/ StatPlace(i)
           \/ DropAside(i) \/ InstallRequires(i) \/ DownloadDonor(i) \/ ReadLock(i) \/ WriteDonor(i)
           \/ FetchPreset(i) \/ ValidatePreset(i) \/ SumPreset(i) \/ WriteSidecar(i)
           \/ (MoveAside(i) \/ MovePresetAside(i)) /\ EndsWork(i) /\ UNCHANGED <<place, preset, asides>>
    PROVE  InstallInv'
<1> SUFFICES QuietChange(i)
  BY QuietWork
<1>1. InstallTyped /\ work[i] \in Works /\ SoundWork(work[i])
  BY DEF InstallInv, InstallTyped
<1>2. CASE StartInstall(i) \/ RefuseEntry(i) \/ FetchSource(i) \/ StagePlugin(i) \/ StatPlace(i)
  <2>1. /\ UNCHANGED <<entry, checkout, place, preset, sidecar, asides, donorTemp, installed, deaths>>
        /\ work[i].at \notin {"free", "preset free"}
    BY <1>2 DEF StartInstall, RefuseEntry, FetchSource, StagePlugin, StatPlace, diskVars, aroundVars
  <2> QED
    BY <1>1, <1>2, <2>1, PlansKeep DEF QuietChange, InstallTyped
<1>3. CASE DropAside(i)
  <2>1. /\ UNCHANGED <<entry, checkout, place, preset, sidecar, donorTemp, installed, deaths>>
        /\ work[i].at = "published" /\ asides' = [asides EXCEPT ![i].place = Absent] /\ Goes(i, "deps")
    BY <1>3 DEF DropAside, aroundVars
  <2>2. "deps" \notin PresetSteps
    BY DEF PresetSteps
  <2> QED
    BY <1>1, <2>1, <2>2, WorkGoes DEF QuietChange, InstallTyped
<1>4. CASE InstallRequires(i) \/ DownloadDonor(i)
  <2>1. /\ UNCHANGED <<entry, checkout, place, preset, sidecar, asides, installed, deaths>>
        /\ work[i].at \in {"deps", "donor"}
        /\ Goes(i, "donor") \/ Goes(i, "donor here") \/ AfterPlugin(i)
        /\ donorTemp' \in BOOLEAN
    BY <1>1, <1>4 DEF InstallRequires, DownloadDonor, diskVars, aroundVars, InstallTyped
  <2>2. "donor" \notin PresetSteps /\ "donor here" \notin PresetSteps
    BY DEF PresetSteps
  <2>3. \E w \in Works : SoundWork(w) /\ work' = [work EXCEPT ![i] = w]
    BY <2>1, <2>2, WorkGoes, WorkEnds
  <2> QED
    BY <1>1, <2>1, <2>3 DEF QuietChange, InstallTyped
<1>5. CASE ReadLock(i)
  <2>1. /\ UNCHANGED <<entry, checkout, place, preset, sidecar, asides, donorTemp, installed, deaths>>
        /\ work[i].at = "donor here"
        /\ AfterPlugin(i) \/ work' = [work EXCEPT ![i].at = "lock read", ![i].read = place.lock]
    BY <1>5 DEF ReadLock, diskVars, aroundVars
  <2>2. place.lock \in Numbers
    BY <1>1 DEF InstallTyped, Places
  <2>3. \E w \in Works : SoundWork(w) /\ work' = [work EXCEPT ![i] = w]
    BY <2>1, <2>2, WorkReads, WorkEnds
  <2> QED
    BY <1>1, <2>1, <2>3 DEF QuietChange, InstallTyped
<1>6. CASE WriteDonor(i)
  <2>1. /\ UNCHANGED <<entry, checkout, preset, sidecar, asides, donorTemp, installed, deaths>>
        /\ work[i].at = "lock read" /\ AfterPlugin(i)
        /\ place' = IF place = Absent THEN place ELSE [place EXCEPT !.lock = work[i].read, !.donor = TRUE]
    BY <1>6 DEF WriteDonor, aroundVars
  <2>2. work[i].read \in Numbers /\ place \in Places
    BY <1>1, <2>1 DEF SoundWork, InstallTyped
  <2>3. place' \in Places /\ (place = Absent <=> place' = Absent)
    <3>1. CASE place = Absent
      BY <2>1, <2>2, <3>1
    <3>2. CASE place # Absent
      <4>1. place' \in Places /\ place'.donor = TRUE
        BY <2>1, <2>2, <3>2 DEF Places
      <4> QED
        BY <3>2, <4>1 DEF Absent
    <3> QED
      BY <3>1, <3>2
  <2> QED
    BY <1>1, <2>1, <2>3, WorkEnds DEF QuietChange, InstallTyped
<1>7. CASE FetchPreset(i)
  <2>1. /\ UNCHANGED <<entry, checkout, place, preset, sidecar, asides, donorTemp, installed, deaths>>
        /\ work[i].at = "rest"
    BY <1>7 DEF FetchPreset, diskVars
  <2>2. PICK doc \in Texts, at \in {"preset needs", "preset checked"} :
            work' = [work EXCEPT ![i].preset = doc, ![i].at = at]
    BY <1>7 DEF FetchPreset
  <2> DEFINE w == [work[i] EXCEPT !.preset = doc, !.at = at]
  <2>3. w \in Works /\ w.at = at /\ w.preset = doc
    BY <1>1 DEF Works, PresetSteps
  <2>4. SoundWork(w)
    BY <2>3 DEF SoundWork, PluginSteps, PresetSteps
  <2>5. work' = [work EXCEPT ![i] = w]
    BY <2>2
  <2> HIDE DEF w
  <2> QED
    BY <1>1, <2>1, <2>3, <2>4, <2>5 DEF QuietChange, InstallTyped
<1>8. CASE ValidatePreset(i)
  <2>1. /\ UNCHANGED <<entry, checkout, place, preset, sidecar, asides, donorTemp, installed, deaths>>
        /\ work[i].at = "preset checked"
        /\ EndsWork(i) \/ Goes(i, "preset valid")
    BY <1>8 DEF ValidatePreset, diskVars, aroundVars
  <2>2. work[i].preset \in Texts
    BY <1>1, <2>1 DEF SoundWork, PresetSteps
  <2>3. \E w \in Works : SoundWork(w) /\ work' = [work EXCEPT ![i] = w]
    BY <2>1, <2>2, WorkGoes, WorkEnds
  <2> QED
    BY <1>1, <2>1, <2>3 DEF QuietChange, InstallTyped
<1>9. CASE SumPreset(i)
  <2>1. /\ UNCHANGED <<entry, checkout, place, preset, sidecar, asides, donorTemp, installed, deaths>>
        /\ work[i].at = "preset published"
        /\ \/ EndsWork(i)
           \/ preset # 0 /\ work' = [work EXCEPT ![i].at = "preset summed", ![i].read = preset]
    BY <1>9 DEF SumPreset, diskVars, aroundVars
  <2>2. work[i].preset \in Texts /\ (preset # 0 => preset \in Texts)
    BY <1>1, <2>1 DEF SoundWork, PresetSteps, InstallTyped
  <2>3. \E w \in Works : SoundWork(w) /\ work' = [work EXCEPT ![i] = w]
    BY <2>1, <2>2, WorkReads, WorkEnds
  <2> QED
    BY <1>1, <2>1, <2>3 DEF QuietChange, InstallTyped
<1>10. CASE WriteSidecar(i)
  <2>1. /\ UNCHANGED <<entry, checkout, place, preset, asides, donorTemp, installed, deaths>>
        /\ work[i].at = "preset summed" /\ EndsWork(i) /\ sidecar' = work[i].read
    BY <1>10 DEF WriteSidecar, aroundVars
  <2>2. sidecar' \in Texts \cup {0}
    BY <1>1, <2>1 DEF SoundWork
  <2> QED
    BY <1>1, <2>1, <2>2, WorkEnds DEF QuietChange, InstallTyped
<1>11. CASE (MoveAside(i) \/ MovePresetAside(i)) /\ EndsWork(i) /\ UNCHANGED <<place, preset, asides>>
  <2>1. /\ UNCHANGED <<entry, checkout, place, preset, sidecar, asides, donorTemp, installed, deaths>>
        /\ work[i].at \in {"occupied", "preset valid"} /\ EndsWork(i)
    BY <1>11 DEF MoveAside, MovePresetAside, aroundVars
  <2> QED
    BY <1>1, <2>1, WorkEnds DEF QuietChange, InstallTyped
<1> QED
  BY <1>2, <1>3, <1>4, <1>5, <1>6, <1>7, <1>8, <1>9, <1>10, <1>11

\* Who takes the old directory away can give it back.
LEMMA MoveAsideKeeps ==
    ASSUME InstallInv, NEW i \in Installers, MoveAside(i)
    PROVE  InstallInv'
<1>1. InstallTyped /\ PluginIsKept /\ PresetIsKept /\ work[i] \in Works /\ SoundWork(work[i])
  BY DEF InstallInv, InstallTyped
<1>2. CASE place = Absent
  BY <1>2, QuietSteps DEF MoveAside
<1>3. CASE place # Absent
  <2>1. /\ work[i].at = "occupied" /\ asides' = [asides EXCEPT ![i].place = place] /\ place' = Absent
        /\ Goes(i, "free")
        /\ UNCHANGED <<entry, checkout, preset, sidecar, donorTemp, installed, deaths>>
    BY <1>3 DEF MoveAside, aroundVars
  <2> DEFINE w == [work[i] EXCEPT !.at = "free"]
  <2>2. w \in Works /\ w.at = "free" /\ w.lock = work[i].lock /\ w.staged = work[i].staged
    BY <1>1 DEF Works, PluginSteps
  <2>3. SoundWork(w)
    BY <1>1, <2>1, <2>2 DEF SoundWork, PluginSteps, PresetSteps
  <2>4. work' = [work EXCEPT ![i] = w]
    BY <2>1 DEF Goes
  <2> HIDE DEF w
  <2>5. /\ work' \in [Installers -> Works] /\ \A k \in Installers : SoundWork(work'[k])
        /\ work'[i].at = "free" /\ \A k \in Installers \ {i} : work'[k] = work[k]
    BY <1>1, <2>2, <2>3, <2>4 DEF InstallTyped
  <2>6. /\ asides' \in [Installers -> Asides] /\ asides'[i].place = place
        /\ \A k \in Installers \ {i} : asides'[k] = asides[k]
    BY <1>1, <2>1 DEF InstallTyped, Asides
  <2>7. InstallTyped'
    <3>1. Absent \in Places
      BY DEF Absent, Places, Numbers
    <3> QED
      BY <1>1, <2>1, <2>5, <2>6, <3>1 DEF InstallTyped
  <2>8. Replacing(i)'
    BY <1>3, <2>5, <2>6 DEF Replacing
  <2>9. \A k \in Installers : ReplacingPreset(k) => ReplacingPreset(k)'
    BY <2>1, <2>5, <2>6 DEF ReplacingPreset
  <2> QED
    BY <1>1, <2>1, <2>7, <2>8, <2>9 DEF InstallInv, PluginIsKept, PresetIsKept
<1> QED
  BY <1>2, <1>3

\* Who cannot put the new directory in its place puts the old one back.
LEMMA PublishPluginKeeps ==
    ASSUME InstallInv, NEW i \in Installers, PublishPlugin(i)
    PROVE  InstallInv'
<1>1. /\ InstallTyped /\ PluginIsKept /\ PresetIsKept /\ work[i] \in Works /\ SoundWork(work[i])
      /\ asides[i] \in Asides /\ Absent \in Places
  BY DEF InstallInv, InstallTyped, Absent, Places, Numbers
<1>2. /\ work[i].at = "free"
      /\ UNCHANGED <<entry, checkout, preset, sidecar, donorTemp, deaths>>
  BY DEF PublishPlugin, aroundVars
<1>3. CASE /\ place = Absent
           /\ place' = [content |-> work[i].staged, lock |-> work[i].lock, donor |-> FALSE]
           /\ installed' = installed \cup {"plugin"}
           /\ work' = [work EXCEPT ![i] = [AtRest EXCEPT !.at = "published", !.preset = work[i].preset]]
           /\ UNCHANGED asides
  <2> DEFINE w == [AtRest EXCEPT !.at = "published", !.preset = work[i].preset]
  <2>1. AtRest \in Works
    BY DEF AtRest, Works, Numbers
  <2>2. w \in Works /\ w.at = "published"
    BY <1>1, <2>1 DEF Works, AtRest
  <2>3. SoundWork(w)
    BY <2>2 DEF SoundWork, PluginSteps, PresetSteps
  <2>4. work' = [work EXCEPT ![i] = w]
    BY <1>3
  <2> HIDE DEF w
  <2>5. /\ work' \in [Installers -> Works] /\ \A k \in Installers : SoundWork(work'[k])
        /\ \A k \in Installers \ {i} : work'[k] = work[k]
    BY <1>1, <2>2, <2>3, <2>4 DEF InstallTyped
  <2>6. work[i].staged \in (Commits \ Broken) \cup {0} /\ work[i].lock \in Commits
    <3>1. work[i].lock \in Commits /\ work[i].staged \notin Broken /\ work[i].staged \in Numbers
      BY <1>1, <1>2 DEF SoundWork, PluginSteps, Works
    <3> QED
      BY <3>1 DEF Numbers
  <2>7. place' \in Places /\ place' # Absent
    BY <1>3, <2>6, InstallAssumption DEF Places, Numbers, Absent
  <2>8. InstallTyped'
    BY <1>1, <1>2, <1>3, <2>5, <2>7 DEF InstallTyped
  <2>9. \A k \in Installers : ReplacingPreset(k) => ReplacingPreset(k)'
    BY <1>2, <1>3, <2>5 DEF ReplacingPreset
  <2> QED
    BY <1>1, <1>2, <1>3, <2>7, <2>8, <2>9 DEF InstallInv, PluginIsKept, PresetIsKept
<1>4. CASE /\ place' = IF place = Absent /\ asides[i].place # Absent THEN asides[i].place ELSE place
           /\ asides' = [asides EXCEPT ![i].place = Absent]
           /\ EndsWork(i)
           /\ UNCHANGED installed
  <2>1. AtRest \in Works /\ SoundWork(AtRest)
    BY DEF AtRest, Works, Numbers, SoundWork, PluginSteps, PresetSteps
  <2>2. /\ work' \in [Installers -> Works] /\ \A k \in Installers : SoundWork(work'[k])
        /\ \A k \in Installers \ {i} : work'[k] = work[k]
    BY <1>1, <1>4, <2>1 DEF InstallTyped, EndsWork
  <2>3. /\ asides' \in [Installers -> Asides]
        /\ \A k \in Installers \ {i} : asides'[k] = asides[k]
    BY <1>1, <1>4 DEF InstallTyped, Asides
  <2>4. place' \in Places /\ (place # Absent => place' # Absent) /\ (Replacing(i) => place' # Absent)
    BY <1>1, <1>4 DEF InstallTyped, Asides, Replacing
  <2>5. InstallTyped'
    BY <1>1, <1>2, <2>2, <2>3, <2>4 DEF InstallTyped
  <2>6. \A k \in Installers \ {i} : Replacing(k) => Replacing(k)'
    BY <2>2, <2>3 DEF Replacing
  <2>7. \A k \in Installers : ReplacingPreset(k) => ReplacingPreset(k)'
    BY <1>2, <2>2, <2>3 DEF ReplacingPreset
  <2>8. PluginIsKept'
    BY <1>1, <1>2, <1>4, <2>4, <2>6 DEF PluginIsKept
  <2> QED
    BY <1>1, <1>2, <1>4, <2>5, <2>7, <2>8 DEF InstallInv, PresetIsKept
<1> QED
  BY <1>3, <1>4 DEF PublishPlugin, Restores

\* The same of the preset.
LEMMA MovePresetAsideKeeps ==
    ASSUME InstallInv, NEW i \in Installers, MovePresetAside(i)
    PROVE  InstallInv'
<1>1. InstallTyped /\ PluginIsKept /\ PresetIsKept /\ work[i] \in Works /\ SoundWork(work[i])
  BY DEF InstallInv, InstallTyped
<1>2. CASE UNCHANGED <<preset, asides>> /\ EndsWork(i)
  BY <1>2, QuietSteps DEF MovePresetAside
<1>3. CASE /\ asides' = [asides EXCEPT ![i].preset = preset] /\ preset' = 0
           /\ Goes(i, "preset free")
  <2>1. /\ work[i].at = "preset valid"
        /\ UNCHANGED <<entry, checkout, place, sidecar, donorTemp, installed, deaths>>
    BY DEF MovePresetAside, aroundVars
  <2> DEFINE w == [work[i] EXCEPT !.at = "preset free"]
  <2>2. w \in Works /\ w.at = "preset free" /\ w.preset = work[i].preset
    BY <1>1 DEF Works, PresetSteps
  <2>3. SoundWork(w)
    BY <1>1, <2>1, <2>2 DEF SoundWork, PluginSteps, PresetSteps
  <2>4. work' = [work EXCEPT ![i] = w]
    BY <1>3 DEF Goes
  <2> HIDE DEF w
  <2>5. /\ work' \in [Installers -> Works] /\ \A k \in Installers : SoundWork(work'[k])
        /\ work'[i].at = "preset free" /\ \A k \in Installers \ {i} : work'[k] = work[k]
    BY <1>1, <2>2, <2>3, <2>4 DEF InstallTyped
  <2>6. /\ asides' \in [Installers -> Asides] /\ asides'[i].preset = preset
        /\ \A k \in Installers \ {i} : asides'[k] = asides[k]
    BY <1>1, <1>3 DEF InstallTyped, Asides
  <2>7. InstallTyped'
    BY <1>1, <1>3, <2>1, <2>5, <2>6 DEF InstallTyped
  <2>8. \A k \in Installers : Replacing(k) => Replacing(k)'
    BY <2>1, <2>5, <2>6 DEF Replacing
  <2>9. preset # 0 => ReplacingPreset(i)'
    BY <2>5, <2>6 DEF ReplacingPreset
  <2>10. \A k \in Installers : ReplacingPreset(k) => ReplacingPreset(k)'
    BY <2>1, <2>5, <2>6 DEF ReplacingPreset
  <2> QED
    BY <1>1, <2>1, <2>7, <2>8, <2>9, <2>10 DEF InstallInv, PluginIsKept, PresetIsKept
<1> QED
  BY <1>2, <1>3 DEF MovePresetAside

\* A preset takes its place, or what was there is put back.
LEMMA PublishPresetKeeps ==
    ASSUME InstallInv, NEW i \in Installers, PublishPreset(i)
    PROVE  InstallInv'
<1>1. /\ InstallTyped /\ PluginIsKept /\ PresetIsKept /\ work[i] \in Works /\ SoundWork(work[i])
      /\ asides[i] \in Asides
  BY DEF InstallInv, InstallTyped
<1>2. /\ work[i].at = "preset free" /\ asides' = [asides EXCEPT ![i].preset = 0]
      /\ UNCHANGED <<entry, checkout, place, sidecar, donorTemp, deaths>>
  BY DEF PublishPreset, aroundVars
<1>3. /\ \/ preset' = work[i].preset /\ Goes(i, "preset published")
         \/ /\ preset' = IF asides[i].preset # 0 THEN asides[i].preset ELSE preset
            /\ EndsWork(i)
      /\ installed' \in {installed, installed \cup {"preset"}}
      /\ preset' # 0 \/ (UNCHANGED <<installed, preset>> /\ asides[i].preset = 0)
  BY <1>1, <1>2, InstallAssumption DEF PublishPreset, SoundWork, PresetSteps
<1>4. work[i].preset \in Texts
  BY <1>1, <1>2 DEF SoundWork, PresetSteps
<1>5. \E w \in Works : SoundWork(w) /\ work' = [work EXCEPT ![i] = w]
  BY <1>3, <1>4, WorkGoes, WorkEnds
<1>6. /\ work' \in [Installers -> Works] /\ \A k \in Installers : SoundWork(work'[k])
      /\ \A k \in Installers \ {i} : work'[k] = work[k]
  BY <1>1, <1>5 DEF InstallTyped
<1>7. /\ asides' \in [Installers -> Asides]
      /\ \A k \in Installers \ {i} : asides'[k] = asides[k]
  BY <1>1, <1>2 DEF InstallTyped, Asides
<1>8. preset' \in Texts \cup {0}
  BY <1>1, <1>3, <1>4 DEF InstallTyped, Asides
<1>9. InstallTyped'
  BY <1>1, <1>2, <1>6, <1>7, <1>8 DEF InstallTyped
<1>10. \A k \in Installers : Replacing(k) => Replacing(k)'
  BY <1>2, <1>6, <1>7 DEF Replacing
<1>11. PluginIsKept'
  <2>1. "plugin" \in installed' => "plugin" \in installed
    <3>1. CASE installed' = installed
      BY <3>1
    <3>2. CASE installed' = installed \cup {"preset"}
      BY <3>2
    <3> QED
      BY <1>3, <3>1, <3>2
  <2> QED
    BY <1>1, <1>2, <1>10, <2>1 DEF PluginIsKept
<1>12. PresetIsKept'
  <2>1. CASE preset' # 0
    BY <2>1 DEF PresetIsKept
  <2>2. CASE UNCHANGED <<installed, preset>> /\ asides[i].preset = 0
    <3>1. \A k \in Installers : ReplacingPreset(k) => k # i /\ ReplacingPreset(k)'
      BY <1>6, <1>7, <2>2 DEF ReplacingPreset
    <3> QED
      BY <1>1, <1>2, <2>2, <3>1 DEF PresetIsKept
  <2> QED
    BY <1>3, <2>1, <2>2
<1> QED
  BY <1>9, <1>11, <1>12 DEF InstallInv

\* A death and a change of the repository, and nothing.
LEMMA MishapsKeep ==
    ASSUME InstallInv, EditCheckout \/ (\E i \in Installers : InstallerDies(i)) \/ UNCHANGED installVars
    PROVE  InstallInv'
<1>1. InstallTyped /\ PluginIsKept /\ PresetIsKept
  BY DEF InstallInv
<1>2. ASSUME NEW i \in Installers, InstallerDies(i)
      PROVE  InstallInv'
  <2>1. /\ deaths' = deaths + 1 /\ EndsWork(i) /\ donorTemp' \in BOOLEAN
        /\ asides' = [asides EXCEPT ![i] = NothingAside]
        /\ UNCHANGED <<entry, checkout, place, preset, sidecar, installed>>
    BY <1>2 DEF InstallerDies
  <2>2. AtRest \in Works /\ SoundWork(AtRest) /\ NothingAside \in Asides
    BY DEF AtRest, Works, Numbers, SoundWork, PluginSteps, PresetSteps, NothingAside, Asides, Absent, Places
  <2>3. /\ work' \in [Installers -> Works] /\ \A k \in Installers : SoundWork(work'[k])
        /\ asides' \in [Installers -> Asides]
    BY <1>1, <2>1, <2>2 DEF InstallTyped, EndsWork
  <2>4. deaths' \in Nat /\ deaths' # 0
    BY <1>1, <2>1 DEF InstallTyped
  <2> QED
    BY <1>1, <2>1, <2>3, <2>4 DEF InstallInv, InstallTyped, PluginIsKept, PresetIsKept
<1>3. CASE EditCheckout
  <2>1. UNCHANGED <<entry, place, preset, sidecar, asides, donorTemp, installed, work, deaths>>
    BY <1>3 DEF EditCheckout, diskVars
  <2>2. checkout' \in [head : Commits, files : Numbers]
    BY <1>1, <1>3 DEF EditCheckout, InstallTyped, Numbers
  <2>3. InstallTyped'
    BY <1>1, <2>1, <2>2 DEF InstallTyped
  <2> QED
    BY <1>1, <2>1, <2>3 DEF InstallInv, PluginIsKept, PresetIsKept, Replacing, ReplacingPreset
<1>4. CASE UNCHANGED installVars
  <2>1. UNCHANGED <<entry, checkout, place, preset, sidecar, asides, donorTemp, installed, work, deaths>>
    BY <1>4 DEF installVars
  <2>2. InstallTyped'
    BY <1>1, <2>1 DEF InstallTyped
  <2> QED
    BY <1>1, <2>1, <2>2 DEF InstallInv, PluginIsKept, PresetIsKept, Replacing, ReplacingPreset
<1> QED
  BY <1>2, <1>3, <1>4

\* The invariant of installation.
THEOREM InstallInvariant == InstallSpec => []InstallInv
<1>1. InstallInv /\ [InstallNext]_installVars => InstallInv'
  <2> SUFFICES ASSUME InstallInv, [InstallNext]_installVars PROVE InstallInv'
    OBVIOUS
  <2>1. ASSUME NEW i \in Installers, InstallerNext(i)
        PROVE  InstallInv'
    BY <2>1, QuietSteps, MoveAsideKeeps, PublishPluginKeeps, MovePresetAsideKeeps, PublishPresetKeeps,
       MishapsKeep DEF InstallerNext
  <2> QED
    BY <2>1, MishapsKeep DEF InstallNext
<1> QED
  BY <1>1, InstallStart, PTL DEF InstallSpec

\* Whatever the order of the steps of several installers, and whichever rename
\* fails, what was installed once is in its place, or an installer that goes on
\* holds it and gives it back (install.go:306-334, cli/install.go:105-134).
THEOREM InstalledStays == InstallSpec => []NothingIsLost
<1>1. InstallInv => NothingIsLost
  <2> SUFFICES ASSUME InstallInv, ~(deaths > 0) PROVE NothingIsLost
    BY DEF NothingIsLost
  <2>1. deaths = 0
    BY DEF InstallInv, InstallTyped
  <2> QED
    BY <2>1 DEF InstallInv, PluginIsKept, PresetIsKept, Replacing, ReplacingPreset, NothingIsLost
<1> QED
  BY <1>1, InstallInvariant, PTL

\* No plugin with a broken manifest is in its place or aside, and the registry's
\* entry, the preset and its sum are what they may be (install.go:285-340).
THEOREM InstallIsTyped == InstallSpec => []InstallTypeOK
<1>1. InstallInv => InstallTypeOK
  <2> SUFFICES ASSUME InstallInv PROVE InstallTypeOK
    OBVIOUS
  <2>1. /\ entry \in Entries /\ checkout.head \in Commits /\ checkout.files \in Numbers
        /\ preset \in Texts \cup {0} /\ sidecar \in Texts \cup {0} /\ donorTemp \in BOOLEAN
        /\ place \in Places /\ \A i \in Installers : asides[i].place \in Places
    BY DEF InstallInv, InstallTyped, Asides
  <2>2. \A p \in Places : p.content \in (Commits \ Broken) \cup {0} /\ p.lock \in Numbers
    BY DEF Places
  <2> QED
    BY <2>1, <2>2 DEF InstallTypeOK, Numbers
<1> QED
  BY <1>1, InstallInvariant, PTL

-----------------------------------------------------------------------------
(* Presets in the visual editor                                            *)

Fields == {"onError", "timeout", "when", "rest", "network", "chain"}
WhenKinds == [op : Ops \cup {""}, value : Compared \ {"missing"}]
Documents ==
    [onError : {"", "stop", "skip"}, timeout : {"", "2m", "oops"}, when : WhenKinds,
     input : [typed : BOOLEAN, hasDefault : BOOLEAN, default : Defaults],
     network : {"", "deny", "allow", "odd"}, rest : {1, 2}]
OpenTabs == [stage : {"open", "saving", "writing"}, doc : Documents, from : Pipelines0, touched : SUBSET Fields]

PresetsTyped ==
    /\ presetFile \in Pipelines0 \cup {Torn}
    /\ open \in SUBSET Tabs /\ texts \in Nat /\ spoilt \in BOOLEAN
    /\ tab \in [Tabs -> {Closed, Saved} \cup OpenTabs]
    /\ DOMAIN text = Tabs /\ text = [t \in Tabs |-> text[t]]

\* The document d of a preset p, all but the changed fields of which are p's.
\* A chain leaves the network alone, and empty.
Keeps(d, p, changed) ==
    /\ "onError" \notin changed => d.onError = EffectiveOnError(p)
    /\ "timeout" \notin changed => d.timeout = p.timeout
    /\ "when" \notin changed => d.when = p.when
    /\ "rest" \notin changed => d.rest = p.rest
    /\ d.input = Parse(p).input
    /\ "network" \notin changed => d.network = IF "chain" \in changed THEN "" ELSE p.network

TabIsSound(t) ==
    /\ tab[t].stage \in {"open", "saving", "writing"} => Keeps(tab[t].doc, tab[t].from, tab[t].touched)
    /\ tab[t].stage \in {"saving", "writing"} => text[t] = Serialize(tab[t].doc)
    /\ t \in open <=> tab[t].stage = "writing"

\* Unless a write was cut off or met another, one tab at most has the file open,
\* and then nothing is in it.
OneWriter ==
    ~spoilt =>
        /\ \A t, u \in open : t = u
        /\ open # {} => texts = 0
        /\ presetFile = Torn => open # {}

PresetsInv == PresetsTyped /\ OneWriter /\ \A t \in Tabs : TabIsSound(t)

\* What is parsed is a document that keeps its preset.
LEMMA DocumentOfPreset ==
    ASSUME NEW p \in Pipelines0
    PROVE  Parse(p) \in Documents /\ Keeps(Parse(p), p, {})
<1>1. /\ p.onError \in {"", "stop", "skip"} /\ p.timeout \in {"", "2m", "oops"} /\ p.when \in WhenKinds
      /\ p.input.declared \in BOOLEAN /\ p.input.default \in Defaults
      /\ p.network \in {"", "deny", "allow", "odd"} /\ p.rest \in {1, 2}
  BY DEF Pipelines0, WhenKinds
<1>2. EffectiveOnError(p) \in {"", "stop", "skip"}
  BY <1>1 DEF EffectiveOnError
<1>3. AsFloat(p.input.default) \in Defaults
  BY <1>1 DEF AsFloat, Defaults
<1>4. Parse(p).input \in [typed : BOOLEAN, hasDefault : BOOLEAN, default : Defaults]
  BY <1>1, <1>3 DEF Parse
<1>5. /\ Parse(p).onError = EffectiveOnError(p) /\ Parse(p).timeout = p.timeout /\ Parse(p).when = p.when
      /\ Parse(p).network = p.network /\ Parse(p).rest = p.rest
  BY DEF Parse
<1>6. Parse(p) \in Documents
  BY <1>1, <1>2, <1>3 DEF Parse, Documents
<1> QED
  BY <1>5, <1>6 DEF Keeps

\* What is serialized is a preset.
LEMMA TextOfDocument ==
    ASSUME NEW d \in Documents
    PROVE  Serialize(d) \in Pipelines0
<1>1. /\ d.onError \in {"", "stop", "skip"} /\ d.timeout \in {"", "2m", "oops"} /\ d.when \in WhenKinds
      /\ d.input.typed \in BOOLEAN /\ d.input.hasDefault \in BOOLEAN /\ d.input.default \in Defaults
      /\ d.network \in {"", "deny", "allow", "odd"} /\ d.rest \in {1, 2}
  BY DEF Documents
<1>2. WhenWritten(d.when) \in WhenKinds
  BY <1>1 DEF WhenWritten, WhenKinds, Compared
<1>3. InputWritten(d.input) \in [declared : BOOLEAN, default : Defaults]
  BY <1>1 DEF InputWritten, Defaults
<1>4. NetworkWritten(d.network) \in {"", "deny", "allow", "odd"}
  BY <1>1 DEF NetworkWritten
<1> QED
  BY <1>1, <1>2, <1>3, <1>4 DEF Serialize, Pipelines0, WhenKinds

\* The round trip: the text of a document that keeps a preset means what the
\* preset meant.
LEMMA RoundTripMeans ==
    ASSUME NEW p \in Pipelines0, NEW d \in Documents, NEW changed \in SUBSET Fields, Keeps(d, p, changed),
           NEW q, q = Serialize(d)
    PROVE  /\ "onError" \notin changed => EffectiveOnError(q) = EffectiveOnError(p)
           /\ "timeout" \notin changed => q.timeout = p.timeout
           /\ "when" \notin changed /\ ~LosesWhen(p.when) => SameWhen(q.when, p.when)
           /\ "rest" \notin changed => q.rest = p.rest
           /\ p.input.default # "big" => q.input = p.input
           /\ "network" \notin changed /\ "chain" \notin changed /\ ~HasPresetErrors(p)
                 => EffectiveNetwork(q) = EffectiveNetwork(p)
           /\ q.network = "allow" => "network" \in changed \/ (p.network = "allow" /\ "chain" \notin changed)
<1>1. /\ q.onError = d.onError /\ q.timeout = d.timeout /\ q.when = WhenWritten(d.when)
      /\ q.input = InputWritten(d.input) /\ q.network = NetworkWritten(d.network) /\ q.rest = d.rest
  BY DEF Serialize
<1>2. "onError" \notin changed => EffectiveOnError(q) = EffectiveOnError(p)
  BY <1>1 DEF Keeps, EffectiveOnError
<1>3. "when" \notin changed /\ ~LosesWhen(p.when) => SameWhen(q.when, p.when)
  <2>1. "when" \notin changed /\ ~LosesWhen(p.when) => q.when = p.when
    BY <1>1 DEF Keeps, LosesWhen, WhenWritten
  <2> QED
    BY <2>1 DEF SameWhen
<1>4. p.input.default # "big" => q.input = p.input
  <2>1. p.input \in [declared : BOOLEAN, default : Defaults]
    BY DEF Pipelines0
  <2>2. d.input = [typed |-> p.input.declared, hasDefault |-> p.input.default # "absent",
                   default |-> AsFloat(p.input.default)]
    BY DEF Keeps, Parse
  <2>3. p.input.default # "big" =>
            q.input = [declared |-> p.input.declared, default |-> p.input.default]
    BY <1>1, <2>1, <2>2 DEF InputWritten, AsFloat
  <2> QED
    BY <2>1, <2>3
<1>5. p.network \in {"", "deny", "allow", "odd"}
  BY DEF Pipelines0
<1>6. "network" \notin changed /\ "chain" \notin changed /\ ~HasPresetErrors(p)
         => EffectiveNetwork(q) = EffectiveNetwork(p)
  BY <1>1, <1>5 DEF Keeps, EffectiveNetwork, NetworkWritten, HasPresetErrors
<1>7. q.network = "allow" => "network" \in changed \/ (p.network = "allow" /\ "chain" \notin changed)
  BY <1>1, <1>5 DEF Keeps, NetworkWritten
<1>8. /\ "timeout" \notin changed => q.timeout = p.timeout
      /\ "rest" \notin changed => q.rest = p.rest
  BY <1>1 DEF Keeps
<1> QED
  BY <1>2, <1>3, <1>4, <1>6, <1>7, <1>8

\* A file that was cut off is no preset.
LEMMA TornIsNoPreset == Torn \notin Pipelines0
<1>1. ASSUME NEW p \in Pipelines0
      PROVE  "onError" \in DOMAIN p
  BY DEF Pipelines0
<1>2. "onError" \notin DOMAIN Torn
  BY DEF Torn
<1> QED
  BY <1>1, <1>2

\* At the start no tab has a document.
LEMMA PresetsStart == PresetEditingInit => PresetsInv
<1> SUFFICES ASSUME PresetEditingInit PROVE PresetsInv
  OBVIOUS
<1>1. presetFile \in Pipelines0 /\ presetFile # Torn
  BY PresetsAssumption, TornIsNoPreset DEF PresetEditingInit
<1>2. \A t \in Tabs : tab[t].stage = "closed"
  BY DEF PresetEditingInit, Closed
<1>3. PresetsTyped
  BY <1>1 DEF PresetEditingInit, PresetsTyped
<1>4. OneWriter
  BY <1>1 DEF PresetEditingInit, OneWriter
<1> QED
  BY <1>2, <1>3, <1>4 DEF PresetEditingInit, PresetsInv, TabIsSound

\* What is known of a tab that has a document.
LEMMA TabHasDocument ==
    ASSUME PresetsInv, NEW t \in Tabs, tab[t].stage \in {"open", "saving", "writing"}
    PROVE  /\ tab[t] \in OpenTabs /\ Keeps(tab[t].doc, tab[t].from, tab[t].touched)
           /\ tab[t].doc \in Documents /\ tab[t].from \in Pipelines0 /\ tab[t].touched \in SUBSET Fields
<1>1. tab[t] \in {Closed, Saved} \cup OpenTabs
  BY DEF PresetsInv, PresetsTyped
<1>2. tab[t] # Closed /\ tab[t] # Saved
  BY DEF Closed, Saved
<1> QED
  BY <1>1, <1>2 DEF PresetsInv, TabIsSound, OpenTabs

\* Steps of a tab that leave the file alone: the tab's new record is sound.
LEMMA TabMoves ==
    ASSUME PresetsInv, NEW t \in Tabs, NEW new,
           UNCHANGED <<presetFile, open, texts, spoilt>>,
           tab' = [tab EXCEPT ![t] = new],
           \/ text' = text /\ new.stage = "open"
           \/ text' = [text EXCEPT ![t] = Serialize(new.doc)] /\ new.stage = "saving",
           tab[t].stage \in {"closed", "open"},
           new \in OpenTabs, Keeps(new.doc, new.from, new.touched)
    PROVE  PresetsInv'
<1>1. PresetsTyped /\ OneWriter /\ \A u \in Tabs : TabIsSound(u)
  BY DEF PresetsInv
<1>2. /\ DOMAIN tab = Tabs /\ DOMAIN text = Tabs /\ t \notin open
      /\ text = [u \in Tabs |-> text[u]]
  BY <1>1 DEF PresetsTyped, TabIsSound
<1>3. /\ tab'[t] = new /\ \A u \in Tabs \ {t} : tab'[u] = tab[u]
      /\ new.stage = "saving" => text'[t] = Serialize(new.doc)
      /\ \A u \in Tabs \ {t} : text'[u] = text[u]
  BY <1>2
<1>4. PresetsTyped'
  <2>1. tab' \in [Tabs -> {Closed, Saved} \cup OpenTabs]
    BY <1>1 DEF PresetsTyped
  <2>2. DOMAIN text' = Tabs /\ text' = [u \in Tabs |-> text'[u]]
    BY <1>2
  <2> QED
    BY <1>1, <2>1, <2>2 DEF PresetsTyped
<1>5. OneWriter'
  BY <1>1 DEF OneWriter
<1>6. ASSUME NEW u \in Tabs
      PROVE  TabIsSound(u)'
  <2>1. CASE u = t
    BY <1>2, <1>3, <2>1 DEF TabIsSound
  <2>2. CASE u # t
    BY <1>1, <1>3, <2>2 DEF TabIsSound
  <2> QED
    BY <2>1, <2>2
<1> QED
  BY <1>4, <1>5, <1>6 DEF PresetsInv

\* A tab leaves the file: written, or cut off.
LEMMA TabLeaves ==
    ASSUME PresetsInv, NEW t \in Tabs, tab[t].stage = "writing",
           open' = open \ {t}, tab' = [tab EXCEPT ![t] = Saved], text' = [text EXCEPT ![t] = NoText],
           presetFile' \in Pipelines0 \cup {Torn}, texts' \in Nat, spoilt' \in BOOLEAN,
           ~spoilt' => ~spoilt /\ presetFile' # Torn
    PROVE  PresetsInv'
<1>1. PresetsTyped /\ OneWriter /\ \A u \in Tabs : TabIsSound(u)
  BY DEF PresetsInv
<1>2. DOMAIN tab = Tabs /\ DOMAIN text = Tabs /\ t \in open /\ text = [u \in Tabs |-> text[u]]
  BY <1>1 DEF PresetsTyped, TabIsSound
<1>3. /\ tab'[t] = Saved /\ \A u \in Tabs \ {t} : tab'[u] = tab[u] /\ text'[u] = text[u]
  BY <1>2
<1>4. PresetsTyped'
  <2>1. tab' \in [Tabs -> {Closed, Saved} \cup OpenTabs]
    BY <1>1 DEF PresetsTyped
  <2>2. DOMAIN text' = Tabs /\ text' = [u \in Tabs |-> text'[u]]
    BY <1>2
  <2>3. open' \in SUBSET Tabs
    BY <1>1 DEF PresetsTyped
  <2> QED
    BY <2>1, <2>2, <2>3 DEF PresetsTyped
<1>5. OneWriter'
  <2>1. ~spoilt' => open' = {}
    BY <1>1, <1>2 DEF OneWriter
  <2> QED
    BY <2>1 DEF OneWriter
<1>6. ASSUME NEW u \in Tabs
      PROVE  TabIsSound(u)'
  <2>1. CASE u = t
    <3>1. tab'[t].stage = "saved" /\ t \notin open'
      BY <1>3 DEF Saved
    <3> QED
      BY <2>1, <3>1 DEF TabIsSound
  <2>2. CASE u # t
    BY <1>1, <1>3, <2>2 DEF TabIsSound
  <2> QED
    BY <2>1, <2>2
<1> QED
  BY <1>4, <1>5, <1>6 DEF PresetsInv

\* A human's change of one field.
LEMMA ChangeKeeps ==
    ASSUME PresetsInv, NEW t \in Tabs, NEW field, NEW value, ChangeField(t, field, value),
           <<field, value>> \in {<<"rest", 2>>, <<"network", "allow">>, <<"timeout", "oops">>}
    PROVE  PresetsInv'
<1> DEFINE d == tab[t].doc
           e == [d EXCEPT ![field] = value]
           new == [tab[t] EXCEPT !.doc = e, !.touched = @ \cup {field}]
<1>1. tab[t].stage = "open"
  BY DEF ChangeField
<1>2. tab[t] \in OpenTabs /\ Keeps(d, tab[t].from, tab[t].touched) /\ d \in Documents
  BY <1>1, TabHasDocument
<1>3. /\ UNCHANGED <<presetFile, open, texts, text, spoilt>>
      /\ tab' = [tab EXCEPT ![t] = new]
  BY DEF ChangeField
<1>4. field \in {"rest", "network", "timeout"} /\ field \in Fields
  BY DEF Fields
<1>5. e \in Documents
  BY <1>2, <1>4 DEF Documents
<1>6. \A f \in {"onError", "timeout", "when", "input", "network", "rest"} \ {field} : e[f] = d[f]
  BY <1>2, <1>4 DEF Documents
<1>7. /\ e.onError = d.onError /\ e.when = d.when /\ e.input = d.input
      /\ field # "timeout" => e.timeout = d.timeout
      /\ field # "network" => e.network = d.network
      /\ field # "rest" => e.rest = d.rest
  BY <1>4, <1>6
<1>8. new \in OpenTabs /\ new.stage = "open" /\ new.doc = e /\ new.from = tab[t].from
      /\ new.touched = tab[t].touched \cup {field}
  BY <1>1, <1>2, <1>4, <1>5 DEF OpenTabs
<1> HIDE DEF e
<1>9. Keeps(e, new.from, new.touched)
  BY <1>2, <1>4, <1>7, <1>8 DEF Keeps
<1> HIDE DEF new
<1> QED
  BY <1>1, <1>3, <1>8, <1>9, TabMoves

\* A chain that is applied changes the fields it says.
LEMMA ChainKeeps ==
    ASSUME PresetsInv, NEW t \in Tabs, NEW p \in Chains, ApplyPreset(t, p)
    PROVE  PresetsInv'
<1> DEFINE d == Parse(p)
           e == [d EXCEPT !.input = tab[t].doc.input, !.network = ""]
           changed == (tab[t].touched \ {"network"}) \cup {"onError", "timeout", "when", "rest", "chain"}
           new == [tab[t] EXCEPT !.doc = e, !.touched = changed]
<1>1. tab[t].stage = "open"
  BY DEF ApplyPreset
<1>2. /\ tab[t] \in OpenTabs /\ Keeps(tab[t].doc, tab[t].from, tab[t].touched)
      /\ tab[t].doc \in Documents /\ tab[t].touched \in SUBSET Fields
  BY <1>1, TabHasDocument
<1>3. d \in Documents
  BY PresetsAssumption, DocumentOfPreset
<1>4. UNCHANGED <<presetFile, open, texts, text, spoilt>> /\ tab' = [tab EXCEPT ![t] = new]
  BY DEF ApplyPreset
<1> HIDE DEF d
<1>5. e \in Documents /\ e.input = tab[t].doc.input /\ e.network = ""
  BY <1>2, <1>3 DEF Documents
<1>6. changed \in SUBSET Fields
  BY <1>2 DEF Fields
<1> HIDE DEF e
<1>7. new \in OpenTabs /\ new.stage = "open" /\ new.doc = e /\ new.from = tab[t].from /\ new.touched = changed
  BY <1>1, <1>2, <1>5, <1>6 DEF OpenTabs
<1>8. Keeps(e, new.from, changed)
  BY <1>2, <1>5, <1>7 DEF Keeps
<1> HIDE DEF new, changed
<1> QED
  BY <1>1, <1>4, <1>7, <1>8, TabMoves

\* A preset that is opened becomes the document of the tab.
LEMMA OpenKeeps ==
    ASSUME PresetsInv, NEW t \in Tabs, OpenPreset(t)
    PROVE  PresetsInv'
<1> DEFINE new == [stage |-> "open", doc |-> Parse(presetFile), from |-> presetFile, touched |-> {}]
<1>1. presetFile \in Pipelines0
  BY DEF OpenPreset, PresetsInv, PresetsTyped
<1>2. Parse(presetFile) \in Documents /\ Keeps(Parse(presetFile), presetFile, {})
  BY <1>1, DocumentOfPreset
<1>3. new \in OpenTabs /\ new.stage = "open" /\ Keeps(new.doc, new.from, new.touched)
  BY <1>1, <1>2 DEF OpenTabs
<1>4. /\ UNCHANGED <<presetFile, open, texts, text, spoilt>> /\ tab' = [tab EXCEPT ![t] = new]
      /\ tab[t].stage = "closed"
  BY DEF OpenPreset
<1> HIDE DEF new
<1> QED
  BY <1>3, <1>4, TabMoves

\* A save serializes the document at hand.
LEMMA SaveKeeps ==
    ASSUME PresetsInv, NEW t \in Tabs, SavePreset(t)
    PROVE  PresetsInv'
<1> DEFINE new == [tab[t] EXCEPT !.stage = "saving"]
<1>1. tab[t].stage = "open"
  BY DEF SavePreset
<1>2. tab[t] \in OpenTabs /\ Keeps(tab[t].doc, tab[t].from, tab[t].touched)
  BY <1>1, TabHasDocument
<1>3. /\ new \in OpenTabs /\ new.stage = "saving" /\ Keeps(new.doc, new.from, new.touched)
      /\ new.doc = tab[t].doc
  BY <1>2 DEF OpenTabs
<1>4. /\ UNCHANGED <<presetFile, open, texts, spoilt>> /\ tab' = [tab EXCEPT ![t] = new]
      /\ text' = [text EXCEPT ![t] = Serialize(tab[t].doc)]
  BY DEF SavePreset
<1> HIDE DEF new
<1> QED
  BY <1>1, <1>3, <1>4, TabMoves

\* The file is emptied: of what others may write, the tab's own is not spoilt.
LEMMA PutKeeps ==
    ASSUME PresetsInv, NEW t \in Tabs, PutPreset(t)
    PROVE  PresetsInv'
<1>1. PresetsTyped /\ OneWriter /\ \A u \in Tabs : TabIsSound(u)
  BY DEF PresetsInv
<1>2. tab[t].stage = "saving"
  BY DEF PutPreset
<1>3. tab[t] \in OpenTabs /\ Keeps(tab[t].doc, tab[t].from, tab[t].touched)
  BY <1>2, TabHasDocument
<1> DEFINE new == [tab[t] EXCEPT !.stage = "writing"]
<1>4. /\ new \in OpenTabs /\ new.stage = "writing" /\ Keeps(new.doc, new.from, new.touched)
      /\ new.doc = tab[t].doc
  BY <1>3 DEF OpenTabs
<1>5. /\ tab' = [tab EXCEPT ![t] = new] /\ text' = text
      /\ spoilt' = (spoilt \/ open # {}) /\ presetFile' = Torn /\ texts' = 0 /\ open' = open \cup {t}
  BY DEF PutPreset
<1> HIDE DEF new
<1>6. tab'[t] = new /\ \A u \in Tabs \ {t} : tab'[u] = tab[u]
  BY <1>1, <1>5 DEF PresetsTyped
<1>7. PresetsTyped'
  <2>1. tab' \in [Tabs -> {Closed, Saved} \cup OpenTabs]
    BY <1>1, <1>4, <1>5 DEF PresetsTyped
  <2>2. spoilt' \in BOOLEAN /\ open' \in SUBSET Tabs
    BY <1>1, <1>5 DEF PresetsTyped
  <2> QED
    BY <1>1, <1>5, <2>1, <2>2 DEF PresetsTyped
<1>8. OneWriter'
  <2>1. ~spoilt' => open' = {t}
    BY <1>5
  <2> QED
    BY <1>5, <2>1 DEF OneWriter
<1>9. ASSUME NEW u \in Tabs
      PROVE  TabIsSound(u)'
  <2>1. CASE u = t
    <3>1. text[t] = Serialize(tab[t].doc)
      BY <1>1, <1>2 DEF TabIsSound
    <3> QED
      BY <1>4, <1>5, <1>6, <2>1, <3>1 DEF TabIsSound
  <2>2. CASE u # t
    BY <1>1, <1>5, <1>6, <2>2 DEF TabIsSound
  <2> QED
    BY <2>1, <2>2
<1> QED
  BY <1>7, <1>8, <1>9 DEF PresetsInv

\* A write ends with the tab's text in the file, or with a torn one.
LEMMA WriteKeeps ==
    ASSUME PresetsInv, NEW t \in Tabs, WritePreset(t) \/ WriteCutOff(t)
    PROVE  PresetsInv'
<1>1. PresetsTyped /\ OneWriter /\ TabIsSound(t)
  BY DEF PresetsInv
<1>2. tab[t].stage = "writing"
  BY DEF WritePreset, WriteCutOff
<1>3. text[t] \in Pipelines0 /\ text[t] # Torn
  <2>1. tab[t].doc \in Documents
    BY <1>2, TabHasDocument
  <2> QED
    BY <1>1, <1>2, <2>1, TextOfDocument, TornIsNoPreset DEF TabIsSound
<1>4. CASE WritePreset(t)
  <2>1. ~spoilt => texts = 0
    BY <1>1, <1>2 DEF OneWriter, TabIsSound
  <2>2. /\ open' = open \ {t} /\ tab' = [tab EXCEPT ![t] = Saved] /\ text' = [text EXCEPT ![t] = NoText]
        /\ spoilt' = spoilt /\ texts' = texts + 1
        /\ presetFile' \in (IF texts = 0 THEN {text[t]} ELSE {text[t], Torn})
    BY <1>4 DEF WritePreset
  <2>3. presetFile' \in Pipelines0 \cup {Torn} /\ (~spoilt' => presetFile' # Torn)
    BY <1>3, <2>1, <2>2
  <2>4. texts' \in Nat /\ spoilt' \in BOOLEAN
    BY <1>1, <2>2 DEF PresetsTyped
  <2> QED
    BY <1>2, <2>2, <2>3, <2>4, TabLeaves
<1>5. CASE WriteCutOff(t)
  <2>1. /\ open' = open \ {t} /\ tab' = [tab EXCEPT ![t] = Saved] /\ text' = [text EXCEPT ![t] = NoText]
        /\ spoilt' = TRUE /\ texts' = texts /\ presetFile' \in {presetFile, Torn}
    BY <1>5 DEF WriteCutOff
  <2>2. presetFile' \in Pipelines0 \cup {Torn} /\ texts' \in Nat
    BY <1>1, <2>1 DEF PresetsTyped
  <2> QED
    BY <1>2, <2>1, <2>2, TabLeaves
<1> QED
  BY <1>4, <1>5

\* The invariant of the presets is inductive.
LEMMA PresetsStep == PresetsInv /\ [PresetNext]_presetVars => PresetsInv'
<1> SUFFICES ASSUME PresetsInv, [PresetNext]_presetVars PROVE PresetsInv'
  OBVIOUS
<1>1. CASE UNCHANGED presetVars
  BY <1>1 DEF presetVars, PresetsInv, PresetsTyped, OneWriter, TabIsSound
<1>2. ASSUME NEW t \in Tabs, EditPreset(t)
      PROVE  PresetsInv'
  <2>1. CASE ChangeField(t, "rest", 2)
    BY <2>1, ChangeKeeps
  <2>2. CASE ChangeField(t, "network", "allow")
    BY <2>2, ChangeKeeps
  <2>3. CASE ChangeField(t, "timeout", "oops")
    BY <2>3, ChangeKeeps
  <2> QED
    BY <1>2, <2>1, <2>2, <2>3 DEF EditPreset
<1> QED
  BY <1>1, <1>2, ChainKeeps, OpenKeeps, SaveKeeps, PutKeeps, WriteKeeps DEF PresetNext

\* It implies that presets mean what was saved.
LEMMA PresetsAreSound == PresetsInv => PresetsAreMeant
<1> SUFFICES ASSUME PresetsInv PROVE PresetsAreMeant
  OBVIOUS
<1>1. ASSUME NEW t \in Tabs, tab[t].stage \in {"saving", "writing"}
      PROVE  SavesWhatWasMeant(t) /\ NetworkIsGranted(t)
  <2>1. /\ tab[t].from \in Pipelines0 /\ tab[t].doc \in Documents /\ tab[t].touched \in SUBSET Fields
        /\ Keeps(tab[t].doc, tab[t].from, tab[t].touched)
    BY <1>1, TabHasDocument
  <2>2. text[t] = Serialize(tab[t].doc)
    BY <1>1 DEF PresetsInv, TabIsSound
  <2> DEFINE Meant(p, q, changed) ==
                /\ "onError" \notin changed => EffectiveOnError(q) = EffectiveOnError(p)
                /\ "timeout" \notin changed => q.timeout = p.timeout
                /\ "when" \notin changed /\ ~LosesWhen(p.when) => SameWhen(q.when, p.when)
                /\ "rest" \notin changed => q.rest = p.rest
                /\ p.input.default # "big" => q.input = p.input
                /\ "network" \notin changed /\ "chain" \notin changed /\ ~HasPresetErrors(p)
                      => EffectiveNetwork(q) = EffectiveNetwork(p)
                /\ q.network = "allow" => "network" \in changed \/ (p.network = "allow" /\ "chain" \notin changed)
  <2>3. Meant(tab[t].from, text[t], tab[t].touched)
    BY <2>1, <2>2, RoundTripMeans
  <2> QED
    BY <2>3 DEF SavesWhatWasMeant, NetworkIsGranted, Untouched
<1>2. presetFile = Torn => open # {} \/ spoilt
  BY DEF PresetsInv, OneWriter
<1> QED
  BY <1>1, <1>2 DEF PresetsAreMeant

-----------------------------------------------------------------------------
(* Edits of a plugin                                                       *)

EditPlaces == {"new", "staged", "writing", "creating", "testing", "orphaned", "refused", "answered"}
Brought == Drafts \cup {Template, NoPlugin}
Texts0 == UNION {{d[f] : f \in DOMAIN d} : d \in Brought}
Plugins == [SourceNames -> Texts0]
EditRecords == [at : EditPlaces, draft : Brought, staged : Plugins, todo : SUBSET SourceNames]

EditsTyped ==
    /\ plugin \in Plugins /\ plugin["plugin.yaml"] \in Manifests \cup {NoManifest}
    /\ edit \in [EditRequests -> EditRecords]
    /\ unsettled \in BOOLEAN

Active(r) == edit[r].at \in {"writing", "creating"}

\* What a request writes are files of its draft, over a plugin that is there.
EditIsSound(r) ==
    edit[r].at \in {"staged", "writing"} =>
        /\ plugin["plugin.yaml"] # NoManifest
        /\ edit[r].draft \in Drafts
        /\ edit[r].todo \subseteq DOMAIN edit[r].draft
        /\ edit[r].at = "staged" => edit[r].todo = DOMAIN edit[r].draft

\* The one who writes is on the way from the plugin to the copy that was
\* validated: what it has yet to write is all that differs.
OnTheWay(r) ==
    edit[r].at = "writing" =>
        /\ IsValid(edit[r].staged)
        /\ \A f \in SourceNames : edit[r].staged[f] = IF f \in edit[r].todo THEN edit[r].draft[f] ELSE plugin[f]

Settled ==
    ~unsettled =>
        /\ \A r, s \in EditRequests : Active(r) /\ Active(s) => r = s
        /\ \A r \in EditRequests : OnTheWay(r)
        /\ \/ \E r \in EditRequests : Active(r)
           \/ plugin = NoPlugin \/ IsValid(plugin)

EditsInv == EditsTyped /\ Settled /\ \A r \in EditRequests : EditIsSound(r)

\* The files of a plugin, none of them and those of the template.
LEMMA PluginParts ==
    /\ SourceNames = {"main.py", "plugin.yaml", "requirements.lock"}
    /\ NoPlugin \in Plugins /\ Template \in Plugins
    /\ NoPlugin["plugin.yaml"] = NoManifest
    /\ Template["plugin.yaml"] \in Manifests /\ IsValid(Template)
<1>1. SourceNames = {"main.py", "plugin.yaml", "requirements.lock"}
  <2>1. /\ DOMAIN FileNames = 1 .. 3 /\ FileNames[1] = "main.py" /\ FileNames[2] = "plugin.yaml"
        /\ FileNames[3] = "requirements.lock"
    BY DEF FileNames
  <2>2. 1 .. 3 = {1, 2, 3}
    OBVIOUS
  <2> QED
    BY <2>1, <2>2 DEF SourceNames
<1>2. \A d \in Brought : DOMAIN d = SourceNames /\ d = [f \in SourceNames |-> d[f]] => d \in Plugins
  BY DEF Plugins, Texts0
<1>3. NoPlugin = [f \in SourceNames |-> NoPlugin[f]] /\ DOMAIN NoPlugin = SourceNames
  BY DEF NoPlugin
<1>4. Template = [f \in SourceNames |-> Template[f]] /\ DOMAIN Template = SourceNames
  BY PluginEditingAssumption
<1>5. NoPlugin \in Brought /\ Template \in Brought
  BY DEF Brought
<1>6. NoPlugin["plugin.yaml"] = NoManifest
  BY <1>1 DEF NoPlugin
<1>7. Template["plugin.yaml"] \in Manifests /\ IsValid(Template)
  BY PluginEditingAssumption DEF IsValid, Loads
<1> QED
  BY <1>1, <1>2, <1>3, <1>4, <1>5, <1>6, <1>7

\* A draft has files of a plugin only.
LEMMA DraftsAreSources ==
    ASSUME NEW d \in Drafts
    PROVE  /\ DOMAIN d \subseteq SourceNames
           /\ "plugin.yaml" \in DOMAIN d => d["plugin.yaml"] \in Manifests
BY PluginEditingAssumption, Zenon

\* A draft laid over a plugin is one: its files are the draft's or the plugin's.
LEMMA StagedIsPlugin ==
    ASSUME plugin \in Plugins, NEW draft \in Drafts
    PROVE  /\ Staged(draft) \in Plugins
           /\ \A f \in SourceNames : Staged(draft)[f] = IF f \in DOMAIN draft THEN draft[f] ELSE plugin[f]
           /\ DOMAIN draft \subseteq SourceNames
<1>1. DOMAIN draft \subseteq SourceNames /\ draft \in Brought
  <2>1. draft \in Brought
    BY DEF Brought
  <2>2. DOMAIN draft \subseteq SourceNames
    BY DraftsAreSources
  <2> QED
    BY <2>1, <2>2
<1>2. \A f \in DOMAIN draft : draft[f] \in Texts0
  BY <1>1 DEF Texts0
<1>3. \A f \in SourceNames : plugin[f] \in Texts0
  BY DEF Plugins
<1>4. Staged(draft) = [f \in SourceNames |-> IF f \in DOMAIN draft THEN draft[f] ELSE plugin[f]]
  BY DEF Staged, Overlay
<1> QED
  BY <1>1, <1>2, <1>3, <1>4 DEF Plugins

\* At the start no request edits anything.
LEMMA EditsStart == PluginEditingInit => EditsInv
<1> SUFFICES ASSUME PluginEditingInit PROVE EditsInv
  OBVIOUS
<1>1. plugin \in {NoPlugin, Template} /\ unsettled = FALSE
  BY DEF PluginEditingInit
<1>2. edit = [r \in EditRequests |-> [at |-> "new", draft |-> NoPlugin, staged |-> NoPlugin, todo |-> {}]]
  BY DEF PluginEditingInit
<1>3. \A r \in EditRequests : edit[r].at = "new"
  BY <1>2
<1>4. edit \in [EditRequests -> EditRecords]
  BY <1>2, PluginParts DEF EditRecords, EditPlaces, Brought
<1>5. EditsTyped
  BY <1>1, <1>4, PluginParts DEF EditsTyped
<1>6. Settled
  BY <1>1, <1>3, PluginParts DEF Settled, Active, OnTheWay
<1> QED
  BY <1>3, <1>5, <1>6 DEF EditsInv, EditIsSound

\* Steps of a request that has no part in the writing of the plugin.
LEMMA BesideTheWriters ==
    ASSUME EditsInv, NEW r \in EditRequests, NEW new \in EditRecords,
           UNCHANGED <<plugin, unsettled>>, edit' = [edit EXCEPT ![r] = new],
           ~Active(r), new.at \notin {"writing", "creating"},
           new.at = "staged" =>
               /\ plugin["plugin.yaml"] # NoManifest
               /\ new.draft \in Drafts /\ new.todo = DOMAIN new.draft
    PROVE  EditsInv'
<1>1. EditsTyped /\ Settled /\ \A s \in EditRequests : EditIsSound(s)
  BY DEF EditsInv
<1>2. edit'[r] = new /\ \A s \in EditRequests \ {r} : edit'[s] = edit[s]
  BY <1>1 DEF EditsTyped
<1>3. EditsTyped'
  <2>1. edit' \in [EditRequests -> EditRecords]
    BY <1>1 DEF EditsTyped
  <2> QED
    BY <1>1, <2>1 DEF EditsTyped
<1>4. ASSUME NEW s \in EditRequests
      PROVE  EditIsSound(s)' /\ (Active(s)' <=> Active(s)) /\ (OnTheWay(s) => OnTheWay(s)')
  <2>1. CASE s = r
    BY <1>2, <2>1 DEF EditIsSound, Active, OnTheWay
  <2>2. CASE s # r
    BY <1>1, <1>2, <2>2 DEF EditIsSound, Active, OnTheWay
  <2> QED
    BY <2>1, <2>2
<1>5. Settled'
  BY <1>1, <1>4 DEF Settled
<1> QED
  BY <1>3, <1>4, <1>5 DEF EditsInv

\* Steps that unsettle the plugin, or leave it so.
LEMMA Unsettles ==
    ASSUME EditsInv, NEW r \in EditRequests, NEW new \in EditRecords,
           edit' = [edit EXCEPT ![r] = new], unsettled' = TRUE, plugin' = plugin,
           new.at # "staged", new.at = "writing" => edit[r].at = "staged" /\ new = [edit[r] EXCEPT !.at = "writing"]
    PROVE  EditsInv'
<1>1. EditsTyped /\ \A s \in EditRequests : EditIsSound(s)
  BY DEF EditsInv
<1>2. edit'[r] = new /\ \A s \in EditRequests \ {r} : edit'[s] = edit[s]
  BY <1>1 DEF EditsTyped
<1>3. EditsTyped'
  BY <1>1 DEF EditsTyped
<1>4. ASSUME NEW s \in EditRequests
      PROVE  EditIsSound(s)'
  <2>1. CASE s = r
    <3>1. edit[r] \in EditRecords
      BY <1>1 DEF EditsTyped
    <3>2. CASE new.at = "writing"
      <4>1. new.draft = edit[r].draft /\ new.todo = edit[r].todo
        BY <3>1, <3>2 DEF EditRecords
      <4> QED
        BY <1>1, <1>2, <2>1, <3>2, <4>1 DEF EditIsSound
    <3>3. CASE new.at # "writing"
      BY <1>2, <2>1, <3>3 DEF EditIsSound
    <3> QED
      BY <3>2, <3>3
  <2>2. CASE s # r
    BY <1>1, <1>2, <2>2 DEF EditIsSound
  <2> QED
    BY <2>1, <2>2
<1> QED
  BY <1>3, <1>4 DEF EditsInv, Settled

\* An edit or a test begins with a copy of the plugin under its draft.
LEMMA EditBegins ==
    ASSUME EditsInv, NEW r \in EditRequests, NEW draft \in Drafts, HandlePut(r, draft) \/ HandleTest(r, draft)
    PROVE  EditsInv'
<1> DEFINE new(at, todo) == [at |-> at, draft |-> draft, staged |-> Staged(draft), todo |-> todo]
<1>1. plugin \in Plugins
  BY DEF EditsInv, EditsTyped
<1>2. new("staged", DOMAIN draft) \in EditRecords /\ new("testing", {}) \in EditRecords
  BY <1>1, StagedIsPlugin DEF EditRecords, EditPlaces, Brought
<1>3. /\ ~Active(r) /\ UNCHANGED <<plugin, unsettled>> /\ plugin["plugin.yaml"] # NoManifest
      /\ \/ edit' = [edit EXCEPT ![r] = new("staged", DOMAIN draft)]
         \/ edit' = [edit EXCEPT ![r] = new("testing", {})]
  BY DEF HandlePut, HandleTest, Active
<1>4. CASE edit' = [edit EXCEPT ![r] = new("staged", DOMAIN draft)]
  <2> DEFINE rec == new("staged", DOMAIN draft)
  <2>1. rec.at = "staged" /\ rec.draft = draft /\ rec.todo = DOMAIN draft
    OBVIOUS
  <2>2. rec \in EditRecords /\ edit' = [edit EXCEPT ![r] = rec]
    BY <1>2, <1>4
  <2> HIDE DEF rec
  <2> QED
    BY <1>3, <2>1, <2>2, BesideTheWriters
<1>5. CASE edit' = [edit EXCEPT ![r] = new("testing", {})]
  <2> DEFINE rec == new("testing", {})
  <2>1. rec.at = "testing"
    OBVIOUS
  <2>2. rec \in EditRecords /\ edit' = [edit EXCEPT ![r] = rec]
    BY <1>2, <1>5
  <2> HIDE DEF rec
  <2> QED
    BY <1>3, <2>1, <2>2, BesideTheWriters
<1> QED
  BY <1>3, <1>4, <1>5

\* A request whose part in the writing ends, or that never had one.
LEMMA EditEnds ==
    ASSUME EditsInv, NEW r \in EditRequests, NEW new, UNCHANGED <<plugin, unsettled>>,
           edit' = [edit EXCEPT ![r] = new], ~Active(r),
           \/ new = [edit[r] EXCEPT !.at = "refused"]
           \/ new = [edit[r] EXCEPT !.at = "answered"]
           \/ new = [edit[r] EXCEPT !.at = "orphaned", !.staged = NoPlugin]
    PROVE  EditsInv'
<1>1. edit[r] \in EditRecords
  BY DEF EditsInv, EditsTyped
<1>2. new \in EditRecords /\ new.at \in {"refused", "answered", "orphaned"}
  BY <1>1, PluginParts DEF EditRecords, EditPlaces
<1> QED
  BY <1>2, BesideTheWriters

\* A request goes on to write only a copy that is valid.
LEMMA CopyIsValidated ==
    ASSUME EditsInv, NEW r \in EditRequests, ValidateStaged(r)
    PROVE  EditsInv'
<1>1. EditsTyped /\ Settled /\ \A s \in EditRequests : EditIsSound(s)
  BY DEF EditsInv
<1>2. /\ edit[r].at = "staged" /\ edit[r] \in EditRecords /\ plugin' = plugin /\ plugin \in Plugins
      /\ unsettled \in BOOLEAN
  BY <1>1 DEF ValidateStaged, EditsTyped
<1>3. CASE ~IsValid(edit[r].staged)
  <2>1. edit' = [edit EXCEPT ![r] = [edit[r] EXCEPT !.at = "refused"]] /\ unsettled' = unsettled
    BY <1>2, <1>3 DEF ValidateStaged
  <2> QED
    BY <1>2, <2>1, EditEnds DEF Active
<1>4. CASE IsValid(edit[r].staged)
  <2> DEFINE new == [edit[r] EXCEPT !.at = "writing"]
  <2>1. /\ edit' = [edit EXCEPT ![r] = new]
        /\ unsettled' = (unsettled \/ edit[r].staged # Overlay(plugin, edit[r].draft)
                                   \/ \E s \in EditRequests : Active(s))
    BY <1>4 DEF ValidateStaged, Active
  <2>2. new \in EditRecords /\ new.at = "writing" /\ new.draft = edit[r].draft /\ new.staged = edit[r].staged
        /\ new.todo = edit[r].todo
    BY <1>2 DEF EditRecords, EditPlaces
  <2>3. CASE unsettled'
    <3>1. unsettled' = TRUE
      BY <2>1, <2>3
    <3>2. new.at # "staged" /\ (new.at = "writing" => edit[r].at = "staged" /\ new = [edit[r] EXCEPT !.at = "writing"])
      BY <1>2, <2>2
    <3> HIDE DEF new
    <3> QED
      BY <1>2, <2>1, <2>2, <3>1, <3>2, Unsettles
  <2>4. CASE ~unsettled'
    <3>1. /\ ~unsettled /\ edit[r].staged = Overlay(plugin, edit[r].draft)
          /\ \A s \in EditRequests : ~Active(s)
      BY <2>1, <2>4
    <3>2. /\ edit[r].draft \in Drafts /\ edit[r].todo = DOMAIN edit[r].draft
          /\ plugin["plugin.yaml"] # NoManifest
      BY <1>1, <1>2 DEF EditIsSound
    <3> HIDE DEF new
    <3>3. edit'[r] = new /\ \A s \in EditRequests \ {r} : edit'[s] = edit[s]
      BY <1>1, <2>1 DEF EditsTyped
    <3>4. EditsTyped'
      <4>1. edit' \in [EditRequests -> EditRecords]
        BY <1>1, <2>1, <2>2 DEF EditsTyped
      <4>2. unsettled' \in BOOLEAN
        BY <2>1, <3>1
      <4> QED
        BY <1>1, <1>2, <4>1, <4>2 DEF EditsTyped
    <3>5. OnTheWay(r)'
      <4>1. \A f \in SourceNames :
               edit[r].staged[f] = IF f \in edit[r].todo THEN edit[r].draft[f] ELSE plugin[f]
        BY <1>2, <3>1, <3>2, StagedIsPlugin DEF Staged
      <4> QED
        BY <1>2, <1>4, <2>2, <3>3, <4>1 DEF OnTheWay
    <3>6. Settled'
      <4>1. \A s \in EditRequests \ {r} : ~Active(s)' /\ OnTheWay(s)'
        BY <3>1, <3>3 DEF Active, OnTheWay
      <4>2. Active(r)'
        BY <2>2, <3>3 DEF Active
      <4> QED
        BY <3>5, <4>1, <4>2 DEF Settled
    <3>7. ASSUME NEW s \in EditRequests
          PROVE  EditIsSound(s)'
      <4>1. CASE s = r
        BY <1>2, <2>2, <3>2, <3>3, <4>1 DEF EditIsSound
      <4>2. CASE s # r
        BY <1>1, <1>2, <3>3, <4>2 DEF EditIsSound
      <4> QED
        BY <4>1, <4>2
    <3> QED
      BY <3>4, <3>6, <3>7 DEF EditsInv
  <2> QED
    BY <2>3, <2>4
<1> QED
  BY <1>3, <1>4

\* One file more is that of the copy.
LEMMA FileIsWritten ==
    ASSUME EditsInv, NEW r \in EditRequests, WriteSource(r)
    PROVE  EditsInv'
<1>1. EditsTyped /\ Settled /\ \A s \in EditRequests : EditIsSound(s)
  BY DEF EditsInv
<1>2. /\ edit[r].at = "writing" /\ edit[r] \in EditRecords /\ plugin \in Plugins
      /\ plugin["plugin.yaml"] \in Manifests \cup {NoManifest}
      /\ plugin["plugin.yaml"] # NoManifest /\ edit[r].draft \in Drafts
      /\ edit[r].todo \subseteq DOMAIN edit[r].draft
  BY <1>1 DEF WriteSource, Writing, EditsTyped, EditIsSound
<1>3. CASE edit' = [edit EXCEPT ![r].at = "refused"] /\ unsettled' = TRUE /\ UNCHANGED plugin
  <2> DEFINE new == [edit[r] EXCEPT !.at = "refused"]
  <2>1. new \in EditRecords /\ new.at = "refused" /\ edit' = [edit EXCEPT ![r] = new]
    BY <1>2, <1>3 DEF EditRecords, EditPlaces
  <2> HIDE DEF new
  <2> QED
    BY <1>3, <2>1, Unsettles
<1>4. ASSUME NEW f \in edit[r].todo, plugin' = [plugin EXCEPT ![f] = edit[r].draft[f]],
             edit' = [edit EXCEPT ![r].todo = @ \ {f}], unsettled' = unsettled
      PROVE  EditsInv'
  <2> DEFINE new == [edit[r] EXCEPT !.todo = @ \ {f}]
  <2>1. /\ new \in EditRecords /\ new.at = "writing" /\ new.draft = edit[r].draft
        /\ new.staged = edit[r].staged /\ new.todo = edit[r].todo \ {f}
        /\ edit' = [edit EXCEPT ![r] = new]
    BY <1>2, <1>4 DEF EditRecords
  <2> HIDE DEF new
  <2>2. edit'[r] = new /\ \A s \in EditRequests \ {r} : edit'[s] = edit[s]
    BY <1>1, <2>1 DEF EditsTyped
  <2>3. /\ f \in DOMAIN edit[r].draft /\ f \in SourceNames
        /\ edit[r].draft[f] \in Texts0
        /\ f = "plugin.yaml" => edit[r].draft[f] \in Manifests
    <3>1. f \in DOMAIN edit[r].draft /\ edit[r].draft \in Brought
      BY <1>2 DEF Brought
    <3>2. f \in SourceNames /\ (f = "plugin.yaml" => edit[r].draft[f] \in Manifests)
      BY <1>2, <3>1, DraftsAreSources
    <3> QED
      BY <3>1, <3>2 DEF Texts0
  <2>4. /\ plugin'[f] = edit[r].draft[f]
        /\ \A g \in SourceNames \ {f} : plugin'[g] = plugin[g]
        /\ plugin' \in Plugins
    BY <1>2, <1>4, <2>3 DEF Plugins
  <2>5. plugin'["plugin.yaml"] \in Manifests
    <3>1. "plugin.yaml" \in SourceNames
      BY PluginParts
    <3> QED
      BY <1>2, <2>3, <2>4, <3>1
  <2>6. EditsTyped'
    <3>1. edit' \in [EditRequests -> EditRecords]
      BY <1>1, <2>1 DEF EditsTyped
    <3> QED
      BY <1>1, <1>4, <2>4, <2>5, <3>1 DEF EditsTyped
  <2>7. plugin'["plugin.yaml"] # NoManifest
    BY <2>5, PluginEditingAssumption
  <2>8. ASSUME NEW s \in EditRequests
        PROVE  EditIsSound(s)' /\ (Active(s)' <=> Active(s))
    <3>1. CASE s = r
      BY <1>2, <2>1, <2>2, <2>7, <3>1 DEF EditIsSound, Active
    <3>2. CASE s # r
      BY <1>1, <2>2, <2>7, <3>2 DEF EditIsSound, Active
    <3> QED
      BY <3>1, <3>2
  <2>9. Settled'
    <3> SUFFICES ASSUME ~unsettled PROVE Settled'
      BY <1>4 DEF Settled
    <3>1. /\ \A s, u \in EditRequests : Active(s) /\ Active(u) => s = u
          /\ OnTheWay(r) /\ Active(r)
      BY <1>1, <1>2 DEF Settled, Active
    <3>2. OnTheWay(r)'
      <4>1. /\ IsValid(edit[r].staged)
            /\ \A g \in SourceNames : edit[r].staged[g] = IF g \in edit[r].todo THEN edit[r].draft[g] ELSE plugin[g]
        BY <1>2, <3>1 DEF OnTheWay
      <4>2. \A g \in SourceNames : edit[r].staged[g] = IF g \in new.todo THEN new.draft[g] ELSE plugin'[g]
        BY <2>1, <2>3, <2>4, <4>1
      <4> QED
        BY <2>1, <2>2, <4>1, <4>2 DEF OnTheWay
    <3>3. \A s \in EditRequests \ {r} : OnTheWay(s)'
      BY <2>2, <3>1 DEF OnTheWay, Active
    <3> QED
      BY <2>8, <3>1, <3>2, <3>3 DEF Settled
  <2> QED
    BY <2>6, <2>8, <2>9 DEF EditsInv
<1> QED
  BY <1>3, <1>4 DEF WriteSource

\* An answer comes when all files are written, and leaves them as they are.
LEMMA EditIsAnswered ==
    ASSUME EditsInv, NEW r \in EditRequests, AnswerPut(r) \/ AnswerCreate(r)
    PROVE  EditsInv'
<1>1. EditsTyped /\ Settled /\ \A s \in EditRequests : EditIsSound(s)
  BY DEF EditsInv
<1> DEFINE new == [edit[r] EXCEPT !.at = "answered"]
<1>2. /\ edit' = [edit EXCEPT ![r] = new] /\ UNCHANGED <<plugin, unsettled>> /\ Active(r)
      /\ edit[r] \in EditRecords /\ plugin \in Plugins
  BY <1>1 DEF AnswerPut, AnswerCreate, Writing, Active, EditsTyped
<1>3. new \in EditRecords /\ new.at = "answered"
  BY <1>2 DEF EditRecords, EditPlaces
<1> HIDE DEF new
<1>4. edit'[r] = new /\ \A s \in EditRequests \ {r} : edit'[s] = edit[s]
  BY <1>1, <1>2 DEF EditsTyped
<1>5. EditsTyped'
  <2>1. edit' \in [EditRequests -> EditRecords]
    BY <1>1, <1>2, <1>3 DEF EditsTyped
  <2> QED
    BY <1>1, <1>2, <2>1 DEF EditsTyped
<1>6. ASSUME NEW s \in EditRequests
      PROVE  EditIsSound(s)' /\ (OnTheWay(s) => OnTheWay(s)') /\ (Active(s)' <=> Active(s) /\ s # r)
  <2>1. CASE s = r
    BY <1>3, <1>4, <2>1 DEF EditIsSound, OnTheWay, Active
  <2>2. CASE s # r
    BY <1>1, <1>2, <1>4, <2>2 DEF EditIsSound, OnTheWay, Active
  <2> QED
    BY <2>1, <2>2
<1>7. ~unsettled => IsValid(plugin)
  <2>1. CASE AnswerPut(r)
    <3>1. edit[r].at = "writing" /\ edit[r].todo = {}
      BY <2>1 DEF AnswerPut, Writing
    <3>2. ~unsettled => IsValid(edit[r].staged) /\ \A f \in SourceNames : edit[r].staged[f] = plugin[f]
      BY <1>1, <3>1 DEF Settled, OnTheWay
    <3>3. edit[r].staged \in Plugins
      BY <1>2 DEF EditRecords
    <3>4. ~unsettled => edit[r].staged = plugin
      BY <1>2, <3>2, <3>3 DEF Plugins
    <3> QED
      BY <3>2, <3>4
  <2>2. CASE AnswerCreate(r)
    BY <2>2, PluginParts DEF AnswerCreate
  <2> QED
    BY <2>1, <2>2
<1>8. Settled'
  BY <1>1, <1>2, <1>6, <1>7 DEF Settled
<1> QED
  BY <1>5, <1>6, <1>8 DEF EditsInv

\* Who finds no plugin finds nobody on the way to one that edits it.
LEMMA CreationBegins ==
    ASSUME EditsInv, NEW r \in EditRequests, HandleCreate(r)
    PROVE  EditsInv'
<1>1. EditsTyped /\ Settled /\ \A s \in EditRequests : EditIsSound(s)
  BY DEF EditsInv
<1>2. edit[r].at = "new" /\ ~Active(r) /\ edit[r] \in EditRecords /\ UNCHANGED plugin
  BY <1>1 DEF HandleCreate, Active, EditsTyped
<1>3. CASE plugin # NoPlugin
  <2>1. edit' = [edit EXCEPT ![r] = [edit[r] EXCEPT !.at = "refused"]] /\ UNCHANGED unsettled
    BY <1>3 DEF HandleCreate
  <2> QED
    BY <1>2, <2>1, EditEnds
<1>4. CASE plugin = NoPlugin
  <2> DEFINE new == [at |-> "creating", draft |-> Template, staged |-> Template, todo |-> {}]
  <2>1. /\ edit' = [edit EXCEPT ![r] = new]
        /\ unsettled' = (unsettled \/ \E s \in EditRequests : edit[s].at = "creating")
    BY <1>4 DEF HandleCreate
  <2>2. new \in EditRecords /\ new.at = "creating"
    BY PluginParts DEF EditRecords, EditPlaces, Brought
  <2> HIDE DEF new
  <2>3. CASE unsettled'
    <3>1. unsettled' = TRUE
      BY <2>1, <2>3
    <3> QED
      BY <1>2, <2>1, <2>2, <3>1, Unsettles
  <2>4. CASE ~unsettled'
    <3>1. ~unsettled /\ \A s \in EditRequests : edit[s].at # "creating"
      BY <2>1, <2>4
    <3>2. \A s \in EditRequests : edit[s].at \notin {"staged", "writing"}
      BY <1>1, <1>4, PluginParts DEF EditIsSound
    <3>3. edit'[r] = new /\ \A s \in EditRequests \ {r} : edit'[s] = edit[s]
      BY <1>1, <2>1 DEF EditsTyped
    <3>4. EditsTyped'
      <4>1. edit' \in [EditRequests -> EditRecords] /\ unsettled' \in BOOLEAN
        BY <1>1, <2>1, <2>2 DEF EditsTyped
      <4> QED
        BY <1>1, <1>2, <4>1 DEF EditsTyped
    <3>5. \A s \in EditRequests : EditIsSound(s)' /\ OnTheWay(s)' /\ (Active(s)' <=> s = r)
      BY <2>2, <3>1, <3>2, <3>3 DEF EditIsSound, OnTheWay, Active
    <3> QED
      BY <3>4, <3>5 DEF EditsInv, Settled
  <2> QED
    BY <2>3, <2>4
<1> QED
  BY <1>3, <1>4

\* A plugin is created file by file.
LEMMA FileIsCreated ==
    ASSUME EditsInv, NEW r \in EditRequests, CreateFile(r)
    PROVE  EditsInv'
<1>1. EditsTyped /\ Settled /\ \A s \in EditRequests : EditIsSound(s)
  BY DEF EditsInv
<1>2. edit[r].at = "creating" /\ edit[r] \in EditRecords /\ Active(r)
  BY <1>1 DEF CreateFile, Active, EditsTyped
<1>3. CASE edit' = [edit EXCEPT ![r].at = "refused"] /\ unsettled' = TRUE /\ UNCHANGED plugin
  <2> DEFINE new == [edit[r] EXCEPT !.at = "refused"]
  <2>1. new \in EditRecords /\ new.at = "refused" /\ edit' = [edit EXCEPT ![r] = new]
    BY <1>2, <1>3 DEF EditRecords, EditPlaces
  <2> HIDE DEF new
  <2> QED
    BY <1>3, <2>1, Unsettles
<1>4. ASSUME NEW f \in SourceNames, plugin' = [plugin EXCEPT ![f] = Template[f]], UNCHANGED <<edit, unsettled>>
      PROVE  EditsInv'
  <2>1. plugin \in Plugins /\ plugin["plugin.yaml"] \in Manifests \cup {NoManifest}
    BY <1>1 DEF EditsTyped
  <2>2. Template[f] \in Texts0
    BY PluginParts DEF Plugins
  <2>3. /\ plugin' \in Plugins /\ plugin'[f] = Template[f]
        /\ \A g \in SourceNames \ {f} : plugin'[g] = plugin[g]
    BY <1>4, <2>1, <2>2 DEF Plugins
  <2>4. "plugin.yaml" \in SourceNames /\ Template["plugin.yaml"] \in Manifests
    BY PluginParts
  <2>5. /\ plugin'["plugin.yaml"] \in Manifests \cup {NoManifest}
        /\ plugin["plugin.yaml"] # NoManifest => plugin'["plugin.yaml"] # NoManifest
    <3>1. NoManifest \notin Manifests
      BY PluginEditingAssumption
    <3> QED
      BY <2>1, <2>3, <2>4, <3>1
  <2>6. EditsTyped'
    BY <1>1, <1>4, <2>3, <2>5 DEF EditsTyped
  <2>7. \A s \in EditRequests : EditIsSound(s)' /\ (Active(s)' <=> Active(s))
    BY <1>1, <1>4, <2>5 DEF EditIsSound, Active
  <2>8. ~unsettled => \A s \in EditRequests : edit[s].at # "writing"
    BY <1>1, <1>2 DEF Settled, Active
  <2>9. Settled'
    BY <1>1, <1>2, <1>4, <2>7, <2>8 DEF Settled, OnTheWay
  <2> QED
    BY <2>6, <2>7, <2>9 DEF EditsInv
<1> QED
  BY <1>3, <1>4 DEF CreateFile

\* The invariant of the edits is inductive.
LEMMA EditsStep == EditsInv /\ [EditNext \/ UploadNext]_pluginEditingVars => EditsInv'
<1> SUFFICES ASSUME EditsInv, [EditNext \/ UploadNext]_pluginEditingVars PROVE EditsInv'
  OBVIOUS
<1>1. ASSUME UNCHANGED <<plugin, edit, unsettled>> PROVE EditsInv'
  BY <1>1 DEF EditsInv, EditsTyped, Settled, EditIsSound, OnTheWay, Active
<1>2. CASE UNCHANGED pluginEditingVars
  BY <1>1, <1>2 DEF pluginEditingVars, editVars
<1>3. CASE UploadNext
  BY <1>1, <1>3 DEF UploadNext, ServerDies, UploadAsset, ReserveName, OpenPart, FillPart, RenamePart,
                    DropReservation, UploadOnly, editVars
<1>4. CASE ListPlugins
  BY <1>1, <1>4 DEF ListPlugins
<1>5. ASSUME NEW r \in EditRequests, TestsAnswer(r) \/ OrphanEnds(r)
      PROVE  EditsInv'
  <2>1. /\ ~Active(r) /\ UNCHANGED <<plugin, unsettled>>
        /\ \/ edit' = [edit EXCEPT ![r] = [edit[r] EXCEPT !.at = "answered"]]
           \/ edit' = [edit EXCEPT ![r] = [edit[r] EXCEPT !.at = "orphaned", !.staged = NoPlugin]]
    BY <1>5 DEF TestsAnswer, OrphanEnds, Active
  <2> QED
    BY <2>1, EditEnds
<1> QED
  BY <1>2, <1>3, <1>4, <1>5, EditBegins, CopyIsValidated, FileIsWritten, EditIsAnswered, CreationBegins,
     FileIsCreated DEF EditNext

-----------------------------------------------------------------------------
(* Uploads                                                                 *)

UploadPlaces == {"new", "name", "reserved", "filling", "filled", "failed", "answered", "refused"}

\* The files an upload has made its own.
Held(u) ==
    CASE upload[u].at \in {"reserved", "failed", "answered"} -> {Abs(u)}
      [] upload[u].at \in {"filling", "filled"} -> {Abs(u), Part(u)}
      [] OTHER -> {}

UploadsTyped ==
    /\ files \in [AllFiles -> Uploads \cup {None, "empty"}]
    /\ upload \in [Uploads -> [at : UploadPlaces, name : 0 .. 2, number : 0 .. MaxCandidate]]

UploadsInv ==
    /\ UploadsTyped
    /\ \A u, w \in Uploads : u # w => Held(u) \cap Held(w) = {}
    /\ \A u \in Uploads : \A f \in Held(u) : files[f] # None
    /\ \A u \in Uploads : /\ upload[u].at = "filled" => files[Part(u)] = u
                          /\ upload[u].at = "answered" => files[Abs(u)] = u

\* At the start no name is reserved.
LEMMA UploadsStart == PluginEditingInit => UploadsInv
<1> SUFFICES ASSUME PluginEditingInit PROVE UploadsInv
  OBVIOUS
<1>1. /\ files = [f \in AllFiles |-> None]
      /\ upload = [u \in Uploads |-> [at |-> "new", name |-> 0, number |-> 0]]
  BY DEF PluginEditingInit
<1>2. 0 \in 0 .. MaxCandidate /\ 0 \in 0 .. 2
  BY PluginEditingAssumption
<1>3. UploadsTyped
  BY <1>1, <1>2 DEF UploadsTyped, UploadPlaces
<1>4. \A u \in Uploads : upload[u].at = "new" /\ Held(u) = {}
  BY <1>1 DEF Held
<1> QED
  BY <1>3, <1>4 DEF UploadsInv

\* One upload moves: it takes files that were free, if any, and changes only
\* its own.
LEMMA OneUploadMoves ==
    ASSUME UploadsInv, NEW u \in Uploads, UploadsTyped',
           \A w \in Uploads \ {u} : upload'[w] = upload[w],
           \A f \in AllFiles : files'[f] # files[f] => f \in Held(u) \/ files[f] = None,
           \A f \in Held(u)' : (f \in Held(u) \/ files[f] = None) /\ files'[f] # None,
           /\ upload'[u].at = "filled" => files'[Part(u)'] = u
           /\ upload'[u].at = "answered" => files'[Abs(u)'] = u
    PROVE  UploadsInv'
<1>1. /\ UploadsTyped
      /\ \A v, w \in Uploads : v # w => Held(v) \cap Held(w) = {}
      /\ \A v \in Uploads : \A f \in Held(v) : files[f] # None
      /\ \A v \in Uploads : /\ upload[v].at = "filled" => files[Part(v)] = v
                            /\ upload[v].at = "answered" => files[Abs(v)] = v
  BY DEF UploadsInv
<1>2. ASSUME NEW w \in Uploads \ {u}
      PROVE  /\ Held(w)' = Held(w) /\ Abs(w)' = Abs(w) /\ Part(w)' = Part(w)
             /\ \A f \in Held(w) : files'[f] = files[f]
  <2>1. Held(w)' = Held(w) /\ Abs(w)' = Abs(w) /\ Part(w)' = Part(w)
    BY DEF Held, Abs, Part
  <2>2. Held(w) \subseteq AllFiles
    <3>1. /\ upload[w] \in [at : UploadPlaces, name : 0 .. 2, number : 0 .. MaxCandidate]
      BY <1>1 DEF UploadsTyped
    <3>2. upload[w].name + 1 \in 0 .. 3 /\ upload[w].name \in 0 .. 3 /\ upload[w].number \in 0 .. MaxCandidate
      BY <3>1
    <3>3. Abs(w) \in AllFiles /\ Part(w) \in AllFiles
      BY <3>2 DEF Abs, Part, AllFiles
    <3> QED
      BY <3>3 DEF Held
  <2> QED
    BY <1>1, <2>1, <2>2
<1>3. \A v, w \in Uploads : v # w => Held(v)' \cap Held(w)' = {}
  <2>1. \A w \in Uploads \ {u} : Held(u)' \cap Held(w) = {}
    BY <1>1
  <2> QED
    BY <1>1, <1>2, <2>1
<1>4. \A v \in Uploads : \A f \in Held(v)' : files'[f] # None
  BY <1>1, <1>2
<1>5. ASSUME NEW v \in Uploads
      PROVE  /\ upload'[v].at = "filled" => files'[Part(v)'] = v
             /\ upload'[v].at = "answered" => files'[Abs(v)'] = v
  <2>1. CASE v = u
    BY <2>1
  <2>2. CASE v # u
    <3>1. upload'[v] = upload[v]
      BY <2>2
    <3>2. /\ upload[v].at = "filled" => Part(v) \in Held(v)
          /\ upload[v].at = "answered" => Abs(v) \in Held(v)
      BY DEF Held
    <3> QED
      BY <1>1, <1>2, <2>2, <3>1, <3>2
  <2> QED
    BY <2>1, <2>2
<1> QED
  BY <1>3, <1>4, <1>5 DEF UploadsInv

\* An upload has a name and another one for the part that is there.
LEMMA UploadHasNames ==
    ASSUME UploadsTyped, NEW u \in Uploads
    PROVE  /\ upload[u] \in [at : UploadPlaces, name : 0 .. 2, number : 0 .. MaxCandidate]
           /\ Abs(u) \in AllFiles /\ Part(u) \in AllFiles /\ Abs(u) # Part(u)
<1>1. upload[u] \in [at : UploadPlaces, name : 0 .. 2, number : 0 .. MaxCandidate]
  BY DEF UploadsTyped
<1>2. /\ upload[u].name + 1 \in 0 .. 3 /\ upload[u].name \in 0 .. 3 /\ upload[u].name + 1 # upload[u].name
      /\ upload[u].number \in 0 .. MaxCandidate
  BY <1>1
<1> QED
  BY <1>1, <1>2 DEF Abs, Part, AllFiles

\* An upload goes on under the names it has.
LEMMA UploadGoesOn ==
    ASSUME UploadsInv, NEW u \in Uploads, NEW at \in UploadPlaces, At(u, at)
    PROVE  /\ upload'[u].at = at /\ Abs(u)' = Abs(u) /\ Part(u)' = Part(u)
           /\ \A w \in Uploads \ {u} : upload'[w] = upload[w]
           /\ upload' \in [Uploads -> [at : UploadPlaces, name : 0 .. 2, number : 0 .. MaxCandidate]]
<1>1. /\ upload \in [Uploads -> [at : UploadPlaces, name : 0 .. 2, number : 0 .. MaxCandidate]]
      /\ upload' = [upload EXCEPT ![u] = [upload[u] EXCEPT !.at = at]]
  BY DEF UploadsInv, UploadsTyped, At
<1>2. upload[u] \in [at : UploadPlaces, name : 0 .. 2, number : 0 .. MaxCandidate]
  BY <1>1
<1>3. /\ upload'[u] = [upload[u] EXCEPT !.at = at]
      /\ upload'[u].at = at /\ upload'[u].name = upload[u].name /\ upload'[u].number = upload[u].number
      /\ upload'[u] \in [at : UploadPlaces, name : 0 .. 2, number : 0 .. MaxCandidate]
  BY <1>1, <1>2
<1> QED
  BY <1>1, <1>3 DEF Abs, Part

\* The invariant of the uploads is inductive.
LEMMA UploadsStep == UploadsInv /\ [EditNext \/ UploadNext]_pluginEditingVars => UploadsInv'
<1> SUFFICES ASSUME UploadsInv, [EditNext \/ UploadNext]_pluginEditingVars PROVE UploadsInv'
  OBVIOUS
<1>0. /\ UploadsTyped /\ files \in [AllFiles -> Uploads \cup {None, "empty"}]
      /\ upload \in [Uploads -> [at : UploadPlaces, name : 0 .. 2, number : 0 .. MaxCandidate]]
  BY DEF UploadsInv, UploadsTyped
<1>n. None # "empty" /\ \A u \in Uploads : u # None /\ u # "empty"
  BY PluginEditingAssumption DEF None
<1>1. ASSUME UNCHANGED uploadVars PROVE UploadsInv'
  BY <1>1 DEF uploadVars, UploadsInv, UploadsTyped, Held, Abs, Part
<1>2. CASE UNCHANGED pluginEditingVars
  BY <1>1, <1>2 DEF pluginEditingVars
<1>3. CASE EditNext
  BY <1>1, <1>3 DEF EditNext, ListPlugins, HandlePut, HandleTest, ValidateStaged, WriteSource, AnswerPut,
                    HandleCreate, CreateFile, AnswerCreate, TestsAnswer, OrphanEnds
<1>4. ASSUME NEW u \in Uploads, NEW name \in UploadNames, UploadAsset(u, name)
      PROVE  UploadsInv'
  <2>1. name \in 0 .. 2 /\ 0 \in 0 .. MaxCandidate
    BY PluginEditingAssumption
  <2>2. /\ upload' = [upload EXCEPT ![u] = [at |-> "name", name |-> name, number |-> 0]] /\ files' = files
    BY <1>4 DEF UploadAsset
  <2>3. upload'[u].at = "name" /\ \A w \in Uploads \ {u} : upload'[w] = upload[w]
    BY <1>0, <2>2
  <2>4. UploadsTyped'
    BY <1>0, <2>1, <2>2 DEF UploadsTyped, UploadPlaces
  <2>5. Held(u)' = {}
    BY <2>3 DEF Held
  <2> QED
    BY <2>2, <2>3, <2>4, <2>5, OneUploadMoves
<1>5. ASSUME NEW u \in Uploads, ReserveName(u)
      PROVE  UploadsInv'
  <2>1. Abs(u) \in AllFiles
    BY <1>0, UploadHasNames
  <2>2. upload[u].at = "name" /\ Held(u) = {}
    BY <1>5 DEF ReserveName, Held
  <2>3. CASE files[Abs(u)] = None /\ files' = [files EXCEPT ![Abs(u)] = "empty"] /\ At(u, "reserved")
    <3>1. /\ upload'[u].at = "reserved" /\ Abs(u)' = Abs(u) /\ \A w \in Uploads \ {u} : upload'[w] = upload[w]
          /\ upload' \in [Uploads -> [at : UploadPlaces, name : 0 .. 2, number : 0 .. MaxCandidate]]
      BY <2>3, UploadGoesOn DEF UploadPlaces
    <3>2. Held(u)' = {Abs(u)}
      BY <3>1 DEF Held
    <3>3. /\ files' \in [AllFiles -> Uploads \cup {None, "empty"}] /\ files'[Abs(u)] = "empty"
          /\ \A f \in AllFiles \ {Abs(u)} : files'[f] = files[f]
      BY <1>0, <2>1, <2>3
    <3> QED
      BY <1>n, <2>3, <3>1, <3>2, <3>3, OneUploadMoves DEF UploadsTyped
  <2>4. CASE /\ files' = files
             /\ upload' = IF upload[u].number < MaxCandidate THEN [upload EXCEPT ![u].number = @ + 1]
                          ELSE [upload EXCEPT ![u].at = "refused"]
    <3>1. upload[u] \in [at : UploadPlaces, name : 0 .. 2, number : 0 .. MaxCandidate]
      BY <1>0
    <3>2. /\ upload'[u].at \in {"name", "refused"}
          /\ upload'[u] \in [at : UploadPlaces, name : 0 .. 2, number : 0 .. MaxCandidate]
          /\ \A w \in Uploads \ {u} : upload'[w] = upload[w]
          /\ upload' \in [Uploads -> [at : UploadPlaces, name : 0 .. 2, number : 0 .. MaxCandidate]]
      <4>1. CASE upload[u].number < MaxCandidate
        <5> DEFINE new == [upload[u] EXCEPT !.number = @ + 1]
        <5>1. upload[u].number + 1 \in 0 .. MaxCandidate
          BY <3>1, <4>1, PluginEditingAssumption
        <5>2. new.at = "name" /\ new \in [at : UploadPlaces, name : 0 .. 2, number : 0 .. MaxCandidate]
          BY <2>2, <3>1, <5>1
        <5>3. upload' = [upload EXCEPT ![u] = new]
          BY <2>4, <4>1
        <5> HIDE DEF new
        <5> QED
          BY <1>0, <5>2, <5>3
      <4>2. CASE ~(upload[u].number < MaxCandidate)
        <5> DEFINE new == [upload[u] EXCEPT !.at = "refused"]
        <5>1. new.at = "refused" /\ new \in [at : UploadPlaces, name : 0 .. 2, number : 0 .. MaxCandidate]
          BY <3>1 DEF UploadPlaces
        <5>2. upload' = [upload EXCEPT ![u] = new]
          BY <2>4, <4>2
        <5> HIDE DEF new
        <5> QED
          BY <1>0, <5>1, <5>2
      <4> QED
        BY <4>1, <4>2
    <3>3. Held(u)' = {}
      BY <3>2 DEF Held
    <3> QED
      BY <1>0, <2>4, <3>2, <3>3, OneUploadMoves DEF UploadsTyped
  <2> QED
    BY <1>5, <2>3, <2>4 DEF ReserveName, Exclusive
<1>6. ASSUME NEW u \in Uploads, OpenPart(u)
      PROVE  UploadsInv'
  <2>1. Abs(u) \in AllFiles /\ Part(u) \in AllFiles /\ Abs(u) # Part(u)
    BY <1>0, UploadHasNames
  <2>2. upload[u].at = "reserved" /\ Held(u) = {Abs(u)} /\ files[Abs(u)] # None
    BY <1>6 DEF OpenPart, Held, UploadsInv
  <2>3. CASE files[Part(u)] = None /\ files' = [files EXCEPT ![Part(u)] = "empty"] /\ At(u, "filling")
    <3>1. /\ upload'[u].at = "filling" /\ Abs(u)' = Abs(u) /\ Part(u)' = Part(u)
          /\ \A w \in Uploads \ {u} : upload'[w] = upload[w]
          /\ upload' \in [Uploads -> [at : UploadPlaces, name : 0 .. 2, number : 0 .. MaxCandidate]]
      BY <2>3, UploadGoesOn DEF UploadPlaces
    <3>2. Held(u)' = {Abs(u), Part(u)}
      BY <3>1 DEF Held
    <3>3. /\ files' \in [AllFiles -> Uploads \cup {None, "empty"}] /\ files'[Part(u)] = "empty"
          /\ \A f \in AllFiles \ {Part(u)} : files'[f] = files[f]
      BY <1>0, <2>1, <2>3
    <3> QED
      BY <1>n, <2>1, <2>2, <2>3, <3>1, <3>2, <3>3, OneUploadMoves DEF UploadsTyped
  <2>4. CASE files' = files /\ At(u, "failed")
    <3>1. /\ upload'[u].at = "failed" /\ Abs(u)' = Abs(u)
          /\ \A w \in Uploads \ {u} : upload'[w] = upload[w]
          /\ upload' \in [Uploads -> [at : UploadPlaces, name : 0 .. 2, number : 0 .. MaxCandidate]]
      BY <2>4, UploadGoesOn DEF UploadPlaces
    <3>2. Held(u)' = {Abs(u)}
      BY <3>1 DEF Held
    <3> QED
      BY <1>0, <2>2, <2>4, <3>1, <3>2, OneUploadMoves DEF UploadsTyped
  <2> QED
    BY <1>6, <2>3, <2>4 DEF OpenPart
<1>7. ASSUME NEW u \in Uploads, FillPart(u) \/ RenamePart(u)
      PROVE  UploadsInv'
  <2>1. Abs(u) \in AllFiles /\ Part(u) \in AllFiles /\ Abs(u) # Part(u)
    BY <1>0, UploadHasNames
  <2>2. /\ upload[u].at \in {"filling", "filled"} /\ Held(u) = {Abs(u), Part(u)} /\ files[Abs(u)] # None
        /\ upload[u].at = "filled" => files[Part(u)] = u
    BY <1>7 DEF FillPart, RenamePart, Held, UploadsInv
  <2>3. CASE files' = [files EXCEPT ![Part(u)] = u] /\ At(u, "filled")
    <3>1. /\ upload'[u].at = "filled" /\ Abs(u)' = Abs(u) /\ Part(u)' = Part(u)
          /\ \A w \in Uploads \ {u} : upload'[w] = upload[w]
          /\ upload' \in [Uploads -> [at : UploadPlaces, name : 0 .. 2, number : 0 .. MaxCandidate]]
      BY <2>3, UploadGoesOn DEF UploadPlaces
    <3>2. Held(u)' = {Abs(u), Part(u)}
      BY <3>1 DEF Held
    <3>3. /\ files' \in [AllFiles -> Uploads \cup {None, "empty"}] /\ files'[Part(u)] = u
          /\ \A f \in AllFiles \ {Part(u)} : files'[f] = files[f]
      BY <1>0, <2>1, <2>3
    <3> QED
      BY <1>n, <2>1, <2>2, <3>1, <3>2, <3>3, OneUploadMoves DEF UploadsTyped
  <2>4. CASE files' = [files EXCEPT ![Part(u)] = None] /\ At(u, "failed")
    <3>1. /\ upload'[u].at = "failed" /\ Abs(u)' = Abs(u)
          /\ \A w \in Uploads \ {u} : upload'[w] = upload[w]
          /\ upload' \in [Uploads -> [at : UploadPlaces, name : 0 .. 2, number : 0 .. MaxCandidate]]
      BY <2>4, UploadGoesOn DEF UploadPlaces
    <3>2. Held(u)' = {Abs(u)}
      BY <3>1 DEF Held
    <3>3. /\ files' \in [AllFiles -> Uploads \cup {None, "empty"}]
          /\ \A f \in AllFiles \ {Part(u)} : files'[f] = files[f]
      BY <1>0, <2>1, <2>4
    <3> QED
      BY <2>1, <2>2, <3>1, <3>2, <3>3, OneUploadMoves DEF UploadsTyped
  <2>5. CASE /\ upload[u].at = "filled"
             /\ files' = [files EXCEPT ![Part(u)] = None, ![Abs(u)] = files[Part(u)]] /\ At(u, "answered")
    <3>1. /\ upload'[u].at = "answered" /\ Abs(u)' = Abs(u)
          /\ \A w \in Uploads \ {u} : upload'[w] = upload[w]
          /\ upload' \in [Uploads -> [at : UploadPlaces, name : 0 .. 2, number : 0 .. MaxCandidate]]
      BY <2>5, UploadGoesOn DEF UploadPlaces
    <3>2. Held(u)' = {Abs(u)}
      BY <3>1 DEF Held
    <3>3. /\ files' \in [AllFiles -> Uploads \cup {None, "empty"}] /\ files'[Abs(u)] = u
          /\ \A f \in AllFiles \ {Part(u), Abs(u)} : files'[f] = files[f]
      BY <1>0, <2>1, <2>2, <2>5
    <3> QED
      BY <1>n, <2>1, <2>2, <3>1, <3>2, <3>3, OneUploadMoves DEF UploadsTyped
  <2> QED
    BY <1>7, <2>3, <2>4, <2>5 DEF FillPart, RenamePart
<1>8. ASSUME NEW u \in Uploads, DropReservation(u)
      PROVE  UploadsInv'
  <2>1. Abs(u) \in AllFiles
    BY <1>0, UploadHasNames
  <2>2. /\ upload[u].at = "failed" /\ Held(u) = {Abs(u)}
        /\ files' = [files EXCEPT ![Abs(u)] = None] /\ At(u, "refused")
    BY <1>8 DEF DropReservation, Held
  <2>3. /\ upload'[u].at = "refused" /\ \A w \in Uploads \ {u} : upload'[w] = upload[w]
        /\ upload' \in [Uploads -> [at : UploadPlaces, name : 0 .. 2, number : 0 .. MaxCandidate]]
    BY <2>2, UploadGoesOn DEF UploadPlaces
  <2>4. Held(u)' = {}
    BY <2>3 DEF Held
  <2>5. /\ files' \in [AllFiles -> Uploads \cup {None, "empty"}]
        /\ \A f \in AllFiles \ {Abs(u)} : files'[f] = files[f]
    BY <1>0, <2>1, <2>2
  <2> QED
    BY <2>2, <2>3, <2>4, <2>5, OneUploadMoves DEF UploadsTyped
<1>9. CASE ServerDies
  <2>1. /\ files' = files
        /\ upload' = [u \in Uploads |-> IF upload[u].at = "answered" THEN upload[u] ELSE [upload[u] EXCEPT !.at = "refused"]]
    BY <1>9 DEF ServerDies
  <2>2. ASSUME NEW u \in Uploads
        PROVE  /\ upload'[u] \in [at : UploadPlaces, name : 0 .. 2, number : 0 .. MaxCandidate]
               /\ upload'[u].at \in {"answered", "refused"}
               /\ upload'[u].at = "answered" => upload[u].at = "answered" /\ upload'[u] = upload[u]
    BY <1>0, <2>1 DEF UploadPlaces
  <2>3. UploadsTyped'
    BY <1>0, <2>1, <2>2 DEF UploadsTyped
  <2>4. \A u \in Uploads : Held(u)' \subseteq Held(u) /\ (Held(u)' # {} => Abs(u)' = Abs(u) /\ Part(u)' = Part(u))
    BY <2>2 DEF Held, Abs, Part
  <2>5. \A u \in Uploads : upload'[u].at = "answered" => files'[Abs(u)'] = u
    BY <2>1, <2>2 DEF UploadsInv, Abs
  <2> QED
    BY <2>1, <2>2, <2>3, <2>4, <2>5 DEF UploadsInv
<1> QED
  BY <1>2, <1>3, <1>4, <1>5, <1>6, <1>7, <1>8, <1>9 DEF UploadNext

\* The two invariants imply that sources and uploads are whole.
LEMMA SourcesAreWhole == EditsInv /\ UploadsInv => PluginSourcesAreWhole
BY DEF EditsInv, Settled, Active, UploadsInv, PluginSourcesAreWhole

-----------------------------------------------------------------------------
(* Imports                                                                 *)

PluginFiles == {"plugin.yaml", "main.py", "plugin.test.yaml", "README.md", "requirements.lock"}

\* Every file that is there is what the plan of this project says.
AsPlanned == project \in Projects /\ \A f \in Files : disk[f] = Content(project, f)

\* An attempt that plans finds nothing at its destination, one that writes has
\* there what it does not have yet to write, and one that is done has all.
ImportInv ==
    /\ importStep \in {"none", "refused", "exists", "planned", "writing", "valid", "failed", "red", "done"}
    /\ unwritten \in Seq(PluginFiles)
    /\ (~dest => disk = <<>>)
    /\ (importStep = "planned" => ~dest /\ project \in Projects)
    /\ (importStep = "writing" => dest /\ AsPlanned /\ Files \cup ToSet(unwritten) = ToSet(FilesOf(project)))
    /\ (importStep \in {"valid", "done", "red"} => AsPlanned /\ Files = ToSet(FilesOf(project)))
    /\ (importStep = "red" => ~python3 \/ project.loads = "exits")

\* A sequence is its head and its tail.
LEMMA HeadAndTail ==
    ASSUME NEW S, NEW s \in Seq(S), s # <<>>
    PROVE  /\ Head(s) \in S /\ Tail(s) \in Seq(S)
           /\ ToSet(s) = {Head(s)} \cup ToSet(Tail(s))
<1>1. /\ Head(s) \in S /\ Tail(s) \in Seq(S) /\ Len(s) \in Nat /\ Len(s) > 0
      /\ Head(s) = s[1] /\ Len(Tail(s)) = Len(s) - 1
      /\ DOMAIN s = 1 .. Len(s) /\ DOMAIN Tail(s) = 1 .. Len(Tail(s))
  OBVIOUS
<1>2. \A i \in 1 .. Len(s) - 1 : Tail(s)[i] = s[i + 1]
  OBVIOUS
<1>3. ToSet(s) \subseteq {Head(s)} \cup ToSet(Tail(s))
  <2>1. ASSUME NEW i \in 1 .. Len(s)
        PROVE  s[i] \in {Head(s)} \cup ToSet(Tail(s))
    <3>1. CASE i = 1
      BY <1>1, <3>1
    <3>2. CASE i # 1
      <4>1. i - 1 \in 1 .. Len(s) - 1 /\ (i - 1) + 1 = i
        BY <1>1, <3>2
      <4>2. i - 1 \in DOMAIN Tail(s) /\ Tail(s)[i - 1] = s[i]
        BY <1>1, <1>2, <4>1
      <4> QED
        BY <4>2 DEF ToSet
    <3> QED
      BY <3>1, <3>2
  <2> QED
    BY <1>1, <2>1 DEF ToSet
<1>4. {Head(s)} \cup ToSet(Tail(s)) \subseteq ToSet(s)
  <2>1. Head(s) \in ToSet(s)
    BY <1>1 DEF ToSet
  <2>2. ASSUME NEW i \in 1 .. Len(s) - 1
        PROVE  Tail(s)[i] \in ToSet(s)
    <3>1. i + 1 \in DOMAIN s
      BY <1>1
    <3> QED
      BY <1>2, <3>1 DEF ToSet
  <2> QED
    BY <1>1, <2>1, <2>2 DEF ToSet
<1> QED
  BY <1>1, <1>3, <1>4

\* Every plan has a manifest and a skeleton, and a lock file for what it pins.
LEMMA FilesOfPlan ==
    ASSUME NEW p
    PROVE  /\ FilesOf(p) \in Seq(PluginFiles)
           /\ {"plugin.yaml", "main.py"} \subseteq ToSet(FilesOf(p))
           /\ Specs(p) # {} => "requirements.lock" \in ToSet(FilesOf(p))
<1> DEFINE always == <<"plugin.yaml", "main.py", "plugin.test.yaml", "README.md">>
<1> HIDE DEF Specs
<1>0. always \in Seq(PluginFiles)
  BY DEF PluginFiles
<1>1. /\ Len(always) = 4 /\ DOMAIN always = 1 .. 4
      /\ always[1] = "plugin.yaml" /\ always[2] = "main.py"
  BY DEF PluginFiles
<1>2. "requirements.lock" \in PluginFiles
  BY DEF PluginFiles
<1>3. FilesOf(p) = IF Specs(p) = {} THEN always ELSE Append(always, "requirements.lock")
  BY DEF FilesOf
<1> HIDE DEF always
<1>4. CASE Specs(p) = {}
  <2>1. FilesOf(p) = always /\ 1 \in DOMAIN always /\ 2 \in DOMAIN always
    BY <1>1, <1>3, <1>4
  <2> QED
    BY <1>0, <1>1, <1>4, <2>1 DEF ToSet
<1>5. CASE Specs(p) # {}
  <2> DEFINE longer == Append(always, "requirements.lock")
  <2>1. /\ longer \in Seq(PluginFiles) /\ DOMAIN longer = 1 .. 5
        /\ longer[1] = "plugin.yaml" /\ longer[2] = "main.py" /\ longer[5] = "requirements.lock"
    <3>1. /\ longer \in Seq(PluginFiles) /\ Len(longer) = Len(always) + 1
          /\ \A i \in 1 .. Len(always) : longer[i] = always[i]
          /\ longer[Len(always) + 1] = "requirements.lock"
      BY <1>0, <1>2, AppendProperties
    <3>2. Len(always) + 1 = 5 /\ 1 \in 1 .. Len(always) /\ 2 \in 1 .. Len(always)
      BY <1>1
    <3>3. DOMAIN longer = 1 .. Len(longer)
      BY <3>1
    <3> QED
      BY <1>1, <3>1, <3>2, <3>3
  <2>2. FilesOf(p) = longer /\ 1 \in DOMAIN longer /\ 2 \in DOMAIN longer /\ 5 \in DOMAIN longer
    BY <1>3, <1>5, <2>1
  <2> HIDE DEF longer
  <2> QED
    BY <2>1, <2>2 DEF ToSet
<1> QED
  BY <1>4, <1>5

\* An import begins with nothing written.
LEMMA ImportStarts == ImportingInit => ImportInv
<1>1. <<>> \in Seq(PluginFiles)
  OBVIOUS
<1> QED
  BY <1>1 DEF ImportingInit, ImportInv

\* A plan that starts finds nothing there, whatever was left before.
LEMMA ImportBegins ==
    ASSUME ImportInv, NEW p \in Projects, BeginImport(p)
    PROVE  ImportInv'
<1>1. /\ project' = p /\ unwritten' = unwritten /\ dest' = dest /\ disk' = disk
      /\ importStep' = IF ~Inspected(p) THEN "refused" ELSE IF ~DestinationIsFree THEN "exists" ELSE "planned"
  BY DEF BeginImport
<1>2. /\ importStep' \in {"refused", "exists", "planned"}
      /\ (importStep' = "planned" => ~dest)
  BY <1>1 DEF DestinationIsFree
<1> QED
  BY <1>1, <1>2 DEF ImportInv

\* The directory is made for the files of one plan.
LEMMA DestinationIsMade ==
    ASSUME ImportInv, CreateDestination
    PROVE  ImportInv'
<1>1. /\ project \in Projects /\ disk = <<>> /\ project' = project /\ disk' = disk
      /\ dest' = TRUE /\ importStep' = "writing" /\ unwritten' = FilesOf(project)
  BY DEF ImportInv, CreateDestination
<1>2. Files' = {}
  BY <1>1 DEF Files
<1>3. unwritten' \in Seq(PluginFiles)
  BY <1>1, FilesOfPlan
<1>4. Files' \cup ToSet(unwritten') = ToSet(FilesOf(project'))
  BY <1>1, <1>2
<1>5. AsPlanned'
  BY <1>1, <1>2 DEF AsPlanned
<1> QED
  BY <1>1, <1>3, <1>4, <1>5 DEF ImportInv

\* Each file is written once, in the order of the plan.
LEMMA NextIsWritten ==
    ASSUME ImportInv, WriteNext
    PROVE  ImportInv'
<1> DEFINE f0 == Head(unwritten)
<1>1. /\ importStep = "writing" /\ unwritten # <<>> /\ unwritten \in Seq(PluginFiles)
      /\ AsPlanned /\ Files \cup ToSet(unwritten) = ToSet(FilesOf(project))
      /\ (~dest => disk = <<>>)
  BY DEF ImportInv, WriteNext
<1>2. /\ disk' = [f \in Files \cup {f0} |-> IF f = f0 THEN Content(project, f) ELSE disk[f]]
      /\ unwritten' = Tail(unwritten)
      /\ project' = project /\ importStep' = importStep /\ dest' = dest
  BY DEF WriteNext
<1>3. /\ unwritten' \in Seq(PluginFiles)
      /\ ToSet(unwritten) = {f0} \cup ToSet(unwritten')
  BY <1>1, <1>2, HeadAndTail
<1> HIDE DEF f0
<1>4. Files' = Files \cup {f0}
  BY <1>2 DEF Files
<1>5. Files' \cup ToSet(unwritten') = ToSet(FilesOf(project'))
  BY <1>1, <1>2, <1>3, <1>4
<1>6. \A f \in Files' : disk'[f] = Content(project', f)
  <2>1. ASSUME NEW f \in Files \cup {f0}
        PROVE  disk'[f] = Content(project, f)
    BY <1>1, <1>2 DEF AsPlanned
  <2> QED
    BY <1>2, <1>4, <2>1
<1>7. AsPlanned'
  BY <1>1, <1>2, <1>6 DEF AsPlanned
<1>8. dest
  BY DEF ImportInv, WriteNext
<1> QED
  BY <1>1, <1>2, <1>3, <1>5, <1>7, <1>8 DEF ImportInv

\* All that is planned is written, and then it is a plugin.
LEMMA WrittenIsValid ==
    ASSUME AsPlanned, Files = ToSet(FilesOf(project))
    PROVE  IsValidPlugin
<1>1. /\ {"plugin.yaml", "main.py"} \subseteq Files
      /\ Specs(project) # {} => "requirements.lock" \in Files
  BY FilesOfPlan
<1>2. /\ Content(project, "plugin.yaml") = Specs(project)
      /\ Content(project, "requirements.lock") = Specs(project)
  BY DEF Content
<1> QED
  BY <1>1, <1>2 DEF AsPlanned, IsValidPlugin

\* What is validated was written whole.
LEMMA ImportIsValidated ==
    ASSUME ImportInv, ValidateImported
    PROVE  ImportInv'
<1>1. /\ AsPlanned /\ Files \cup ToSet(unwritten) = ToSet(FilesOf(project)) /\ unwritten = <<>>
      /\ project' = project /\ unwritten' = unwritten /\ dest' = dest /\ disk' = disk
      /\ importStep' = IF IsValidPlugin THEN "valid" ELSE "invalid"
  BY DEF ImportInv, ValidateImported
<1>2. ToSet(unwritten) = {}
  BY <1>1 DEF ToSet
<1>3. Files = ToSet(FilesOf(project))
  BY <1>1, <1>2
<1>4. importStep' = "valid"
  BY <1>1, <1>3, WrittenIsValid
<1>5. AsPlanned' /\ Files' = ToSet(FilesOf(project'))
  BY <1>1, <1>3 DEF AsPlanned, Files
<1> QED
  BY <1>1, <1>4, <1>5 DEF ImportInv

\* Red tests have a cause outside of what was generated.
LEMMA ImportIsTested ==
    ASSUME ImportInv, TestImported
    PROVE  ImportInv'
<1>1. /\ AsPlanned /\ Files = ToSet(FilesOf(project))
      /\ project' = project /\ unwritten' = unwritten /\ dest' = dest /\ disk' = disk /\ python3' = python3
      /\ importStep' = IF TestsPass THEN "done" ELSE "red"
  BY DEF ImportInv, TestImported
<1>2. disk["main.py"] = Content(project, "main.py")
  BY <1>1, FilesOfPlan DEF AsPlanned
<1>3. disk["main.py"].loads = project.loads
  BY <1>2 DEF Content
<1>4. importStep' = "red" => ~python3 \/ project.loads = "exits"
  BY <1>1, <1>3 DEF TestsPass, LoadEndsMain
<1>5. AsPlanned' /\ Files' = ToSet(FilesOf(project'))
  BY <1>1 DEF AsPlanned, Files
<1> QED
  BY <1>1, <1>4, <1>5 DEF ImportInv

\* The invariant of an import is inductive.
LEMMA ImportStep == ImportInv /\ [ImportingNext]_importVars => ImportInv'
<1> SUFFICES ASSUME ImportInv, [ImportingNext]_importVars
             PROVE  ImportInv'
  OBVIOUS
<1>1. CASE UNCHANGED importVars
  <2>1. /\ project' = project /\ importStep' = importStep /\ unwritten' = unwritten
        /\ dest' = dest /\ disk' = disk /\ python3' = python3
    BY <1>1 DEF importVars
  <2> QED
    BY <2>1 DEF ImportInv, AsPlanned, Files
<1>2. CASE \E p \in Projects : BeginImport(p)
  BY <1>2, ImportBegins
<1>3. CASE CreateDestination
  BY <1>3, DestinationIsMade
<1>4. CASE WriteNext
  BY <1>4, NextIsWritten
<1>5. CASE ImportFails
  BY <1>5 DEF ImportFails, ImportInv
<1>6. CASE ValidateImported
  BY <1>6, ImportIsValidated
<1>7. CASE TestImported
  BY <1>7, ImportIsTested
<1>8. CASE RemoveDestination
  BY <1>8 DEF RemoveDestination, ImportInv
<1> QED
  BY <1>1, <1>2, <1>3, <1>4, <1>5, <1>6, <1>7, <1>8 DEF ImportingNext

\* The first of several dependencies with a name is selected, so no name of
\* the project's list is lost on the way to the plan.
LEMMA EveryNameIsSelected ==
    ASSUME NEW p \in Projects
    PROVE  NamesOf(Selected(p)) = NamesOf(ToSet(p.dependencies))
<1> DEFINE ds == p.dependencies
           repeats(i) == \E j \in 1 .. i - 1 : /\ ds[j].name = ds[i].name
                                               /\ ds[j].form # "unreadable" /\ ds[i].form # "unreadable"
<1>0. ds \in Seq(DependencyKinds)
  BY ImportingAssumption DEF ProjectKinds
<1>1. DOMAIN ds = 1 .. Len(ds) /\ Len(ds) \in Nat
  BY <1>0
<1>2. Selected(p) = {ds[i] : i \in {i \in DOMAIN ds : ~repeats(i)}}
  BY DEF Selected
<1> HIDE DEF ds, repeats
<1>3. ASSUME NEW i \in DOMAIN ds
      PROVE  ds[i].name \in NamesOf(Selected(p))
  <2> DEFINE named == {j \in DOMAIN ds : ds[j].name = ds[i].name}
  <2>1. named \in SUBSET Nat /\ i \in named
    BY <1>1
  <2> HIDE DEF named
  <2>2. PICK n \in named : \A m \in named : n <= m
    BY <2>1, LeastNumber
  <2>3. n \in DOMAIN ds /\ n \in Nat /\ ds[n].name = ds[i].name
    BY <2>1, <2>2 DEF named
  <2>4. ASSUME NEW j \in 1 .. n - 1, ds[j].name = ds[n].name
        PROVE  FALSE
    <3>1. j \in DOMAIN ds /\ j \in Nat /\ ~(n <= j)
      BY <1>1, <2>3
    <3> QED
      BY <2>2, <2>3, <2>4, <3>1 DEF named
  <2>5. ~repeats(n)
    BY <2>4 DEF repeats
  <2>6. ds[n] \in Selected(p)
    BY <1>2, <2>3, <2>5
  <2> QED
    BY <2>3, <2>6 DEF NamesOf
<1>4. NamesOf(ToSet(ds)) \subseteq NamesOf(Selected(p))
  BY <1>3 DEF NamesOf, ToSet
<1>5. Selected(p) \subseteq ToSet(ds)
  BY <1>2 DEF ToSet
<1>6. NamesOf(Selected(p)) = NamesOf(ToSet(ds))
  BY <1>4, <1>5 DEF NamesOf
<1> QED
  BY <1>6 DEF ds

\* A dependency of the project is in the manifest, or a human is told.
LEMMA NothingDropped ==
    ASSUME AsPlanned, Files = ToSet(FilesOf(project))
    PROVE  \/ NamesOf(disk["plugin.yaml"]) = NamesOf(ToSet(project.dependencies))
           \/ disk["plugin.yaml"] = {} /\ "requires" \in Blockers(project)
<1>1. project \in Projects /\ disk["plugin.yaml"] = Specs(project)
  BY FilesOfPlan DEF AsPlanned, Content
<1>2. CASE \A d \in Selected(project) : Writable(d)
  <2>1. Specs(project) = Selected(project)
    BY <1>2 DEF Specs
  <2> QED
    BY <1>1, <2>1, EveryNameIsSelected
<1>3. CASE \E d \in Selected(project) : ~Writable(d)
  <2>1. Specs(project) = {}
    BY <1>3 DEF Specs
  <2>2. "requires" \in Said("requires", \E d \in Selected(project) : ~Writable(d))
    BY <1>3 DEF Said
  <2>3. "requires" \in Blockers(project)
    BY <2>2 DEF Blockers
  <2> QED
    BY <1>1, <2>1, <2>3
<1> QED
  BY <1>2, <1>3

\* The invariant implies that an import drops nothing silently.
LEMMA ImportsAreSound == ImportInv => ImportIsSound
<1> SUFFICES ASSUME ImportInv
             PROVE  ImportIsSound
  OBVIOUS
<1>1. NoDependencyIsDropped
  BY NothingDropped DEF NoDependencyIsDropped, ImportInv
<1>2. importStep \in {"writing", "valid"} => \A f \in Files : disk[f] = Content(project, f)
  BY DEF ImportInv, AsPlanned
<1>3. importStep # "invalid"
  BY DEF ImportInv
<1>4. importStep = "red" => ~python3 \/ project.loads = "exits"
  BY DEF ImportInv
<1> QED
  BY <1>1, <1>2, <1>3, <1>4 DEF ImportIsSound

-----------------------------------------------------------------------------
(* The tools side by side                                                  *)

\* Edits of a plugin settle on a valid one, answered uploads keep what they
\* brought, presets mean what was saved and imports drop no dependency
\* (pluginsource.go, assets.go, editor.go, internal/importer): each tool has
\* an invariant of its own, and stutters while another one writes.
THEOREM SavedWorkStaysWhole == SavedWorkSpec => []SavedWorkIsWhole
<1> DEFINE Inv == EditsInv /\ UploadsInv /\ PresetsInv /\ ImportInv
<1>1. SavedWorkInit => Inv
  BY EditsStart, UploadsStart, PresetsStart, ImportStarts DEF SavedWorkInit
<1>2. Inv /\ [SavedWorkNext]_savedWorkVars => Inv'
  <2> SUFFICES ASSUME Inv, [SavedWorkNext]_savedWorkVars
               PROVE  Inv'
    OBVIOUS
  <2>1. /\ [EditNext \/ UploadNext]_pluginEditingVars
        /\ [PresetNext]_presetVars
        /\ [ImportingNext]_importVars
    BY DEF SavedWorkNext, savedWorkVars
  <2> QED
    BY <2>1, EditsStep, UploadsStep, PresetsStep, ImportStep
<1>3. Inv => SavedWorkIsWhole
  BY SourcesAreWhole, PresetsAreSound, ImportsAreSound DEF SavedWorkIsWhole
<1> QED
  BY <1>1, <1>2, <1>3, PTL DEF SavedWorkSpec

\* What Show remembers and answers.
ShownIsKnown ==
    /\ manifestCache \in Manifests \cup {NoManifest}
    /\ shownTrust \in {"unknown", "trusted", "blocked"}

\* Showing a plugin remembers a manifest and a trust that are known.
LEMMA ShownStaysKnown ==
    ASSUME ShownIsKnown, [EditNext \/ UploadNext]_pluginEditingVars
    PROVE  ShownIsKnown'
<1>1. ASSUME NEW d, Show(d)
      PROVE  ShownIsKnown'
  <2> DEFINE known == IF manifestCache # NoManifest THEN manifestCache
                      ELSE IF Loads(d) THEN d["plugin.yaml"] ELSE NoManifest
  <2>1. known \in Manifests \cup {NoManifest}
    BY DEF ShownIsKnown, Loads
  <2>2. /\ manifestCache' = known
        /\ shownTrust' = IF known = NoManifest THEN "unknown" ELSE IF Trusts(known, d) THEN "trusted" ELSE "blocked"
    BY <1>1 DEF Show
  <2> HIDE DEF known
  <2> QED
    BY <2>1, <2>2 DEF ShownIsKnown
<1>2. Show(plugin) \/ UNCHANGED <<manifestCache, shownTrust>>
  BY DEF EditNext, ListPlugins, HandlePut, HandleTest, ValidateStaged, WriteSource, AnswerPut, HandleCreate,
         CreateFile, AnswerCreate, TestsAnswer, OrphanEnds, UploadNext, ServerDies, UploadAsset, ReserveName,
         OpenPart, FillPart, RenamePart, DropReservation, UploadOnly, editVars, pluginEditingVars
<1> QED
  BY <1>1, <1>2 DEF ShownIsKnown

\* Since the file was last emptied no more texts were written than tabs have
\* saved theirs.
SavedTabs == {t \in Tabs : tab[t] = Saved}

TextsAreCounted ==
    /\ texts = 1 \/ texts <= Cardinality(SavedTabs)
    /\ (\E t \in Tabs : tab[t].stage = "writing") => texts <= Cardinality(SavedTabs)
    /\ \A t \in Tabs : text[t] \in Pipelines0 \cup {NoText}
    /\ editCount \in 0 .. MaxEdits

\* A tab that leaves the file alone does not become one that writes.
LEMMA OneTabMoves ==
    ASSUME PresetsInv, TextsAreCounted, NEW t \in Tabs, tab[t] # Saved,
           tab' \in [Tabs -> {Closed, Saved} \cup OpenTabs], \A u \in Tabs \ {t} : tab'[u] = tab[u]
    PROVE  /\ IsFiniteSet(SavedTabs) /\ Cardinality(SavedTabs) \in Nat
           /\ tab'[t] # Saved => SavedTabs' = SavedTabs
           /\ tab'[t] = Saved => Cardinality(SavedTabs)' = Cardinality(SavedTabs) + 1
<1>1. IsFiniteSet(SavedTabs) /\ Cardinality(SavedTabs) \in Nat
  BY PresetsAssumption, FS_Subset, FS_CardinalityType DEF SavedTabs
<1>2. tab'[t] # Saved => SavedTabs' = SavedTabs
  BY DEF SavedTabs
<1>3. ASSUME tab'[t] = Saved
      PROVE  Cardinality(SavedTabs)' = Cardinality(SavedTabs) + 1
  <2>1. SavedTabs' = SavedTabs \cup {t} /\ t \notin SavedTabs
    BY <1>3 DEF SavedTabs
  <2> QED
    BY <1>1, <2>1, FS_AddElement
<1> QED
  BY <1>1, <1>2, <1>3

\* A text is written by a tab that has then saved it.
LEMMA TextsStayCounted ==
    ASSUME PresetsInv, PresetsInv', TextsAreCounted, [PresetNext]_presetVars
    PROVE  TextsAreCounted'
<1>1. /\ tab \in [Tabs -> {Closed, Saved} \cup OpenTabs] /\ tab' \in [Tabs -> {Closed, Saved} \cup OpenTabs]
      /\ DOMAIN text = Tabs /\ text = [t \in Tabs |-> text[t]] /\ texts \in Nat /\ MaxEdits \in Nat
  BY PresetsAssumption DEF PresetsInv, PresetsTyped
<1>2. /\ Saved.stage = "saved" /\ Closed.stage = "closed" /\ \A d \in OpenTabs : d.stage \in {"open", "saving", "writing"}
  BY DEF Saved, Closed, OpenTabs
<1>3. CASE UNCHANGED presetVars
  BY <1>3 DEF presetVars, TextsAreCounted, SavedTabs
<1>4. ASSUME NEW t \in Tabs, OpenPreset(t) \/ EditPreset(t) \/ \E p \in Chains : ApplyPreset(t, p)
      PROVE  TextsAreCounted'
  <2>1. /\ UNCHANGED <<texts, text>> /\ tab[t].stage \in {"closed", "open"}
        /\ \A u \in Tabs \ {t} : tab'[u] = tab[u]
        /\ editCount' = editCount \/ (editCount < MaxEdits /\ editCount' = editCount + 1)
    BY <1>1, <1>4 DEF OpenPreset, EditPreset, ApplyPreset, ChangeField, Counted
  <2>2. tab'[t].stage = "open"
    <3>1. CASE OpenPreset(t)
      BY <1>1, <3>1 DEF OpenPreset
    <3>2. CASE EditPreset(t) \/ \E p \in Chains : ApplyPreset(t, p)
      <4>1. tab[t] \in OpenTabs /\ tab[t].stage = "open"
        BY <1>1, <1>2, <3>2 DEF EditPreset, ApplyPreset, ChangeField
      <4>2. PICK d, changed : tab' = [tab EXCEPT ![t].doc = d, ![t].touched = changed]
        BY <3>2 DEF EditPreset, ApplyPreset, ChangeField
      <4> QED
        BY <1>1, <4>1, <4>2 DEF OpenTabs
    <3> QED
      BY <1>4, <3>1, <3>2
  <2>3. tab[t] # Saved /\ tab'[t] # Saved
    BY <1>2, <2>1, <2>2
  <2>4. SavedTabs' = SavedTabs
    BY <1>1, <2>1, <2>3, OneTabMoves
  <2>5. (\E u \in Tabs : tab'[u].stage = "writing") => \E u \in Tabs : tab[u].stage = "writing"
    BY <2>1, <2>2
  <2>6. editCount' \in 0 .. MaxEdits
    BY <1>1, <2>1 DEF TextsAreCounted
  <2> QED
    BY <2>1, <2>4, <2>5, <2>6 DEF TextsAreCounted
<1>5. ASSUME NEW t \in Tabs, SavePreset(t)
      PROVE  TextsAreCounted'
  <2>1. /\ UNCHANGED <<texts, editCount>> /\ tab[t].stage = "open"
        /\ text' = [text EXCEPT ![t] = Serialize(tab[t].doc)] /\ tab' = [tab EXCEPT ![t].stage = "saving"]
    BY <1>5 DEF SavePreset
  <2>2. tab[t] \in OpenTabs /\ Serialize(tab[t].doc) \in Pipelines0
    BY <2>1, TabHasDocument, TextOfDocument
  <2>3. tab'[t].stage = "saving" /\ \A u \in Tabs \ {t} : tab'[u] = tab[u]
    BY <1>1, <2>1, <2>2 DEF OpenTabs
  <2>4. SavedTabs' = SavedTabs
    BY <1>1, <1>2, <2>1, <2>3, OneTabMoves
  <2>5. (\E u \in Tabs : tab'[u].stage = "writing") => \E u \in Tabs : tab[u].stage = "writing"
    BY <2>3
  <2>6. \A u \in Tabs : text'[u] \in Pipelines0 \cup {NoText}
    BY <1>1, <2>1, <2>2 DEF TextsAreCounted
  <2> QED
    BY <2>1, <2>4, <2>5, <2>6 DEF TextsAreCounted
<1>6. ASSUME NEW t \in Tabs, PutPreset(t)
      PROVE  TextsAreCounted'
  <2>1. /\ texts' = 0 /\ UNCHANGED <<text, editCount>> /\ tab[t].stage = "saving"
        /\ tab' = [tab EXCEPT ![t].stage = "writing"]
    BY <1>6 DEF PutPreset
  <2>2. IsFiniteSet(SavedTabs') /\ Cardinality(SavedTabs)' \in Nat
    BY PresetsAssumption, FS_Subset, FS_CardinalityType DEF SavedTabs
  <2> QED
    BY <2>1, <2>2 DEF TextsAreCounted
<1>7. ASSUME NEW t \in Tabs, WritePreset(t) \/ WriteCutOff(t)
      PROVE  TextsAreCounted'
  <2>1. /\ tab[t].stage = "writing" /\ tab' = [tab EXCEPT ![t] = Saved] /\ text' = [text EXCEPT ![t] = NoText]
        /\ editCount' = editCount /\ texts' \in {texts, texts + 1}
    BY <1>7 DEF WritePreset, WriteCutOff
  <2>2. tab'[t] = Saved /\ tab[t] # Saved /\ \A u \in Tabs \ {t} : tab'[u] = tab[u]
    BY <1>1, <1>2, <2>1
  <2>3. /\ Cardinality(SavedTabs) \in Nat /\ Cardinality(SavedTabs)' = Cardinality(SavedTabs) + 1
    BY <1>1, <2>2, OneTabMoves
  <2>4. texts <= Cardinality(SavedTabs)
    BY <2>1 DEF TextsAreCounted
  <2>5. texts' <= Cardinality(SavedTabs)'
    BY <1>1, <2>1, <2>3, <2>4
  <2>6. \A u \in Tabs : text'[u] \in Pipelines0 \cup {NoText}
    BY <1>1, <2>1 DEF TextsAreCounted
  <2> QED
    BY <2>1, <2>5, <2>6 DEF TextsAreCounted
<1> QED
  BY <1>3, <1>4, <1>5, <1>6, <1>7 DEF PresetNext

\* Whose plan an import follows, and how many were asked for.
ImportsAreCounted ==
    project \in Projects \cup {NoProject} /\ python3 \in BOOLEAN /\ attempts \in 0 .. MaxAttempts /\ dest \in BOOLEAN

\* Attempts at an import stay within their bound.
LEMMA ImportsStayCounted ==
    ASSUME ImportsAreCounted, [ImportingNext]_importVars
    PROVE  ImportsAreCounted'
<1>1. MaxAttempts \in Nat
  BY ImportingAssumption
<1>2. /\ project' \in Projects \cup {project} /\ python3' = python3 /\ dest' \in {dest, TRUE, FALSE}
      /\ attempts' = attempts \/ (attempts < MaxAttempts /\ attempts' = attempts + 1)
  BY DEF ImportingNext, BeginImport, CreateDestination, WriteNext, ImportFails, ValidateImported, TestImported,
         RemoveDestination, importVars
<1>3. attempts' \in 0 .. MaxAttempts
  BY <1>1, <1>2 DEF ImportsAreCounted
<1> QED
  BY <1>2, <1>3 DEF ImportsAreCounted

\* Every file of the tools holds what its format allows, or is cut off; and no
\* tool does more than it was asked for.
SavedWorkTypeOK == PluginEditingTypeOK /\ PresetEditingTypeOK /\ ImportingTypeOK

\* The invariants of the three tools imply their types.
LEMMA ToolsAreTyped ==
    ASSUME EditsInv, UploadsInv, PresetsInv, ImportInv, ShownIsKnown, TextsAreCounted, ImportsAreCounted
    PROVE  SavedWorkTypeOK
<1>1. PluginEditingTypeOK
  BY DEF EditsInv, EditsTyped, UploadsInv, UploadsTyped, ShownIsKnown, PluginEditingTypeOK
<1>2. PresetEditingTypeOK
  <2>1. Cardinality(SavedTabs) \in Nat /\ Cardinality(SavedTabs) <= Cardinality(Tabs) /\ Cardinality(Tabs) \in Nat
    BY PresetsAssumption, FS_Subset, FS_CardinalityType DEF SavedTabs
  <2>2. Cardinality(Tabs) # 0
    BY PresetsAssumption, FS_EmptySet
  <2>3. texts \in 0 .. Cardinality(Tabs)
    BY <2>1, <2>2 DEF PresetsInv, PresetsTyped, TextsAreCounted
  <2>4. \A t \in Tabs : tab[t].stage \in {"closed", "open", "saving", "writing", "saved"}
    BY DEF PresetsInv, PresetsTyped, Closed, Saved, OpenTabs
  <2> QED
    BY <2>3, <2>4 DEF PresetsInv, PresetsTyped, TextsAreCounted, PresetEditingTypeOK
<1>3. ImportingTypeOK
  BY DEF ImportInv, PluginFiles, ImportsAreCounted, ImportingTypeOK
<1> QED
  BY <1>1, <1>2, <1>3 DEF SavedWorkTypeOK

\* What the editor, the uploads and the importer hold and write is of its type
\* (pluginsource.go, assets.go, editor.go, internal/importer).
THEOREM SavedWorkIsTyped == SavedWorkSpec => []SavedWorkTypeOK
<1> DEFINE Inv == /\ EditsInv /\ UploadsInv /\ PresetsInv /\ ImportInv
                  /\ ShownIsKnown /\ TextsAreCounted /\ ImportsAreCounted
<1>1. SavedWorkInit => Inv
  <2> SUFFICES ASSUME SavedWorkInit PROVE Inv
    OBVIOUS
  <2>1. EditsInv /\ UploadsInv /\ PresetsInv /\ ImportInv
    BY EditsStart, UploadsStart, PresetsStart, ImportStarts DEF SavedWorkInit
  <2>2. ShownIsKnown
    BY DEF SavedWorkInit, PluginEditingInit, ShownIsKnown
  <2>3. TextsAreCounted
    <3>1. MaxEdits \in Nat
      BY PresetsAssumption
    <3>2. /\ texts = 1 /\ editCount = 0 /\ \A t \in Tabs : text[t] = NoText /\ tab[t].stage = "closed"
      BY DEF SavedWorkInit, PresetEditingInit, Closed
    <3> QED
      BY <3>1, <3>2 DEF TextsAreCounted
  <2>4. ImportsAreCounted
    <3>1. MaxAttempts \in Nat
      BY ImportingAssumption
    <3>2. project = NoProject /\ dest = FALSE /\ attempts = 0 /\ python3 \in BOOLEAN
      BY DEF SavedWorkInit, ImportingInit
    <3>3. attempts \in 0 .. MaxAttempts
      BY <3>1, <3>2
    <3> QED
      BY <3>2, <3>3 DEF ImportsAreCounted
  <2> QED
    BY <2>1, <2>2, <2>3, <2>4
<1>2. Inv /\ [SavedWorkNext]_savedWorkVars => Inv'
  <2> SUFFICES ASSUME Inv, [SavedWorkNext]_savedWorkVars
               PROVE  Inv'
    OBVIOUS
  <2>1. /\ [EditNext \/ UploadNext]_pluginEditingVars
        /\ [PresetNext]_presetVars
        /\ [ImportingNext]_importVars
    BY DEF SavedWorkNext, savedWorkVars
  <2>2. EditsInv' /\ UploadsInv' /\ PresetsInv' /\ ImportInv'
    BY <2>1, EditsStep, UploadsStep, PresetsStep, ImportStep
  <2>3. ShownIsKnown' /\ TextsAreCounted' /\ ImportsAreCounted'
    BY <2>1, <2>2, ShownStaysKnown, TextsStayCounted, ImportsStayCounted
  <2> QED
    BY <2>2, <2>3
<1>3. Inv => SavedWorkTypeOK
  BY ToolsAreTyped
<1> QED
  BY <1>1, <1>2, <1>3, PTL DEF SavedWorkSpec

-----------------------------------------------------------------------------
(* Bounded reads of a journal                                              *)

JournalLine == [size : Nat, events : Nat, bytes : Nat]

Readings == [at : {"none", "scan", "push", "more"}, tail : BOOLEAN, since : Nat, known : 0 .. Len(lines),
             scanned : 0 .. Len(lines), idx : Nat, win : Seq(Nat), bytes : Nat]

\* The numbers and the bytes kept with the lines are sums over the lines.
LinesAreCounted ==
    /\ \A i \in 1 .. Len(lines) :
          /\ lines[i].events = EventsAt(i - 1) + (IF IsEvent(i) THEN 1 ELSE 0)
          /\ lines[i].bytes = BytesAt(i - 1) + lines[i].size
    /\ \A i, j \in 0 .. Len(lines) :
          i <= j => /\ EventsAt(i) <= EventsAt(j) /\ BytesAt(i) <= BytesAt(j)
                    /\ EventsAt(i) = EventsAt(j) => BytesAt(i) = BytesAt(j)

\* How many of the events read are past the cursor of the read.
Past == IF reading.idx < reading.since THEN 0 ELSE reading.idx - reading.since

\* Where a read is.
ReadIsOn ==
    /\ reading.at = "scan" => reading.idx = EventsAt(reading.scanned)
    /\ reading.at = "push" =>
          /\ reading.scanned > 0 /\ IsEvent(reading.scanned)
          /\ EventsAt(reading.scanned) = reading.idx + 1
          /\ reading.idx >= reading.since
          /\ ~reading.tail /\ PollLimits.maxEvents > 0 => Len(reading.win) < PollLimits.maxEvents
    /\ reading.at = "more" => reading.idx <= EventsAt(reading.scanned) /\ reading.idx >= reading.since
    /\ reading.at # "none" => reading.since = (IF reading.tail THEN 0 ELSE cursor)
    /\ reading.since <= EventsAt(Len(lines)) /\ cursor <= EventsAt(Len(lines))

\* What a read holds: the last events read, within the limits.
HeldIsTrue ==
    LET limits == Limits(reading.tail)
        kept == Len(reading.win)
    IN  /\ FollowEvents(reading.idx - kept, reading.win)
        /\ kept <= Past
        /\ reading.bytes = SpanOf(reading.win)
        /\ limits.maxEvents > 0 => kept <= limits.maxEvents
        /\ limits.maxBytes > 0 => reading.bytes <= limits.maxBytes \/ kept = 1

\* A poll holds the events that it read, but for those that it dropped.
NothingElseMissed ==
    /\ reading.at # "none" /\ ~reading.tail =>
          /\ \A i \in DOMAIN lines :
                IsEvent(i) /\ reading.since < EventsAt(i) /\ EventsAt(i) <= reading.idx =>
                    i \in {reading.win[k] : k \in DOMAIN reading.win} \cup missed
          /\ missed = {} => Len(reading.win) = Past

ReaderInv ==
    /\ lines \in Seq(JournalLine)
    /\ reading \in Readings
    /\ cursor \in Nat /\ shown \in Seq(Nat)
    /\ window \in [events : Seq(Nat), total : Nat, tail : BOOLEAN, first : Nat, next : Nat, truncated : BOOLEAN]
    /\ LinesAreCounted
    /\ ReadIsOn
    /\ HeldIsTrue
    /\ NothingElseMissed
    /\ WindowIsTrue

\* A new line leaves the numbers of the other lines alone and is counted.
LEMMA NewLineIsCounted ==
    ASSUME NEW n, n = Len(lines), ReaderInv, EmitLine
    PROVE  /\ lines' \in Seq(JournalLine)
           /\ Len(lines') = n + 1
           /\ \A i \in 1 .. n : lines'[i] = lines[i]
           /\ LinesAreCounted'
           /\ EventsAt(n + 1)' \in Nat /\ EventsAt(n) <= EventsAt(n + 1)'
           /\ IsEvent(n + 1)' => EventsAt(n) < EventsAt(n + 1)'
<1>1. PICK size \in Sizes \cup {0} :
          lines' = Append(lines, [size |-> size,
                                  events |-> EventsAt(Len(lines)) + (IF size = 0 THEN 0 ELSE 1),
                                  bytes |-> BytesAt(Len(lines)) + size])
  BY DEF EmitLine
<1> DEFINE line == [size |-> size, events |-> EventsAt(n) + (IF size = 0 THEN 0 ELSE 1), bytes |-> BytesAt(n) + size]
<1>2. lines \in Seq(JournalLine) /\ n \in Nat
  BY DEF ReaderInv
<1>3. \A i \in 1 .. n : lines[i] \in JournalLine
  BY <1>2
<1>4. size \in Nat
  BY JournalAssumption
<1>5. \A i \in 0 .. n : EventsAt(i) \in Nat /\ BytesAt(i) \in Nat
  BY <1>2, <1>3 DEF EventsAt, BytesAt, JournalLine
<1>6. line \in JournalLine
  <2>1. EventsAt(n) \in Nat /\ BytesAt(n) \in Nat
    BY <1>2, <1>5
  <2> QED
    BY <1>4, <2>1 DEF JournalLine
<1>7. lines' = Append(lines, line)
  BY <1>1
<1> HIDE DEF line
<1>8. /\ lines' \in Seq(JournalLine)
      /\ Len(lines') = n + 1
      /\ \A i \in 1 .. n : lines'[i] = lines[i]
      /\ lines'[n + 1] = line
  BY <1>2, <1>6, <1>7
<1>9. /\ line.events = EventsAt(n) + (IF size = 0 THEN 0 ELSE 1)
      /\ line.bytes = BytesAt(n) + size /\ line.size = size
  BY DEF line
<1>10. \A i \in 0 .. n : EventsAt(i)' = EventsAt(i) /\ BytesAt(i)' = BytesAt(i)
  BY <1>2, <1>8 DEF EventsAt, BytesAt
<1>11. /\ EventsAt(n + 1)' = EventsAt(n) + (IF size = 0 THEN 0 ELSE 1)
       /\ BytesAt(n + 1)' = BytesAt(n) + size
       /\ IsEvent(n + 1)' <=> size # 0
  BY <1>2, <1>8, <1>9 DEF EventsAt, BytesAt, IsEvent
<1>12. LinesAreCounted
  BY DEF ReaderInv
<1>13. ASSUME NEW i \in 1 .. Len(lines')
       PROVE  /\ lines'[i].events = EventsAt(i - 1)' + (IF IsEvent(i)' THEN 1 ELSE 0)
              /\ lines'[i].bytes = BytesAt(i - 1)' + lines'[i].size
  <2>1. CASE i \in 1 .. n
    <3>1. i - 1 \in 0 .. n /\ lines'[i] = lines[i] /\ (IsEvent(i)' <=> IsEvent(i))
      BY <1>2, <1>8, <2>1 DEF IsEvent
    <3> QED
      BY <1>10, <1>12, <2>1, <3>1 DEF LinesAreCounted
  <2>2. CASE i = n + 1
    <3>1. i - 1 = n /\ n \in 0 .. n
      BY <1>2, <2>2
    <3> QED
      BY <1>8, <1>9, <1>10, <1>11, <2>2, <3>1
  <2> QED
    BY <1>2, <1>8, <2>1, <2>2
<1>14. ASSUME NEW i \in 0 .. Len(lines'), NEW j \in 0 .. Len(lines'), i <= j
       PROVE  /\ EventsAt(i)' <= EventsAt(j)' /\ BytesAt(i)' <= BytesAt(j)'
              /\ EventsAt(i)' = EventsAt(j)' => BytesAt(i)' = BytesAt(j)'
  <2>1. CASE j \in 0 .. n
    BY <1>2, <1>10, <1>12, <1>14, <2>1 DEF LinesAreCounted
  <2>2. CASE j = n + 1 /\ i = n + 1
    <3>1. EventsAt(i)' = EventsAt(n + 1)' /\ EventsAt(j)' = EventsAt(n + 1)' /\ BytesAt(i)' = BytesAt(j)' /\ BytesAt(j)' = BytesAt(n + 1)'
      BY <2>2 DEF EventsAt, BytesAt
    <3>2. EventsAt(n + 1)' \in Nat /\ BytesAt(n + 1)' \in Nat
      <4>1. EventsAt(n) \in Nat /\ BytesAt(n) \in Nat
        BY <1>2, <1>5
      <4> QED
        BY <1>4, <1>11, <4>1
    <3> QED
      BY <3>1, <3>2
  <2>3. CASE j = n + 1 /\ i \in 0 .. n
    <3>1. /\ EventsAt(i) <= EventsAt(n) /\ BytesAt(i) <= BytesAt(n) /\ BytesAt(i) \in Nat /\ (EventsAt(i) = EventsAt(n) => BytesAt(i) = BytesAt(n))
          /\ EventsAt(i)' = EventsAt(i) /\ BytesAt(i)' = BytesAt(i)
          /\ EventsAt(i) \in Nat /\ EventsAt(n) \in Nat /\ BytesAt(n) \in Nat
      BY <1>2, <1>5, <1>10, <1>12, <2>3 DEF LinesAreCounted
    <3>2. EventsAt(j)' = EventsAt(n) + (IF size = 0 THEN 0 ELSE 1) /\ BytesAt(j)' = BytesAt(n) + size
      BY <1>11, <2>3
    <3> QED
      BY <1>4, <3>1, <3>2
  <2> QED
    BY <1>2, <1>8, <2>1, <2>2, <2>3
<1>15. LinesAreCounted'
  BY <1>13, <1>14 DEF LinesAreCounted
<1>16. /\ EventsAt(n + 1)' \in Nat /\ EventsAt(n) <= EventsAt(n + 1)'
       /\ IsEvent(n + 1)' => EventsAt(n) < EventsAt(n + 1)'
  <2>1. n \in 0 .. n
    BY <1>2
  <2>2. EventsAt(n) \in Nat
    BY <1>5, <2>1
  <2> QED
    BY <2>2, <1>11
<1> QED
  BY <1>8, <1>15, <1>16

\* What a number of a line and the bytes between two lines are does not change
\* when the journal grows.
LEMMA GrowthKeepsEvents ==
    ASSUME NEW n \in Nat, n = Len(lines), lines \in Seq(JournalLine),
           lines' \in Seq(JournalLine), Len(lines') = n + 1, \A i \in 1 .. n : lines'[i] = lines[i],
           NEW m, NEW numbers \in Seq(Nat), FollowEvents(m, numbers)
    PROVE  FollowEvents(m, numbers)' /\ SpanOf(numbers)' = SpanOf(numbers)
<1>1. DOMAIN lines = 1 .. n /\ DOMAIN lines' = 1 .. n + 1
  OBVIOUS
<1>2. ASSUME NEW i \in 1 .. n
      PROVE  /\ i \in DOMAIN lines' /\ lines'[i] = lines[i]
             /\ IsEvent(i)' = IsEvent(i) /\ EventsAt(i)' = EventsAt(i) /\ BytesAt(i)' = BytesAt(i)
  BY <1>1 DEF IsEvent, EventsAt, BytesAt
<1>3. FollowEvents(m, numbers)'
  BY <1>1, <1>2 DEF FollowEvents
<1>4. CASE numbers = <<>>
  BY <1>3, <1>4 DEF SpanOf
<1>5. CASE numbers # <<>>
  <2>1. 1 \in DOMAIN numbers /\ Len(numbers) \in DOMAIN numbers
    BY <1>5
  <2>2. numbers[1] \in 1 .. n /\ numbers[Len(numbers)] \in 1 .. n
    BY <1>1, <2>1 DEF FollowEvents
  <2>3. /\ lines'[numbers[1]] = lines[numbers[1]]
        /\ BytesAt(numbers[1])' = BytesAt(numbers[1])
        /\ BytesAt(numbers[Len(numbers)])' = BytesAt(numbers[Len(numbers)])
    BY <1>2, <2>2
  <2> QED
    BY <1>3, <1>5, <2>3 DEF SpanOf
<1> QED
  BY <1>4, <1>5

\* The facts about one line of a counted journal.
LEMMA CountsOfALine ==
    ASSUME ReaderInv
    PROVE  /\ Len(lines) \in Nat /\ DOMAIN lines = 1 .. Len(lines)
           /\ \A i \in 1 .. Len(lines) : lines[i].size \in Nat
           /\ \A i \in 0 .. Len(lines) : EventsAt(i) \in Nat /\ BytesAt(i) \in Nat
           /\ \A i \in 1 .. Len(lines) :
                /\ EventsAt(i) = EventsAt(i - 1) + (IF IsEvent(i) THEN 1 ELSE 0)
                /\ BytesAt(i) = BytesAt(i - 1) + lines[i].size
           /\ \A i, j \in 0 .. Len(lines) :
                i <= j => /\ EventsAt(i) <= EventsAt(j) /\ BytesAt(i) <= BytesAt(j)
                          /\ EventsAt(i) = EventsAt(j) => BytesAt(i) = BytesAt(j)
<1>1. lines \in Seq(JournalLine) /\ LinesAreCounted
  BY DEF ReaderInv
<1>2. Len(lines) \in Nat /\ DOMAIN lines = 1 .. Len(lines) /\ \A i \in 1 .. Len(lines) : lines[i] \in JournalLine
  BY <1>1
<1>3. \A i \in 1 .. Len(lines) : lines[i].size \in Nat /\ lines[i].events \in Nat /\ lines[i].bytes \in Nat
  BY <1>2 DEF JournalLine
<1>4. \A i \in 0 .. Len(lines) : EventsAt(i) \in Nat /\ BytesAt(i) \in Nat
  BY <1>2, <1>3 DEF EventsAt, BytesAt
<1>5. \A i \in 1 .. Len(lines) : EventsAt(i) = lines[i].events /\ BytesAt(i) = lines[i].bytes
  BY <1>2 DEF EventsAt, BytesAt
<1> QED
  BY <1>1, <1>2, <1>3, <1>4, <1>5 DEF LinesAreCounted

\* The process of the run writes a line.
LEMMA EmitKeepsReads ==
    ASSUME ReaderInv, EmitLine
    PROVE  ReaderInv'
<1>1. PICK n \in Nat : n = Len(lines)
  BY DEF ReaderInv
<1>2. /\ lines' \in Seq(JournalLine)
      /\ Len(lines') = n + 1
      /\ \A i \in 1 .. n : lines'[i] = lines[i]
      /\ LinesAreCounted'
      /\ EventsAt(n + 1)' \in Nat /\ EventsAt(n) <= EventsAt(n + 1)'
      /\ IsEvent(n + 1)' => EventsAt(n) < EventsAt(n + 1)'
  BY <1>1, NewLineIsCounted
<1>3. UNCHANGED <<reading, cursor, shown, missed, window>>
  BY DEF EmitLine
<1>4. /\ DOMAIN lines = 1 .. n /\ DOMAIN lines' = 1 .. n + 1
      /\ \A i \in 0 .. n : EventsAt(i) \in Nat /\ BytesAt(i) \in Nat
      /\ \A i \in 0 .. n : EventsAt(i)' = EventsAt(i)
      /\ \A i \in 1 .. n : IsEvent(i)' = IsEvent(i)
      /\ \A i \in 0 .. n : EventsAt(i) <= EventsAt(n)
  BY <1>1, <1>2, CountsOfALine DEF EventsAt, IsEvent
<1>5. PICK at, tail, since, known, scanned, idx, win, bytes :
          reading = [at |-> at, tail |-> tail, since |-> since, known |-> known, scanned |-> scanned,
                     idx |-> idx, win |-> win, bytes |-> bytes]
  BY DEF ReaderInv, Readings
<1>6. PICK cur, seen : cur = cursor /\ seen = shown
  OBVIOUS
<1>7. PICK events, total, wtail, first, next, truncated :
          window = [events |-> events, total |-> total, tail |-> wtail, first |-> first,
                    next |-> next, truncated |-> truncated]
  BY DEF ReaderInv
<1>8. /\ win \in Seq(Nat) /\ seen \in Seq(Nat) /\ events \in Seq(Nat)
      /\ scanned \in 0 .. n /\ known \in 0 .. n /\ idx \in Nat /\ since \in Nat /\ cur \in Nat /\ total \in Nat
  BY <1>1, <1>5, <1>6, <1>7 DEF ReaderInv, Readings
<1>9. /\ reading' \in Readings'
      /\ cursor' \in Nat /\ shown' \in Seq(Nat)
      /\ window' \in [events : Seq(Nat), total : Nat, tail : BOOLEAN, first : Nat, next : Nat, truncated : BOOLEAN]
  BY <1>1, <1>2, <1>3 DEF ReaderInv, Readings
<1>10. ReadIsOn'
  <2>1. /\ at = "scan" => idx = EventsAt(scanned)
        /\ at = "push" => scanned > 0 /\ IsEvent(scanned) /\ EventsAt(scanned) = idx + 1
        /\ at = "more" => idx <= EventsAt(scanned)
        /\ since <= EventsAt(n) /\ cur <= EventsAt(n)
    BY <1>1, <1>5, <1>6 DEF ReaderInv, ReadIsOn, EventsAt, IsEvent
  <2>2. /\ EventsAt(scanned)' = EventsAt(scanned)
        /\ scanned > 0 => IsEvent(scanned)' = IsEvent(scanned)
        /\ EventsAt(n) \in Nat /\ EventsAt(n) <= EventsAt(n + 1)' /\ EventsAt(n + 1)' \in Nat
    BY <1>2, <1>4, <1>8
  <2>3. since <= EventsAt(n + 1)' /\ cur <= EventsAt(n + 1)'
    BY <1>8, <2>1, <2>2
  <2>4. /\ EventsAt(Len(lines))' = EventsAt(n + 1)' /\ EventsAt(reading.scanned)' = EventsAt(scanned)'
        /\ IsEvent(reading.scanned)' = IsEvent(scanned)'
    BY <1>2, <1>3, <1>5 DEF EventsAt, IsEvent
  <2> QED
    BY <1>3, <1>5, <1>6, <2>1, <2>2, <2>3, <2>4 DEF ReaderInv, ReadIsOn
<1>11. HeldIsTrue'
  <2>1. FollowEvents(idx - Len(win), win) /\ bytes = SpanOf(win)
    BY <1>5 DEF ReaderInv, HeldIsTrue, FollowEvents, SpanOf, EventsAt, BytesAt, IsEvent
  <2>2. FollowEvents(idx - Len(win), win)' /\ SpanOf(win)' = bytes
    BY <1>1, <1>2, <1>8, <2>1, GrowthKeepsEvents DEF ReaderInv
  <2>3. FollowEvents(reading.idx - Len(reading.win), reading.win)' /\ (reading.bytes = SpanOf(reading.win))'
    BY <1>3, <1>5, <2>2 DEF FollowEvents, SpanOf, EventsAt, BytesAt, IsEvent
  <2> QED
    BY <1>3, <2>3 DEF ReaderInv, HeldIsTrue, Past, Limits
<1>12. NothingElseMissed'
  <2>1. ASSUME at # "none", ~tail, NEW i \in 1 .. n + 1, IsEvent(i)', since < EventsAt(i)', EventsAt(i)' <= idx
        PROVE  i \in 1 .. n /\ IsEvent(i) /\ EventsAt(i)' = EventsAt(i)
    <3>1. idx <= EventsAt(n)
      <4>1. EventsAt(scanned) <= EventsAt(n) /\ EventsAt(scanned) \in Nat /\ EventsAt(n) \in Nat
        BY <1>4, <1>8
      <4>2. idx <= EventsAt(scanned)
        <5>1. reading.at = at /\ reading.idx = idx /\ reading.scanned = scanned
              /\ at \in {"none", "scan", "push", "more"} /\ ReadIsOn
          BY <1>5 DEF ReaderInv, Readings
        <5>2. EventsAt(reading.scanned) = EventsAt(scanned)
          BY <5>1 DEF EventsAt
        <5> QED
          BY <1>8, <2>1, <4>1, <5>1, <5>2 DEF ReadIsOn
      <4> QED
        BY <1>8, <4>1, <4>2
    <3>2. i # n + 1
      <4> SUFFICES ASSUME i = n + 1 PROVE FALSE
        OBVIOUS
      <4>1. EventsAt(n) < EventsAt(n + 1)' /\ EventsAt(n + 1)' <= idx /\ EventsAt(n) \in Nat
        BY <1>2, <1>4, <2>1
      <4>2. EventsAt(n + 1)' \in Nat
        BY <1>2
      <4> QED
        BY <1>8, <3>1, <4>1, <4>2
    <3> QED
      BY <1>4, <2>1, <3>2
  <2>2. /\ NothingElseMissed /\ reading' = reading /\ missed' = missed
        /\ reading.at = at /\ reading.tail = tail /\ reading.since = since /\ reading.idx = idx
    BY <1>3, <1>5 DEF ReaderInv
  <2> QED
    BY <1>4, <2>1, <2>2 DEF NothingElseMissed, Past
<1>13. WindowIsTrue'
  <2>1. WindowIsTrue /\ window' = window /\ shown' = shown /\ missed' = missed /\ cursor' = cursor
    BY <1>3 DEF ReaderInv
  <2>2. FollowEvents(total - Len(events), events)
    BY <1>7, <2>1 DEF WindowIsTrue, FollowEvents, EventsAt, IsEvent
  <2>3. FollowEvents(total - Len(events), events)' /\ SpanOf(events)' = SpanOf(events)
    BY <1>1, <1>2, <1>8, <2>2, GrowthKeepsEvents DEF ReaderInv
  <2>4. FollowEvents(window.total - Len(window.events), window.events)' /\ SpanOf(window.events)' = SpanOf(window.events)
    BY <1>7, <2>1, <2>3 DEF FollowEvents, SpanOf, EventsAt, BytesAt, IsEvent
  <2>5. missed = {} => FollowEvents(0, shown)'
    <3> SUFFICES ASSUME missed = {} PROVE FollowEvents(0, shown)'
      OBVIOUS
    <3>1. FollowEvents(0, seen)
      BY <1>6, <2>1 DEF WindowIsTrue, FollowEvents, EventsAt, IsEvent
    <3>2. FollowEvents(0, seen)'
      BY <1>1, <1>2, <1>8, <3>1, GrowthKeepsEvents DEF ReaderInv
    <3> QED
      BY <1>6, <2>1, <3>2 DEF FollowEvents, EventsAt, IsEvent
  <2>6. EventsAt(n) \in Nat /\ EventsAt(n + 1)' \in Nat /\ EventsAt(Len(lines)) = EventsAt(n)
        /\ EventsAt(Len(lines))' = EventsAt(n + 1)' /\ EventsAt(n) <= EventsAt(n + 1)'
    <3>1. EventsAt(Len(lines)) = EventsAt(n) /\ EventsAt(Len(lines))' = EventsAt(n + 1)'
      BY <1>1, <1>2 DEF EventsAt
    <3> QED
      BY <1>1, <1>2, <1>4, <3>1
  <2>7. window.truncated /\ ~window.tail => window.total < EventsAt(Len(lines))'
    BY <1>7, <1>8, <2>1, <2>6 DEF WindowIsTrue
  <2>8. ASSUME NEW i \in 1 .. n + 1, IsEvent(i)', EventsAt(i)' <= cursor
        PROVE  i \in {shown[k] : k \in DOMAIN shown} \cup missed
    <3>1. cursor <= EventsAt(n) /\ cursor \in Nat
      BY <2>6 DEF ReaderInv, ReadIsOn
    <3>2. i # n + 1
      <4> SUFFICES ASSUME i = n + 1 PROVE FALSE
        OBVIOUS
      <4>1. EventsAt(n) < EventsAt(n + 1)' /\ EventsAt(n + 1)' <= cursor
        BY <1>2, <2>8
      <4> QED
        BY <2>6, <3>1, <4>1
    <3>3. i \in DOMAIN lines /\ IsEvent(i) /\ EventsAt(i) <= cursor
      BY <1>4, <2>8, <3>2
    <3>4. \A j \in DOMAIN lines :
             IsEvent(j) /\ EventsAt(j) <= cursor => j \in {shown[k] : k \in DOMAIN shown} \cup missed
      BY <2>1 DEF WindowIsTrue
    <3> QED
      BY <3>3, <3>4
  <2> QED
    BY <1>4, <2>1, <2>4, <2>5, <2>7, <2>8 DEF WindowIsTrue, Limits
<1> QED
  BY <1>2, <1>9, <1>10, <1>11, <1>12, <1>13 DEF ReaderInv

\* A step of a read that changes neither the journal nor what was answered.
LEMMA ReadingStep ==
    ASSUME ReaderInv, ReadOnly,
           reading' \in Readings,
           ReadIsOn', HeldIsTrue', NothingElseMissed'
    PROVE  ReaderInv'
<1>1. UNCHANGED <<lines, cursor, shown, missed, window>>
  BY DEF ReadOnly
<1>2. LinesAreCounted'
  BY <1>1 DEF ReaderInv, LinesAreCounted, EventsAt, BytesAt, IsEvent
<1>3. WindowIsTrue'
  BY <1>1 DEF ReaderInv, WindowIsTrue, FollowEvents, SpanOf, EventsAt, BytesAt, IsEvent, Limits
<1> QED
  BY <1>1, <1>2, <1>3 DEF ReaderInv, Readings

\* What is held stays true when neither the window nor the count changes.
LEMMA SameWindow ==
    ASSUME ReaderInv, lines' = lines, missed' = missed, cursor' = cursor,
           reading'.win = reading.win, reading'.bytes = reading.bytes, reading'.idx = reading.idx,
           reading'.since = reading.since, reading'.tail = reading.tail,
           reading.at # "none"
    PROVE  HeldIsTrue' /\ NothingElseMissed'
<1>1. HeldIsTrue'
  BY DEF ReaderInv, HeldIsTrue, FollowEvents, SpanOf, EventsAt, BytesAt, IsEvent, Limits, Past
<1>2. NothingElseMissed'
  BY DEF ReaderInv, NothingElseMissed, EventsAt, IsEvent, Past
<1> QED
  BY <1>1, <1>2

\* A line that is blank, or an event before the cursor of the read.
LEMMA SkipKeepsReads ==
    ASSUME ReaderInv, NEW i \in 1 .. Len(lines), SkipLine(i)
    PROVE  ReaderInv'
<1> DEFINE idx == IF IsEvent(i) THEN reading.idx + 1 ELSE reading.idx
<1>1. /\ reading.at = "scan" /\ i = reading.scanned + 1 /\ ~Wanted(i) /\ ReadOnly
      /\ reading' = [reading EXCEPT !.scanned = i, !.idx = idx]
  BY DEF SkipLine, Scans
<1>2. reading \in Readings /\ i \in 0 .. Len(lines)
  BY CountsOfALine DEF ReaderInv
<1>3. idx \in Nat
  BY <1>2 DEF Readings
<1> HIDE DEF idx
<1>4. /\ reading' \in Readings
      /\ reading'.at = "scan" /\ reading'.tail = reading.tail /\ reading'.since = reading.since
      /\ reading'.scanned = i /\ reading'.idx = idx /\ reading'.win = reading.win /\ reading'.bytes = reading.bytes
  BY <1>1, <1>2, <1>3 DEF Readings
<1>5. UNCHANGED <<lines, cursor, shown, missed, window>>
  BY <1>1 DEF ReadOnly
<1>6. reading.idx = EventsAt(i - 1) /\ reading.idx \in Nat /\ reading.since \in Nat
  <2>1. i - 1 = reading.scanned
    BY <1>1, <1>2, CountsOfALine DEF Readings
  <2> QED
    BY <1>1, <1>2, <2>1 DEF ReaderInv, ReadIsOn, Readings
<1>7. idx = EventsAt(i)
  BY <1>6, CountsOfALine DEF idx
<1>8. ReadIsOn'
  BY <1>1, <1>4, <1>5, <1>7 DEF ReaderInv, ReadIsOn, EventsAt
<1>9. CASE IsEvent(i)
  <2>1. idx = reading.idx + 1 /\ reading.idx < reading.since
    BY <1>1, <1>6, <1>9 DEF Wanted, idx
  <2>2. Past = 0 /\ Past' = 0 /\ reading.win = <<>> /\ Len(reading.win) = 0
    <3>1. Past = 0 /\ Past' = 0
      BY <1>4, <1>6, <2>1 DEF Past
    <3>2. Len(reading.win) <= 0 /\ reading.win \in Seq(Nat)
      BY <1>2, <3>1 DEF ReaderInv, HeldIsTrue, Readings
    <3> QED
      BY <3>1, <3>2
  <2>3. HeldIsTrue'
    <3>1. reading.bytes = 0
      BY <2>2 DEF ReaderInv, HeldIsTrue, SpanOf
    <3> QED
      BY <1>4, <2>2, <3>1, JournalAssumption DEF HeldIsTrue, FollowEvents, SpanOf, Limits
  <2>4. NothingElseMissed'
    <3>1. \A j \in DOMAIN lines : EventsAt(j) \in Nat
      BY CountsOfALine
    <3>2. \A j \in DOMAIN lines : ~(reading.since < EventsAt(j) /\ EventsAt(j) <= idx)
      BY <1>6, <2>1, <3>1
    <3>3. \A j \in DOMAIN lines : EventsAt(j)' = EventsAt(j)
      BY <1>5 DEF EventsAt
    <3> QED
      BY <1>4, <1>5, <2>2, <3>2, <3>3 DEF NothingElseMissed
  <2> QED
    BY <1>1, <1>4, <1>8, <2>3, <2>4, ReadingStep
<1>10. CASE ~IsEvent(i)
  <2>1. idx = reading.idx
    BY <1>10 DEF idx
  <2>2. HeldIsTrue' /\ NothingElseMissed'
    BY <1>1, <1>4, <1>5, <2>1, SameWindow
  <2> QED
    BY <1>1, <1>4, <1>8, <2>2, ReadingStep
<1> QED
  BY <1>9, <1>10

\* A line that is wanted is either where the read breaks off or is pushed.
LEMMA TakeKeepsReads ==
    ASSUME ReaderInv, NEW i \in 1 .. Len(lines), BreakOff(i) \/ TakeLine(i)
    PROVE  ReaderInv'
<1>1. PICK at \in {"more", "push"} :
          /\ reading' = [reading EXCEPT !.scanned = i, !.at = at]
          /\ at = "push" => reading.tail \/ ~IsFull
  BY DEF BreakOff, TakeLine
<1>2. reading.at = "scan" /\ i = reading.scanned + 1 /\ Wanted(i) /\ ReadOnly
  BY DEF BreakOff, TakeLine, Scans
<1>3. reading \in Readings /\ i \in 0 .. Len(lines)
  BY CountsOfALine DEF ReaderInv
<1>4. /\ reading' \in Readings
      /\ reading'.at = at /\ reading'.tail = reading.tail /\ reading'.since = reading.since
      /\ reading'.scanned = i /\ reading'.idx = reading.idx
      /\ reading'.win = reading.win /\ reading'.bytes = reading.bytes
  BY <1>1, <1>3 DEF Readings
<1>5. UNCHANGED <<lines, cursor, shown, missed, window>>
  BY <1>2 DEF ReadOnly
<1>6. IsEvent(i) /\ reading.idx >= reading.since /\ EventsAt(i) = reading.idx + 1
  <2>1. i - 1 = reading.scanned
    BY <1>2, <1>3, CountsOfALine DEF Readings
  <2>2. reading.idx = EventsAt(i - 1)
    BY <1>2, <2>1 DEF ReaderInv, ReadIsOn
  <2> QED
    BY <1>2, <2>2, CountsOfALine DEF Wanted
<1>7. at = "push" /\ ~reading.tail /\ PollLimits.maxEvents > 0 => Len(reading.win) < PollLimits.maxEvents
  BY <1>1, <1>3, JournalAssumption DEF IsFull, Limits, Readings
<1>8. ReadIsOn'
  <2>1. EventsAt(i)' = EventsAt(i) /\ IsEvent(i)' = IsEvent(i) /\ EventsAt(Len(lines))' = EventsAt(Len(lines))
    BY <1>5 DEF EventsAt, IsEvent
  <2>2. EventsAt(reading.scanned)' = EventsAt(i) /\ IsEvent(reading.scanned)' = IsEvent(i)
    BY <1>4, <1>5 DEF EventsAt, IsEvent
  <2> QED
    <3>1. EventsAt(i) \in Nat /\ reading.idx \in Nat /\ i > 0
      BY <1>3, CountsOfALine DEF Readings
    <3>2. /\ reading.since = (IF reading.tail THEN 0 ELSE cursor)
          /\ reading.since <= EventsAt(Len(lines)) /\ cursor <= EventsAt(Len(lines))
      BY <1>2 DEF ReaderInv, ReadIsOn
    <3>3. reading.idx <= EventsAt(i)
      BY <1>6, <3>1
    <3> QED
      BY <1>1, <1>4, <1>5, <1>6, <1>7, <2>1, <2>2, <3>1, <3>2, <3>3 DEF ReadIsOn
<1>9. HeldIsTrue' /\ NothingElseMissed'
  BY <1>2, <1>4, <1>5, SameWindow
<1> QED
  BY <1>2, <1>4, <1>8, <1>9, ReadingStep

\* The scanner has no more lines.
LEMMA EndOfFileKeepsReads ==
    ASSUME ReaderInv, EndOfFile
    PROVE  ReaderInv'
<1>1. /\ reading.at = "scan" /\ reading.scanned = Len(lines) /\ ReadOnly
      /\ reading' = [reading EXCEPT !.at = "more"]
  BY DEF EndOfFile
<1>2. reading \in Readings
  BY DEF ReaderInv
<1>3. /\ reading' \in Readings
      /\ reading'.at = "more" /\ reading'.tail = reading.tail /\ reading'.since = reading.since
      /\ reading'.scanned = reading.scanned /\ reading'.idx = reading.idx
      /\ reading'.win = reading.win /\ reading'.bytes = reading.bytes
  BY <1>1, <1>2 DEF Readings
<1>4. UNCHANGED <<lines, cursor, shown, missed, window>>
  BY <1>1 DEF ReadOnly
<1>5. reading.idx = EventsAt(Len(lines)) /\ reading.since <= reading.idx
  BY <1>1 DEF ReaderInv, ReadIsOn
<1>6. ReadIsOn'
  <2>1. EventsAt(Len(lines))' = EventsAt(Len(lines)) /\ EventsAt(reading.scanned)' = EventsAt(Len(lines))
    BY <1>1, <1>3, <1>4 DEF EventsAt
  <2>2. EventsAt(Len(lines)) \in Nat
    BY <1>2, <1>5 DEF Readings
  <2> QED
    BY <1>1, <1>2, <1>3, <1>4, <1>5, <2>1, <2>2 DEF ReaderInv, ReadIsOn
<1>7. HeldIsTrue' /\ NothingElseMissed'
  BY <1>1, <1>3, <1>4, SameWindow
<1> QED
  BY <1>1, <1>3, <1>6, <1>7, ReadingStep

\* Where more events end there are at least as many bytes.
LEMMA MoreEventsMoreBytes ==
    ASSUME ReaderInv, NEW i \in 1 .. Len(lines), NEW j \in 1 .. Len(lines), EventsAt(i) < EventsAt(j)
    PROVE  BytesAt(i) <= BytesAt(j)
<1>1. i \in 0 .. Len(lines) /\ j \in 0 .. Len(lines) /\ EventsAt(i) \in Nat /\ EventsAt(j) \in Nat /\ i <= j
  BY CountsOfALine
<1> QED
  BY <1>1 DEF ReaderInv, LinesAreCounted

\* No two lines are the same event.
LEMMA OneLinePerEvent ==
    ASSUME ReaderInv, NEW i \in 1 .. Len(lines), NEW j \in 1 .. Len(lines),
           IsEvent(i), IsEvent(j), EventsAt(i) = EventsAt(j)
    PROVE  i = j
<1>1. ASSUME NEW a \in 1 .. Len(lines), NEW b \in 1 .. Len(lines), IsEvent(b), a < b
      PROVE  EventsAt(a) < EventsAt(b)
  <2>1. a \in 0 .. Len(lines) /\ b - 1 \in 0 .. Len(lines) /\ a <= b - 1
    BY <1>1, CountsOfALine
  <2>2. /\ EventsAt(a) <= EventsAt(b - 1) /\ EventsAt(b) = EventsAt(b - 1) + 1
        /\ EventsAt(a) \in Nat /\ EventsAt(b - 1) \in Nat
    BY <1>1, <2>1, CountsOfALine
  <2> QED
    BY <2>2
<1>2. Len(lines) \in Nat /\ EventsAt(i) \in Nat
  BY CountsOfALine
<1> QED
  BY <1>1, <1>2

\* What is left of a window without its oldest event.
LEMMA WithoutOldest ==
    ASSUME NEW win \in Seq(Nat), win # <<>>
    PROVE  /\ Len(win) \in Nat /\ Len(win) > 0 /\ DOMAIN win = 1 .. Len(win) /\ Head(win) = win[1]
           /\ Tail(win) \in Seq(Nat) /\ Len(Tail(win)) = Len(win) - 1
           /\ DOMAIN Tail(win) = 1 .. Len(win) - 1
           /\ \A k \in 1 .. Len(win) - 1 : Tail(win)[k] = win[k + 1]
  OBVIOUS

\* The bytes up to an event are those up to the one before, and its own.
LEMMA NextEventBytes ==
    ASSUME ReaderInv, NEW i \in 1 .. Len(lines), NEW j \in 1 .. Len(lines),
           IsEvent(j), EventsAt(j) = EventsAt(i) + 1
    PROVE  BytesAt(j) = BytesAt(i) + lines[j].size
<1>1. /\ Len(lines) \in Nat /\ i \in 0 .. Len(lines) /\ j \in 0 .. Len(lines) /\ j - 1 \in 0 .. Len(lines)
      /\ EventsAt(i) \in Nat /\ EventsAt(j) \in Nat /\ EventsAt(j - 1) \in Nat
  BY CountsOfALine
<1>2. EventsAt(j) = EventsAt(j - 1) + 1 /\ BytesAt(j) = BytesAt(j - 1) + lines[j].size
  BY CountsOfALine
<1>3. EventsAt(j - 1) = EventsAt(i)
  BY <1>1, <1>2
<1>4. BytesAt(j - 1) = BytesAt(i)
  <2>1. i <= j - 1 \/ j - 1 <= i
    BY <1>1
  <2> QED
    BY <1>1, <1>3, <2>1, CountsOfALine
<1> QED
  BY <1>2, <1>4

\* The events that a window holds.
LEMMA HeldEvents ==
    ASSUME ReaderInv, NEW m \in Int, NEW win \in Seq(Nat), FollowEvents(m, win), NEW k \in 1 .. Len(win)
    PROVE  /\ win[k] \in 1 .. Len(lines) /\ IsEvent(win[k]) /\ EventsAt(win[k]) = m + k
           /\ BytesAt(win[k]) \in Nat /\ lines[win[k]].size \in Nat
<1>1. k \in DOMAIN win
  OBVIOUS
<1>2. win[k] \in 1 .. Len(lines) /\ IsEvent(win[k]) /\ EventsAt(win[k]) = m + k
  BY <1>1, CountsOfALine DEF FollowEvents
<1> QED
  BY <1>2, CountsOfALine

\* dropOldest keeps the bytes of a window right.
LEMMA OldestIsDropped ==
    ASSUME ReaderInv, NEW m \in Int, NEW win \in Seq(Nat), win # <<>>, FollowEvents(m, win)
    PROVE  /\ FollowEvents(m + 1, Tail(win))
           /\ SpanOf(Tail(win)) = SpanOf(win) - lines[Head(win)].size
           /\ SpanOf(Tail(win)) \in Nat
<1>1. PICK n \in Nat : n = Len(win) /\ n > 0
  BY WithoutOldest
<1>2. PICK rest \in Seq(Nat) : rest = Tail(win)
  BY WithoutOldest
<1>3. /\ DOMAIN win = 1 .. n /\ Head(win) = win[1] /\ Len(rest) = n - 1 /\ DOMAIN rest = 1 .. n - 1
      /\ \A k \in 1 .. n - 1 : rest[k] = win[k + 1]
  BY <1>1, <1>2, WithoutOldest
<1>4. \A k \in 1 .. n : /\ win[k] \in 1 .. Len(lines) /\ IsEvent(win[k]) /\ EventsAt(win[k]) = m + k
                        /\ BytesAt(win[k]) \in Nat /\ lines[win[k]].size \in Nat
  BY <1>1, HeldEvents
<1>5. FollowEvents(m + 1, rest)
  <2> SUFFICES ASSUME NEW k \in 1 .. n - 1
               PROVE  rest[k] \in DOMAIN lines /\ IsEvent(rest[k]) /\ EventsAt(rest[k]) = m + 1 + k
    BY <1>3 DEF FollowEvents
  <2>1. k + 1 \in 1 .. n /\ rest[k] = win[k + 1] /\ m + (k + 1) = m + 1 + k
    BY <1>1, <1>3
  <2> QED
    BY <1>4, <2>1, CountsOfALine
<1>6. SpanOf(win) = BytesAt(win[n]) - BytesAt(win[1]) + lines[win[1]].size
  BY <1>1 DEF SpanOf
<1>7. 1 \in 1 .. n /\ n \in 1 .. n
  BY <1>1
<1>8. SpanOf(rest) = SpanOf(win) - lines[win[1]].size /\ SpanOf(rest) \in Nat
  <2>1. CASE n = 1
    <3>1. Len(rest) = 0
      BY <1>3, <2>1
    <3>2. SpanOf(rest) = 0
      BY <3>1 DEF SpanOf
    <3>3. BytesAt(win[1]) \in Nat /\ lines[win[1]].size \in Nat
      BY <1>4, <1>7
    <3>4. SpanOf(win) = BytesAt(win[1]) - BytesAt(win[1]) + lines[win[1]].size
      BY <1>6, <2>1
    <3> QED
      BY <3>2, <3>3, <3>4
  <2>2. CASE n > 1
    <3>1. 2 \in 1 .. n /\ 1 \in 1 .. n - 1 /\ n - 1 \in 1 .. n - 1 /\ n - 1 + 1 = n /\ 1 + 1 = 2
      BY <1>1, <2>2
    <3>2. rest[n - 1] = win[n] /\ rest[1] = win[2] /\ rest # <<>>
      BY <1>3, <3>1
    <3>3. SpanOf(rest) = BytesAt(win[n]) - BytesAt(win[2]) + lines[win[2]].size
      BY <1>3, <3>2 DEF SpanOf
    <3>4. /\ BytesAt(win[1]) \in Nat /\ BytesAt(win[2]) \in Nat /\ BytesAt(win[n]) \in Nat
          /\ lines[win[1]].size \in Nat /\ lines[win[2]].size \in Nat
          /\ win[1] \in 1 .. Len(lines) /\ win[2] \in 1 .. Len(lines) /\ win[n] \in 1 .. Len(lines)
          /\ IsEvent(win[2])
          /\ EventsAt(win[1]) = m + 1 /\ EventsAt(win[2]) = m + 2 /\ EventsAt(win[n]) = m + n
      BY <1>4, <1>7, <3>1
    <3>5. EventsAt(win[2]) = EventsAt(win[1]) + 1 /\ EventsAt(win[1]) < EventsAt(win[n])
      BY <1>1, <2>2, <3>4
    <3>6. BytesAt(win[2]) = BytesAt(win[1]) + lines[win[2]].size
      BY <3>4, <3>5, NextEventBytes
    <3>7. BytesAt(win[1]) <= BytesAt(win[n])
      BY <3>4, <3>5, MoreEventsMoreBytes
    <3>8. PICK a \in Nat, b \in Nat, c \in Nat, s \in Nat, t \in Nat :
              a = BytesAt(win[1]) /\ b = BytesAt(win[2]) /\ c = BytesAt(win[n])
              /\ s = lines[win[1]].size /\ t = lines[win[2]].size
      BY <3>4
    <3>9. SpanOf(win) = c - a + s /\ SpanOf(rest) = c - b + t /\ b = a + t /\ a <= c
      BY <1>6, <3>3, <3>6, <3>7, <3>8
    <3>10. b = a + t /\ a <= c => c - b + t = (c - a + s) - s /\ c - b + t \in Nat
      OBVIOUS
    <3> QED
      BY <3>8, <3>9, <3>10, Zenon
  <2> QED
    BY <1>1, <2>1, <2>2
<1> QED
  BY <1>2, <1>3, <1>5, <1>8

\* The window makes room from its old end.
LEMMA DropKeepsReads ==
    ASSUME ReaderInv, DropOldest
    PROVE  ReaderInv'
<1>1. /\ reading.at = "push" /\ ~HasRoom(lines[reading.scanned].size)
      /\ reading' = [reading EXCEPT !.win = Tail(reading.win), !.bytes = reading.bytes - lines[Head(reading.win)].size]
      /\ missed' = IF reading.tail THEN missed ELSE missed \cup {Head(reading.win)}
      /\ UNCHANGED <<lines, cursor, shown, window>>
  BY DEF DropOldest
<1>2. reading \in Readings /\ reading.win \in Seq(Nat) /\ reading.bytes \in Nat /\ reading.idx \in Nat /\ reading.since \in Nat
  BY DEF ReaderInv, Readings
<1>3. Limits(reading.tail) \in [maxBytes : Nat, maxEvents : Nat]
  BY JournalAssumption DEF Limits
<1>4. reading.win # <<>>
  <2> SUFFICES ASSUME reading.win = <<>> PROVE FALSE
    OBVIOUS
  <2>1. Len(reading.win) = 0
    OBVIOUS
  <2> QED
    BY <1>1, <1>3, <2>1 DEF HasRoom
<1>5. PICK win \in Seq(Nat), idx \in Nat : win = reading.win /\ win # <<>> /\ idx = reading.idx
  BY <1>2, <1>4
<1>6. /\ Len(win) \in Nat /\ Len(win) > 0 /\ DOMAIN win = 1 .. Len(win) /\ Head(win) = win[1]
      /\ Tail(win) \in Seq(Nat) /\ Len(Tail(win)) = Len(win) - 1
      /\ DOMAIN Tail(win) = 1 .. Len(win) - 1
      /\ \A k \in 1 .. Len(win) - 1 : Tail(win)[k] = win[k + 1]
  BY <1>5, WithoutOldest
<1>7. /\ FollowEvents(idx - Len(win), win) /\ reading.bytes = SpanOf(win)
      /\ Len(win) <= Past /\ Past \in Nat
  <2>1. HeldIsTrue /\ Past \in Nat
    BY <1>2 DEF ReaderInv, Past
  <2> QED
    BY <1>5, <2>1 DEF HeldIsTrue, FollowEvents, SpanOf
<1> DEFINE left == reading.bytes - lines[Head(win)].size
<1>8. FollowEvents(idx - Len(win) + 1, Tail(win)) /\ left = SpanOf(Tail(win)) /\ left \in Nat
  <2>1. idx - Len(win) \in Int
    BY <1>5, <1>6
  <2> QED
    BY <1>5, <1>7, <2>1, OldestIsDropped
<1>9. /\ reading' = [reading EXCEPT !.win = Tail(win), !.bytes = left]
      /\ UNCHANGED lines
  BY <1>1, <1>5
<1>10. lines[Head(win)].size \in Nat
  <2>1. 1 \in 1 .. Len(win) /\ idx - Len(win) \in Int
    BY <1>5, <1>6
  <2> QED
    BY <1>5, <1>6, <1>7, <2>1, HeldEvents
<1>11. left <= reading.bytes
  BY <1>2, <1>10
<1> HIDE DEF left
<1>12. /\ reading' \in Readings
       /\ reading'.at = "push" /\ reading'.tail = reading.tail /\ reading'.since = reading.since
       /\ reading'.scanned = reading.scanned /\ reading'.idx = idx
       /\ reading'.win = Tail(win) /\ reading'.bytes = left
  BY <1>1, <1>2, <1>5, <1>6, <1>8, <1>9 DEF Readings
<1>13. ReadIsOn'
  <2>1. EventsAt(reading.scanned)' = EventsAt(reading.scanned) /\ IsEvent(reading.scanned)' = IsEvent(reading.scanned)
        /\ EventsAt(Len(lines))' = EventsAt(Len(lines))
    BY <1>1, <1>12 DEF EventsAt, IsEvent
  <2>2. ~reading.tail /\ PollLimits.maxEvents > 0 => Len(win) < PollLimits.maxEvents
    BY <1>1, <1>5 DEF ReaderInv, ReadIsOn
  <2>3. ~reading.tail /\ PollLimits.maxEvents > 0 => Len(Tail(win)) < PollLimits.maxEvents
    <3>1. PollLimits.maxEvents \in Nat
      BY JournalAssumption
    <3> QED
      BY <1>6, <2>2, <3>1
  <2>4. /\ reading.scanned > 0 /\ IsEvent(reading.scanned)
        /\ EventsAt(reading.scanned) = reading.idx + 1
        /\ reading.idx >= reading.since
        /\ reading.since = (IF reading.tail THEN 0 ELSE cursor)
        /\ reading.since <= EventsAt(Len(lines)) /\ cursor <= EventsAt(Len(lines))
    BY <1>1 DEF ReaderInv, ReadIsOn
  <2> QED
    BY <1>1, <1>5, <1>12, <2>1, <2>3, <2>4 DEF ReadIsOn
<1>14. HeldIsTrue'
  <2>1. Past' = Past
    BY <1>5, <1>12 DEF Past
  <2>2. idx - Len(Tail(win)) = idx - Len(win) + 1
    BY <1>5, <1>6
  <2>3. FollowEvents(idx - Len(Tail(win)), Tail(win))' /\ SpanOf(Tail(win))' = left
    BY <1>8, <1>9, <2>2 DEF FollowEvents, SpanOf, EventsAt, BytesAt, IsEvent
  <2>4. FollowEvents(reading.idx - Len(reading.win), reading.win)' /\ (reading.bytes = SpanOf(reading.win))'
    BY <1>12, <2>3 DEF FollowEvents, SpanOf
  <2>5. LET limits == Limits(reading.tail) IN
        /\ limits.maxEvents > 0 => Len(win) <= limits.maxEvents
        /\ limits.maxBytes > 0 => reading.bytes <= limits.maxBytes \/ Len(win) = 1
    BY <1>5 DEF ReaderInv, HeldIsTrue
  <2>6. Len(win) = 1 => left = 0
    BY <1>6, <1>8 DEF SpanOf
  <2>7. LET limits == Limits(reading.tail) IN
        /\ limits.maxEvents > 0 => Len(Tail(win)) <= limits.maxEvents
        /\ limits.maxBytes > 0 => left <= limits.maxBytes \/ Len(Tail(win)) = 1
    BY <1>2, <1>3, <1>6, <1>8, <1>11, <2>5, <2>6
  <2>8. Limits(reading.tail)' = Limits(reading.tail)
    BY <1>12 DEF Limits
  <2>9. Len(Tail(win)) <= Past'
    BY <1>6, <1>7, <2>1
  <2> QED
    BY <1>12, <2>4, <2>7, <2>8, <2>9 DEF HeldIsTrue
<1>15. NothingElseMissed'
  <2>1. CASE reading.tail
    BY <1>12, <2>1 DEF NothingElseMissed
  <2>2. CASE ~reading.tail
    <3>1. missed' = missed \cup {win[1]}
      BY <1>1, <1>5, <1>6, <2>2
    <3>2. ASSUME NEW k \in DOMAIN win
          PROVE  win[k] = win[1] \/ win[k] \in {Tail(win)[j] : j \in DOMAIN Tail(win)}
      <4>1. CASE k = 1
        BY <4>1
      <4>2. CASE k # 1
        <5>1. k - 1 \in 1 .. Len(win) - 1 /\ k - 1 + 1 = k
          BY <1>6, <4>2
        <5>2. Tail(win)[k - 1] = win[k] /\ k - 1 \in DOMAIN Tail(win)
          BY <1>6, <5>1
        <5> QED
          BY <5>2
      <4> QED
        BY <4>1, <4>2
    <3>3. ASSUME NEW i \in DOMAIN lines, IsEvent(i), reading.since < EventsAt(i), EventsAt(i) <= reading.idx
          PROVE  i \in {Tail(win)[k] : k \in DOMAIN Tail(win)} \cup missed'
      <4>1. i \in {win[k] : k \in DOMAIN win} \cup missed
        BY <1>1, <1>5, <2>2, <3>3 DEF ReaderInv, NothingElseMissed
      <4> QED
        BY <3>1, <3>2, <4>1
    <3>4. DOMAIN lines' = DOMAIN lines /\ \A i \in DOMAIN lines : EventsAt(i)' = EventsAt(i) /\ IsEvent(i)' = IsEvent(i)
      BY <1>1 DEF EventsAt, IsEvent
    <3>5. missed' # {} /\ reading'.since = reading.since /\ reading'.idx = reading.idx /\ reading'.win = Tail(win)
      BY <1>5, <1>12, <3>1
    <3> QED
      BY <3>3, <3>4, <3>5 DEF NothingElseMissed
  <2> QED
    BY <2>1, <2>2
<1>16. LinesAreCounted'
  BY <1>1 DEF ReaderInv, LinesAreCounted, EventsAt, BytesAt, IsEvent
<1>17. WindowIsTrue'
  <2>1. /\ WindowIsTrue
        /\ window' = window /\ lines' = lines /\ shown' = shown /\ cursor' = cursor
    BY <1>1 DEF ReaderInv
  <2>2. missed' # {} => PollLimits.maxBytes > 0
    <3>1. CASE reading.tail
      BY <1>1, <2>1, <3>1 DEF WindowIsTrue
    <3>2. CASE ~reading.tail
      <4>1. PollLimits.maxEvents > 0 => Len(reading.win) < PollLimits.maxEvents
        BY <1>1, <3>2 DEF ReaderInv, ReadIsOn
      <4> QED
        BY <1>1, <3>2, <4>1 DEF HasRoom, Limits
    <3> QED
      BY <3>1, <3>2
  <2>3. missed \subseteq missed'
    BY <1>1
  <2> QED
    BY <2>1, <2>2, <2>3 DEF WindowIsTrue, FollowEvents, SpanOf, EventsAt, BytesAt, IsEvent, Limits
<1> QED
  BY <1>1, <1>12, <1>13, <1>14, <1>15, <1>16, <1>17 DEF ReaderInv, Readings

\* A window with one more event.
LEMMA WithNewest ==
    ASSUME NEW win \in Seq(Nat), NEW i \in Nat
    PROVE  /\ Append(win, i) \in Seq(Nat) /\ Len(win) \in Nat /\ DOMAIN win = 1 .. Len(win)
           /\ Len(Append(win, i)) = Len(win) + 1 /\ DOMAIN Append(win, i) = 1 .. Len(win) + 1
           /\ Append(win, i)[Len(win) + 1] = i
           /\ \A k \in 1 .. Len(win) : Append(win, i)[k] = win[k]
  OBVIOUS

\* push keeps the bytes of a window right when the next event comes.
LEMMA NextIsPushed ==
    ASSUME ReaderInv, NEW idx \in Nat, NEW win \in Seq(Nat), FollowEvents(idx - Len(win), win),
           NEW i \in 1 .. Len(lines), IsEvent(i), EventsAt(i) = idx + 1
    PROVE  /\ FollowEvents(idx - Len(win), Append(win, i))
           /\ SpanOf(Append(win, i)) = SpanOf(win) + lines[i].size
<1>1. PICK n \in Nat : n = Len(win) /\ DOMAIN win = 1 .. n
  OBVIOUS
<1>0. i \in Nat
  BY CountsOfALine
<1>2. PICK more : more = Append(win, i) /\ more \in Seq(Nat)
  BY <1>0, WithNewest
<1>3. /\ Len(more) = n + 1 /\ DOMAIN more = 1 .. n + 1 /\ more[n + 1] = i
      /\ \A k \in 1 .. n : more[k] = win[k]
  BY <1>0, <1>1, <1>2, WithNewest
<1>4. PICK m : m = idx - n /\ m \in Int
  OBVIOUS
<1>5. \A k \in 1 .. n : /\ win[k] \in 1 .. Len(lines) /\ IsEvent(win[k]) /\ EventsAt(win[k]) = m + k
                        /\ BytesAt(win[k]) \in Nat /\ lines[win[k]].size \in Nat
  <2>1. FollowEvents(m, win)
    BY <1>1, <1>4
  <2> QED
    BY <1>1, <1>4, <2>1, HeldEvents
<1>6. FollowEvents(m, more)
  <2> SUFFICES ASSUME NEW k \in 1 .. n + 1
               PROVE  more[k] \in 1 .. Len(lines) /\ IsEvent(more[k]) /\ EventsAt(more[k]) = m + k
    BY <1>3, CountsOfALine DEF FollowEvents
  <2>1. CASE k \in 1 .. n
    BY <1>3, <1>5, <2>1
  <2>2. CASE k = n + 1
    <3>1. more[k] = i /\ m + k = idx + 1
      BY <1>1, <1>3, <1>4, <2>2
    <3> QED
      BY <3>1
  <2>3. k \in 1 .. n \/ k = n + 1
    BY <1>1
  <2> QED
    BY <2>1, <2>2, <2>3
<1>7. BytesAt(i) \in Nat /\ lines[i].size \in Nat
  BY CountsOfALine
<1>8. SpanOf(more) = SpanOf(win) + lines[i].size
  <2>0. more # <<>>
    BY <1>1, <1>3
  <2>1. CASE n = 0
    <3>1. win = <<>> /\ more[1] = i /\ Len(more) = 1
      BY <1>1, <1>3, <2>1
    <3>2. SpanOf(win) = 0 /\ SpanOf(more) = BytesAt(i) - BytesAt(i) + lines[i].size
      BY <2>0, <3>1 DEF SpanOf
    <3> QED
      BY <1>7, <3>2
  <2>2. CASE n > 0
    <3>1. 1 \in 1 .. n /\ n \in 1 .. n /\ win # <<>>
      BY <1>1, <2>2
    <3>2. SpanOf(win) = BytesAt(win[n]) - BytesAt(win[1]) + lines[win[1]].size
      BY <1>1, <3>1 DEF SpanOf
    <3>3. more[1] = win[1] /\ more[Len(more)] = i
      BY <1>3, <3>1
    <3>4. SpanOf(more) = BytesAt(i) - BytesAt(win[1]) + lines[win[1]].size
      BY <2>0, <3>3 DEF SpanOf
    <3>5. win[n] \in 1 .. Len(lines) /\ EventsAt(i) = EventsAt(win[n]) + 1
      <4>1. EventsAt(win[n]) = m + n /\ m + n = idx
        BY <1>4, <1>5, <3>1
      <4> QED
        BY <1>5, <3>1, <4>1
    <3>6. BytesAt(i) = BytesAt(win[n]) + lines[i].size
      BY <3>5, NextEventBytes
    <3>7. PICK a \in Nat, b \in Nat, s \in Nat, t \in Nat :
              a = BytesAt(win[1]) /\ b = BytesAt(win[n]) /\ s = lines[win[1]].size /\ t = lines[i].size
      BY <1>5, <1>7, <3>1
    <3>8. SpanOf(win) = b - a + s /\ SpanOf(more) = b + t - a + s
      BY <3>2, <3>4, <3>6, <3>7
    <3>9. b + t - a + s = (b - a + s) + t
      OBVIOUS
    <3> QED
      BY <3>7, <3>8, <3>9, Zenon
  <2> QED
    BY <1>1, <2>1, <2>2
<1> QED
  BY <1>1, <1>2, <1>4, <1>6, <1>8

\* The window takes the line that was scanned.
LEMMA PushKeepsReads ==
    ASSUME ReaderInv, PushLine
    PROVE  ReaderInv'
<1>1. /\ reading.at = "push" /\ HasRoom(lines[reading.scanned].size) /\ ReadOnly
      /\ reading' = [reading EXCEPT !.at = "scan", !.idx = reading.idx + 1, !.win = Append(reading.win, reading.scanned),
                                    !.bytes = reading.bytes + lines[reading.scanned].size]
  BY DEF PushLine
<1>2. reading \in Readings /\ reading.win \in Seq(Nat) /\ reading.bytes \in Nat /\ reading.idx \in Nat /\ reading.since \in Nat
  BY DEF ReaderInv, Readings
<1>3. UNCHANGED <<lines, cursor, shown, missed, window>>
  BY <1>1 DEF ReadOnly
<1>4. PICK i \in 1 .. Len(lines) : i = reading.scanned /\ IsEvent(i) /\ EventsAt(i) = reading.idx + 1
                                   /\ reading.idx >= reading.since
  BY <1>1, <1>2, CountsOfALine DEF ReaderInv, ReadIsOn, Readings
<1>5. PICK win \in Seq(Nat), idx \in Nat, bytes \in Nat, size \in Nat :
          win = reading.win /\ idx = reading.idx /\ bytes = reading.bytes /\ size = lines[i].size
  BY <1>2, CountsOfALine
<1>6. /\ FollowEvents(idx - Len(win), win) /\ bytes = SpanOf(win)
      /\ Len(win) <= Past /\ Past = idx - reading.since /\ Len(win) \in Nat
  <2>1. HeldIsTrue /\ Past = idx - reading.since
    BY <1>2, <1>4, <1>5 DEF ReaderInv, Past
  <2> QED
    BY <1>5, <2>1 DEF HeldIsTrue, FollowEvents, SpanOf
<1>7. FollowEvents(idx - Len(win), Append(win, i)) /\ SpanOf(Append(win, i)) = bytes + size
  BY <1>4, <1>5, <1>6, NextIsPushed
<1>15. PICK more : more = Append(win, i)
  OBVIOUS
<1>8. /\ more = Append(win, i) /\ more \in Seq(Nat) /\ Len(more) = Len(win) + 1
      /\ DOMAIN win = 1 .. Len(win) /\ DOMAIN more = 1 .. Len(win) + 1
      /\ more[Len(win) + 1] = i /\ \A k \in 1 .. Len(win) : more[k] = win[k]
  <2>1. i \in Nat
    BY CountsOfALine
  <2> QED
    BY <1>15, <2>1, WithNewest
<1>9. /\ reading' = [reading EXCEPT !.at = "scan", !.idx = idx + 1, !.win = more, !.bytes = bytes + size]
      /\ bytes + size \in Nat /\ idx + 1 \in Nat
  BY <1>1, <1>4, <1>5, <1>8
<1>10. /\ reading' \in Readings
       /\ reading'.at = "scan" /\ reading'.tail = reading.tail /\ reading'.since = reading.since
       /\ reading'.scanned = i /\ reading'.idx = idx + 1
       /\ reading'.win = more /\ reading'.bytes = bytes + size
  BY <1>2, <1>4, <1>8, <1>9 DEF Readings
<1>11. ReadIsOn'
  <2>1. EventsAt(reading.scanned)' = EventsAt(i) /\ EventsAt(Len(lines))' = EventsAt(Len(lines))
    BY <1>3, <1>10 DEF EventsAt
  <2>2. /\ reading.since = (IF reading.tail THEN 0 ELSE cursor)
        /\ reading.since <= EventsAt(Len(lines)) /\ cursor <= EventsAt(Len(lines))
    BY <1>1 DEF ReaderInv, ReadIsOn
  <2> QED
    BY <1>3, <1>4, <1>5, <1>10, <2>1, <2>2 DEF ReadIsOn
<1>12. Past' = idx + 1 - reading.since
  <2>1. reading.since \in Nat /\ idx >= reading.since /\ ~(idx + 1 < reading.since)
    BY <1>2, <1>4, <1>5
  <2>2. Past' = IF reading'.idx < reading'.since THEN 0 ELSE reading'.idx - reading'.since
    BY DEF Past
  <2>3. reading'.idx = idx + 1 /\ reading'.since = reading.since
    BY <1>10
  <2> QED
    BY <2>1, <2>2, <2>3
<1>13. HeldIsTrue'
  <2>1. idx + 1 - Len(more) = idx - Len(win)
    BY <1>6, <1>8
  <2>2. FollowEvents(idx + 1 - Len(more), more)' /\ SpanOf(more)' = bytes + size
    BY <1>3, <1>7, <1>8, <2>1 DEF FollowEvents, SpanOf, EventsAt, BytesAt, IsEvent
  <2>3. FollowEvents(reading.idx - Len(reading.win), reading.win)' /\ (reading.bytes = SpanOf(reading.win))'
    BY <1>10, <2>2 DEF FollowEvents, SpanOf
  <2>4. Limits(reading.tail) \in [maxBytes : Nat, maxEvents : Nat] /\ Limits(reading.tail)' = Limits(reading.tail)
    BY <1>10, JournalAssumption DEF Limits
  <2>5. LET limits == Limits(reading.tail) IN
        /\ limits.maxEvents > 0 => Len(win) < limits.maxEvents
        /\ limits.maxBytes > 0 /\ win # <<>> => bytes + size <= limits.maxBytes
    BY <1>1, <1>4, <1>5 DEF HasRoom
  <2>6. win = <<>> => Len(more) = 1
    BY <1>8
  <2>7. LET limits == Limits(reading.tail) IN
        /\ limits.maxEvents > 0 => Len(more) <= limits.maxEvents
        /\ limits.maxBytes > 0 => bytes + size <= limits.maxBytes \/ Len(more) = 1
    BY <1>6, <1>8, <2>4, <2>5, <2>6
  <2>8. Len(more) <= Past'
    BY <1>2, <1>6, <1>8, <1>12
  <2> QED
    BY <1>10, <2>3, <2>4, <2>7, <2>8 DEF HeldIsTrue
<1>14. NothingElseMissed'
  <2> SUFFICES ASSUME ~reading.tail
               PROVE  /\ \A j \in DOMAIN lines :
                             IsEvent(j) /\ reading.since < EventsAt(j) /\ EventsAt(j) <= idx + 1 =>
                                 j \in {more[k] : k \in DOMAIN more} \cup missed
                      /\ missed = {} => Len(more) = idx + 1 - reading.since
    <3>1. DOMAIN lines' = DOMAIN lines /\ \A j \in DOMAIN lines : EventsAt(j)' = EventsAt(j) /\ IsEvent(j)' = IsEvent(j)
      BY <1>3 DEF EventsAt, IsEvent
    <3> QED
      BY <1>3, <1>10, <1>12, <3>1 DEF NothingElseMissed
  <2>1. /\ \A j \in DOMAIN lines :
              IsEvent(j) /\ reading.since < EventsAt(j) /\ EventsAt(j) <= idx =>
                  j \in {win[k] : k \in DOMAIN win} \cup missed
        /\ missed = {} => Len(win) = idx - reading.since
    BY <1>1, <1>5, <1>6 DEF ReaderInv, NothingElseMissed
  <2>2. missed = {} => Len(more) = idx + 1 - reading.since
    <3>1. Len(win) \in Nat /\ Len(more) = Len(win) + 1 /\ reading.since \in Nat
      BY <1>2, <1>6, <1>8, Zenon
    <3>2. missed = {} => Len(win) = idx - reading.since
      BY <2>1, Zenon
    <3>3. ASSUME NEW n \in Nat, NEW since \in Nat, n = idx - since
          PROVE  n + 1 = idx + 1 - since
      BY <3>3
    <3> QED
      BY <3>1, <3>2, <3>3, Zenon
  <2>3. ASSUME NEW j \in DOMAIN lines, IsEvent(j), reading.since < EventsAt(j), EventsAt(j) <= idx + 1
        PROVE  j \in {more[k] : k \in DOMAIN more} \cup missed
    <3>1. EventsAt(j) \in Nat /\ j \in 1 .. Len(lines)
      BY CountsOfALine
    <3>2. CASE EventsAt(j) <= idx
      <4>1. j \in {win[k] : k \in DOMAIN win} \cup missed
        BY <2>1, <2>3, <3>2
      <4>2. {win[k] : k \in DOMAIN win} \subseteq {more[k] : k \in DOMAIN more}
        <5>1. \A k \in 1 .. Len(win) : k \in 1 .. Len(win) + 1 /\ more[k] = win[k]
          BY <1>6, <1>8
        <5> QED
          BY <1>8, <5>1
      <4> QED
        BY <4>1, <4>2
    <3>3. CASE EventsAt(j) = idx + 1
      <4>1. j = i
        BY <1>4, <1>5, <2>3, <3>1, <3>3, OneLinePerEvent
      <4>2. Len(win) + 1 \in DOMAIN more
        BY <1>6, <1>8
      <4> QED
        BY <1>8, <4>1, <4>2
    <3> QED
      BY <2>3, <3>1, <3>2, <3>3
  <2> QED
    BY <2>2, <2>3
<1> QED
  BY <1>1, <1>10, <1>11, <1>13, <1>14, ReadingStep

\* What a read holds when it begins, and when there is none.
LEMMA EmptyReadIsTrue ==
    ASSUME reading'.win = <<>>, reading'.bytes = 0, reading'.idx = 0, reading'.since \in Nat
    PROVE  HeldIsTrue' /\ Past' = 0
<1>1. Past' = 0
  BY DEF Past
<1>2. Len(reading'.win) = 0 /\ DOMAIN reading'.win = {} /\ SpanOf(reading.win)' = 0
  BY DEF SpanOf
<1>3. Limits(reading.tail)' \in [maxBytes : Nat, maxEvents : Nat]
  BY JournalAssumption DEF Limits
<1> QED
  BY <1>1, <1>2, <1>3 DEF HeldIsTrue, FollowEvents

\* A read begins.
LEMMA OpenKeepsReads ==
    ASSUME ReaderInv, PollJournal \/ ReadTail
    PROVE  ReaderInv'
<1>1. PICK tail, since :
          tail \in BOOLEAN /\ OpenJournal(tail, since) /\ since = (IF tail THEN 0 ELSE cursor)
  BY DEF PollJournal, ReadTail
<1>2. cursor \in Nat /\ Len(lines) \in Nat
  BY CountsOfALine DEF ReaderInv
<1>3. since \in Nat
  BY <1>1, <1>2
<1>4. /\ reading' = [at |-> "scan", tail |-> tail, since |-> since, known |-> Len(lines), scanned |-> 0,
                     idx |-> 0, win |-> <<>>, bytes |-> 0]
      /\ window' = NoWindow
      /\ UNCHANGED <<lines, cursor, shown, missed>>
  BY <1>1 DEF OpenJournal, NoRead
<1>5. reading' \in Readings
  BY <1>1, <1>2, <1>3, <1>4 DEF Readings
<1>6. /\ reading'.at = "scan" /\ reading'.tail = tail /\ reading'.since = since /\ reading'.scanned = 0
      /\ reading'.idx = 0 /\ reading'.win = <<>> /\ reading'.bytes = 0
  BY <1>4
<1>7. HeldIsTrue' /\ Past' = 0
  BY <1>3, <1>6, EmptyReadIsTrue
<1>8. ReadIsOn'
  <2>1. EventsAt(Len(lines)) \in Nat /\ cursor <= EventsAt(Len(lines))
    BY <1>2, CountsOfALine DEF ReaderInv, ReadIsOn
  <2>2. EventsAt(reading.scanned)' = 0 /\ EventsAt(Len(lines))' = EventsAt(Len(lines))
    BY <1>4, <1>6 DEF EventsAt
  <2>3. since <= EventsAt(Len(lines))
    BY <1>1, <1>2, <2>1
  <2> QED
    BY <1>1, <1>4, <1>6, <2>1, <2>2, <2>3 DEF ReadIsOn
<1>9. NothingElseMissed'
  <2>1. \A i \in DOMAIN lines : EventsAt(i)' \in Nat
    BY <1>4, CountsOfALine DEF EventsAt
  <2>2. \A i \in DOMAIN lines : ~(since < EventsAt(i)' /\ EventsAt(i)' <= 0)
    BY <1>3, <2>1
  <2>3. Len(reading'.win) = 0
    BY <1>6
  <2> QED
    BY <1>4, <1>6, <1>7, <2>2, <2>3 DEF NothingElseMissed
<1>10. LinesAreCounted'
  BY <1>4 DEF ReaderInv, LinesAreCounted, EventsAt, BytesAt, IsEvent
<1>11. WindowIsTrue'
  <2>1. WindowIsTrue /\ lines' = lines /\ shown' = shown /\ missed' = missed /\ cursor' = cursor
    BY <1>4 DEF ReaderInv
  <2>2. /\ window'.events = <<>> /\ window'.total = 0 /\ window'.tail = TRUE /\ window'.first = 0
        /\ window'.next = 0 /\ window'.truncated = FALSE /\ Len(window'.events) = 0 /\ DOMAIN window'.events = {}
    BY <1>4 DEF NoWindow
  <2>3. /\ FollowEvents(window.total - Len(window.events), window.events)' /\ SpanOf(window.events)' = 0
    BY <2>2 DEF FollowEvents, SpanOf
  <2>4. Limits(window.tail)' \in [maxBytes : Nat, maxEvents : Nat]
    BY JournalAssumption DEF Limits
  <2>5. /\ \A i \in DOMAIN lines :
              IsEvent(i)' /\ EventsAt(i)' <= cursor => i \in {shown[k] : k \in DOMAIN shown} \cup missed
        /\ missed = {} => FollowEvents(0, shown)' /\ Len(shown) = cursor
        /\ missed # {} => PollLimits.maxBytes > 0
    BY <2>1 DEF WindowIsTrue, FollowEvents, EventsAt, IsEvent
  <2> QED
    BY <2>1, <2>2, <2>3, <2>4, <2>5 DEF WindowIsTrue
<1>12. window' \in [events : Seq(Nat), total : Nat, tail : BOOLEAN, first : Nat, next : Nat, truncated : BOOLEAN]
  BY <1>4 DEF NoWindow
<1> QED
  BY <1>4, <1>5, <1>7, <1>8, <1>9, <1>10, <1>11, <1>12 DEF ReaderInv, Readings

\* One window after another.
LEMMA Concatenated ==
    ASSUME NEW a \in Seq(Nat), NEW b \in Seq(Nat)
    PROVE  /\ a \o b \in Seq(Nat) /\ Len(a \o b) = Len(a) + Len(b)
           /\ DOMAIN a = 1 .. Len(a) /\ DOMAIN b = 1 .. Len(b) /\ DOMAIN (a \o b) = 1 .. Len(a) + Len(b)
           /\ Len(a) \in Nat /\ Len(b) \in Nat
           /\ \A k \in 1 .. Len(a) : (a \o b)[k] = a[k]
           /\ \A k \in 1 .. Len(b) : (a \o b)[Len(a) + k] = b[k]
  OBVIOUS

\* A window that goes on where the events shown end goes on with them.
LEMMA ShownGoOn ==
    ASSUME NEW a \in Seq(Nat), NEW b \in Seq(Nat), FollowEvents(0, a), FollowEvents(Len(a), b)
    PROVE  FollowEvents(0, a \o b)
<1>1. /\ DOMAIN a = 1 .. Len(a) /\ DOMAIN b = 1 .. Len(b) /\ DOMAIN (a \o b) = 1 .. Len(a) + Len(b)
      /\ Len(a) \in Nat /\ Len(b) \in Nat
      /\ \A k \in 1 .. Len(a) : (a \o b)[k] = a[k]
      /\ \A k \in 1 .. Len(b) : (a \o b)[Len(a) + k] = b[k]
  BY Concatenated
<1>2. PICK c, n : c = a \o b /\ n = Len(a)
  OBVIOUS
<1>3. ASSUME NEW k \in 1 .. n + Len(b)
      PROVE  c[k] \in DOMAIN lines /\ IsEvent(c[k]) /\ EventsAt(c[k]) = 0 + k
  <2>1. CASE k \in 1 .. n
    BY <1>1, <1>2, <2>1 DEF FollowEvents
  <2>2. CASE k \notin 1 .. n
    <3>1. k - n \in 1 .. Len(b) /\ n + (k - n) = k
      BY <1>1, <1>2, <2>2
    <3>2. c[k] = b[k - n]
      BY <1>1, <1>2, <3>1
    <3>3. b[k - n] \in DOMAIN lines /\ IsEvent(b[k - n]) /\ EventsAt(b[k - n]) = n + (k - n)
      BY <1>1, <1>2, <3>1 DEF FollowEvents
    <3> QED
      BY <3>1, <3>2, <3>3
  <2> QED
    BY <2>1, <2>2
<1> QED
  BY <1>1, <1>2, <1>3 DEF FollowEvents

\* A read ends with its result, and the client that polls takes it.
LEMMA AnswerKeepsReads ==
    ASSUME ReaderInv, AnswerRead
    PROVE  ReaderInv'
<1>1. reading \in Readings /\ reading.win \in Seq(Nat) /\ reading.idx \in Nat /\ reading.since \in Nat
      /\ reading.tail \in BOOLEAN /\ reading.scanned \in 0 .. Len(lines)
  BY DEF ReaderInv, Readings
<1>20. PICK win, idx, since, seen, cur, n :
          /\ win = reading.win /\ idx = reading.idx /\ since = reading.since /\ seen = shown /\ cur = cursor
          /\ n = Len(win)
  OBVIOUS
<1>2. /\ win = reading.win /\ idx = reading.idx /\ since = reading.since /\ seen = shown /\ cur = cursor
      /\ n = Len(win)
      /\ win \in Seq(Nat) /\ idx \in Nat /\ since \in Nat /\ seen \in Seq(Nat) /\ cur \in Nat /\ n \in Nat
  BY <1>1, <1>20 DEF ReaderInv
<1>3. /\ reading.at = "more" /\ idx <= EventsAt(reading.scanned) /\ idx >= since
      /\ since = (IF reading.tail THEN 0 ELSE cur)
      /\ cur <= EventsAt(Len(lines))
  BY <1>2 DEF AnswerRead, ReaderInv, ReadIsOn
<1>4. /\ FollowEvents(idx - n, win) /\ n <= idx - since /\ reading.bytes = SpanOf(win)
      /\ LET limits == Limits(reading.tail)
         IN  /\ limits.maxEvents > 0 => n <= limits.maxEvents
             /\ limits.maxBytes > 0 => SpanOf(win) <= limits.maxBytes \/ n = 1
  <2>1. HeldIsTrue /\ Past = idx - since
    BY <1>2, <1>3 DEF ReaderInv, Past
  <2> QED
    BY <1>2, <2>1 DEF HeldIsTrue
<1>5. PICK first, next, truncated :
          /\ first = (IF reading.tail THEN idx - n ELSE since)
          /\ next = (IF reading.tail THEN idx ELSE since + n)
          /\ truncated = (IF reading.tail THEN first > 0 ELSE MoreFollow)
  OBVIOUS
<1>6. /\ first \in Nat /\ next \in Nat /\ first + n = next /\ next <= idx
  <2>0. n \in Nat /\ since \in Nat /\ idx \in Nat /\ n <= idx - since
    BY <1>2, <1>4
  <2>1. CASE reading.tail
    <3>1. first = idx - n /\ next = idx
      BY <1>5, <2>1
    <3> QED
      BY <2>0, <3>1
  <2>2. CASE ~reading.tail
    <3>1. first = since /\ next = since + n
      BY <1>5, <2>2
    <3> QED
      BY <2>0, <3>1
  <2> QED
    BY <2>1, <2>2
<1>21. truncated \in BOOLEAN
  <2>1. MoreFollow \in BOOLEAN
    BY DEF MoreFollow
  <2>2. (first > 0) \in BOOLEAN
    OBVIOUS
  <2> QED
    BY <1>5, <2>1, <2>2, Zenon
<1>7. /\ window' = [events |-> win, total |-> idx, tail |-> reading.tail, first |-> first,
                    next |-> next, truncated |-> truncated]
      /\ cursor' = IF reading.tail THEN cur ELSE next
      /\ shown' = IF reading.tail THEN seen ELSE seen \o win
      /\ reading' = NoRead /\ UNCHANGED <<lines, missed>>
  <2>1. (IF reading.since > reading.idx THEN reading.idx ELSE reading.since) = since
    BY <1>2, <1>3
  <2> QED
    BY <1>2, <1>5, <2>1 DEF AnswerRead
<1>8. window' \in [events : Seq(Nat), total : Nat, tail : BOOLEAN, first : Nat, next : Nat, truncated : BOOLEAN]
  BY <1>1, <1>2, <1>6, <1>7, <1>21
<1>9. cursor' \in Nat /\ shown' \in Seq(Nat)
  BY <1>2, <1>6, <1>7, Concatenated
<1>10. /\ reading'.at = "none" /\ reading'.tail = TRUE /\ reading'.since = 0 /\ reading'.scanned = 0
       /\ reading'.idx = 0 /\ reading'.win = <<>> /\ reading'.bytes = 0 /\ reading'.known = 0
  BY <1>7 DEF NoRead
<1>11. reading' \in Readings'
  <2>1. Len(lines') \in Nat
    BY <1>7, CountsOfALine
  <2> QED
    BY <1>7, <2>1 DEF NoRead, Readings
<1>12. HeldIsTrue' /\ NothingElseMissed'
  BY <1>10, EmptyReadIsTrue DEF NothingElseMissed
<1>13. /\ Len(lines) \in Nat /\ EventsAt(reading.scanned) \in Nat /\ EventsAt(Len(lines)) \in Nat
       /\ EventsAt(reading.scanned) <= EventsAt(Len(lines))
  BY <1>1, CountsOfALine
<1>14. ReadIsOn'
  <2>1. EventsAt(Len(lines))' = EventsAt(Len(lines))
    BY <1>7 DEF EventsAt
  <2>2. cursor' <= EventsAt(Len(lines))
    BY <1>2, <1>3, <1>6, <1>7, <1>13
  <2> QED
    BY <1>10, <1>13, <2>1, <2>2 DEF ReadIsOn
<1>15. LinesAreCounted'
  BY <1>7 DEF ReaderInv, LinesAreCounted, EventsAt, BytesAt, IsEvent
<1>16. truncated /\ ~reading.tail => idx < EventsAt(Len(lines))
  <2> SUFFICES ASSUME truncated, ~reading.tail PROVE idx < EventsAt(Len(lines))
    OBVIOUS
  <2>1. PICK i \in reading.scanned + 1 .. Len(lines) : IsEvent(i)
    BY <1>5 DEF MoreFollow
  <2>2. i \in 1 .. Len(lines) /\ i - 1 \in 0 .. Len(lines) /\ i \in 0 .. Len(lines) /\ reading.scanned <= i - 1
        /\ Len(lines) \in 0 .. Len(lines) /\ i <= Len(lines)
    BY <1>1, <1>13, <2>1
  <2>3. /\ EventsAt(i) = EventsAt(i - 1) + 1 /\ EventsAt(reading.scanned) <= EventsAt(i - 1)
        /\ EventsAt(i) <= EventsAt(Len(lines)) /\ EventsAt(i - 1) \in Nat /\ EventsAt(i) \in Nat
    BY <1>1, <2>1, <2>2, CountsOfALine
  <2> QED
    BY <1>2, <1>3, <1>13, <2>3
<1>17. ASSUME NEW j \in DOMAIN lines, IsEvent(j), EventsAt(j) <= cursor'
       PROVE  j \in {shown'[k] : k \in DOMAIN shown'} \cup missed
  <2>1. EventsAt(j) <= cur => j \in {seen[k] : k \in DOMAIN seen} \cup missed
    BY <1>2, <1>17 DEF ReaderInv, WindowIsTrue
  <2>2. CASE reading.tail
    BY <1>7, <1>17, <2>1, <2>2
  <2>3. CASE ~reading.tail
    <3>1. shown' = seen \o win /\ cursor' = next /\ since = cur
      BY <1>3, <1>7, <2>3
    <3>2. /\ {seen[k] : k \in DOMAIN seen} \subseteq {shown'[k] : k \in DOMAIN shown'}
          /\ {win[k] : k \in DOMAIN win} \subseteq {shown'[k] : k \in DOMAIN shown'}
      <4>1. /\ DOMAIN seen = 1 .. Len(seen) /\ DOMAIN win = 1 .. Len(win) /\ DOMAIN shown' = 1 .. Len(seen) + Len(win)
            /\ Len(seen) \in Nat /\ Len(win) \in Nat
            /\ \A k \in 1 .. Len(seen) : shown'[k] = seen[k]
            /\ \A k \in 1 .. Len(win) : shown'[Len(seen) + k] = win[k]
        BY <1>2, <3>1, Concatenated
      <4>2. /\ \A k \in 1 .. Len(seen) : k \in 1 .. Len(seen) + Len(win)
            /\ \A k \in 1 .. Len(win) : Len(seen) + k \in 1 .. Len(seen) + Len(win)
        BY <4>1
      <4> QED
        BY <4>1, <4>2
    <3>3. EventsAt(j) \in Nat
      BY CountsOfALine
    <3>4. CASE EventsAt(j) <= cur
      BY <2>1, <3>2, <3>4
    <3>5. CASE since < EventsAt(j)
      <4>1. EventsAt(j) <= idx
        BY <1>2, <1>6, <1>17, <3>1, <3>3
      <4>2. j \in {win[k] : k \in DOMAIN win} \cup missed
        BY <1>2, <1>3, <1>17, <2>3, <3>5, <4>1 DEF ReaderInv, NothingElseMissed
      <4> QED
        BY <3>2, <4>2
    <3> QED
      BY <1>2, <3>1, <3>3, <3>4, <3>5
  <2> QED
    BY <2>2, <2>3
<1>18. missed = {} => FollowEvents(0, shown)' /\ Len(shown') = cursor'
  <2> SUFFICES ASSUME missed = {} PROVE FollowEvents(0, shown)' /\ Len(shown') = cursor'
    OBVIOUS
  <2>1. FollowEvents(0, seen) /\ Len(seen) = cur
    BY <1>2 DEF ReaderInv, WindowIsTrue
  <2>2. CASE reading.tail
    BY <1>7, <2>1, <2>2 DEF FollowEvents, EventsAt, IsEvent
  <2>3. CASE ~reading.tail
    <3>1. shown' = seen \o win /\ cursor' = since + n /\ since = cur
      BY <1>3, <1>5, <1>7, <2>3
    <3>2. n = idx - since
      <4>1. Past = idx - since
        BY <1>2, <1>3 DEF Past
      <4> QED
        BY <1>2, <1>3, <2>3, <4>1 DEF ReaderInv, NothingElseMissed
    <3>3. idx - n = Len(seen)
      BY <1>2, <2>1, <3>1, <3>2
    <3>4. FollowEvents(0, seen \o win) /\ Len(seen \o win) = Len(seen) + Len(win)
      BY <1>2, <1>4, <2>1, <3>3, ShownGoOn, Concatenated
    <3> QED
      BY <1>2, <1>7, <2>1, <3>1, <3>4 DEF FollowEvents, EventsAt, IsEvent
  <2> QED
    BY <2>2, <2>3
<1>19. WindowIsTrue'
  <2>1. /\ window'.events = win /\ window'.total = idx /\ window'.tail = reading.tail /\ window'.first = first
        /\ window'.next = next /\ window'.truncated = truncated
    BY <1>7
  <2>2. FollowEvents(window.total - Len(window.events), window.events)' /\ SpanOf(window.events)' = SpanOf(win)
    BY <1>2, <1>4, <1>7, <2>1 DEF FollowEvents, SpanOf, EventsAt, BytesAt, IsEvent
  <2>3. Limits(window.tail)' = Limits(reading.tail) /\ EventsAt(Len(lines))' = EventsAt(Len(lines))
    BY <1>7, <2>1 DEF Limits, EventsAt
  <2>4. \A i \in DOMAIN lines : IsEvent(i)' = IsEvent(i) /\ EventsAt(i)' = EventsAt(i)
    BY <1>7 DEF IsEvent, EventsAt
  <2>5. missed # {} => PollLimits.maxBytes > 0
    BY DEF ReaderInv, WindowIsTrue
  <2>6. /\ window'.next = window'.first + Len(window'.events) /\ window'.next <= window'.total
        /\ window'.tail => window'.next = window'.total /\ (window'.truncated <=> window'.first > 0)
    BY <1>2, <1>5, <1>6, <2>1
  <2> QED
    BY <1>2, <1>4, <1>7, <1>16, <1>17, <1>18, <2>1, <2>2, <2>3, <2>4, <2>5, <2>6 DEF WindowIsTrue
<1> QED
  BY <1>7, <1>8, <1>9, <1>11, <1>12, <1>14, <1>15, <1>19 DEF ReaderInv

\* A read ends with an error.
LEMMA FailKeepsReads ==
    ASSUME ReaderInv, FailRead
    PROVE  ReaderInv'
<1>1. reading' = NoRead /\ ReadOnly /\ UNCHANGED <<lines, cursor, missed>>
  BY DEF FailRead, ReadOnly
<1>2. /\ reading'.at = "none" /\ reading'.tail = TRUE /\ reading'.since = 0 /\ reading'.idx = 0
      /\ reading'.win = <<>> /\ reading'.bytes = 0
  BY <1>1 DEF NoRead
<1>3. Len(lines) \in Nat /\ EventsAt(Len(lines)) \in Nat /\ cursor <= EventsAt(Len(lines))
  BY CountsOfALine DEF ReaderInv, ReadIsOn
<1>4. reading' \in Readings
  BY <1>1, <1>3 DEF NoRead, Readings
<1>5. HeldIsTrue' /\ NothingElseMissed'
  BY <1>2, EmptyReadIsTrue DEF NothingElseMissed
<1>6. ReadIsOn'
  <2>1. EventsAt(Len(lines))' = EventsAt(Len(lines))
    BY <1>1 DEF EventsAt
  <2> QED
    BY <1>1, <1>2, <1>3, <2>1 DEF ReadIsOn
<1> QED
  BY <1>1, <1>4, <1>5, <1>6, ReadingStep

\* Nothing is read yet.
LEMMA ReadsBegin == JournalFilesInit => ReaderInv
<1> SUFFICES ASSUME JournalFilesInit PROVE ReaderInv
  OBVIOUS
<1>1. /\ lines = <<>> /\ cursor = 0 /\ shown = <<>> /\ missed = {}
      /\ reading = [at |-> "none", tail |-> TRUE, since |-> 0, known |-> 0, scanned |-> 0,
                    idx |-> 0, win |-> <<>>, bytes |-> 0]
      /\ window = [events |-> <<>>, total |-> 0, tail |-> TRUE, first |-> 0, next |-> 0, truncated |-> FALSE]
  BY DEF JournalFilesInit, NoRead, NoWindow
<1>2. Len(lines) = 0 /\ DOMAIN lines = {} /\ lines \in Seq(JournalLine)
  BY <1>1
<1>3. reading \in Readings
  BY <1>1, <1>2 DEF Readings
<1>4. LinesAreCounted
  BY <1>2 DEF LinesAreCounted, EventsAt, BytesAt
<1>5. /\ Limits(reading.tail) \in [maxBytes : Nat, maxEvents : Nat]
      /\ Limits(window.tail) \in [maxBytes : Nat, maxEvents : Nat]
  BY JournalAssumption DEF Limits
<1>6. ReadIsOn /\ NothingElseMissed
  BY <1>1, <1>2 DEF ReadIsOn, NothingElseMissed, EventsAt
<1>7. HeldIsTrue
  <2>1. /\ reading.win = <<>> /\ reading.idx = 0 /\ reading.since = 0 /\ reading.bytes = 0 /\ reading.tail = TRUE
        /\ Len(reading.win) = 0 /\ DOMAIN reading.win = {}
    BY <1>1
  <2>2. Past = 0 /\ SpanOf(reading.win) = 0
    BY <2>1 DEF Past, SpanOf
  <2> QED
    BY <1>5, <2>1, <2>2 DEF HeldIsTrue, FollowEvents
<1>8. WindowIsTrue
  <2>1. /\ window.events = <<>> /\ window.total = 0 /\ window.first = 0 /\ window.next = 0 /\ window.tail = TRUE
        /\ window.truncated = FALSE /\ Len(window.events) = 0 /\ DOMAIN window.events = {}
        /\ DOMAIN shown = {} /\ Len(shown) = 0
    BY <1>1
  <2>2. SpanOf(window.events) = 0
    BY <2>1 DEF SpanOf
  <2>3. missed = {} /\ cursor = 0 /\ DOMAIN lines = {} /\ ~window.truncated /\ ~(window.first > 0) /\ window.tail
    BY <1>1, <1>2, <2>1
  <2>4. FollowEvents(window.total - Len(window.events), window.events) /\ FollowEvents(0, shown)
    BY <2>1 DEF FollowEvents
  <2>5. /\ Limits(window.tail).maxEvents > 0 => Len(window.events) <= Limits(window.tail).maxEvents
        /\ Limits(window.tail).maxBytes > 0 => SpanOf(window.events) <= Limits(window.tail).maxBytes
    BY <1>5, <2>1, <2>2
  <2>6. window.next = window.first + Len(window.events) /\ window.next <= window.total /\ window.next = window.total
    BY <2>1
  <2>7. Len(shown) = cursor
    BY <2>1, <2>3
  <2> QED
    BY <2>3, <2>4, <2>5, <2>6, <2>7, Zenon DEF WindowIsTrue
<1> QED
  BY <1>1, <1>2, <1>3, <1>4, <1>6, <1>7, <1>8 DEF ReaderInv

\* What is done with the runs directory leaves journals and reads alone.
LEMMA OthersKeepReads ==
    ASSUME ReaderInv, UNCHANGED readVars
    PROVE  ReaderInv'
<1>1. UNCHANGED <<lines, reading, cursor, shown, missed, window>>
  BY DEF readVars
<1>2. LinesAreCounted'
  BY <1>1 DEF ReaderInv, LinesAreCounted, EventsAt, BytesAt, IsEvent
<1>3. ReadIsOn'
  BY <1>1 DEF ReaderInv, ReadIsOn, EventsAt, IsEvent
<1>4. HeldIsTrue'
  BY <1>1 DEF ReaderInv, HeldIsTrue, FollowEvents, SpanOf, EventsAt, BytesAt, IsEvent, Limits, Past
<1>5. NothingElseMissed'
  BY <1>1 DEF ReaderInv, NothingElseMissed, EventsAt, IsEvent, Past
<1>6. WindowIsTrue'
  BY <1>1 DEF ReaderInv, WindowIsTrue, FollowEvents, SpanOf, EventsAt, BytesAt, IsEvent, Limits
<1> QED
  BY <1>1, <1>2, <1>3, <1>4, <1>5, <1>6 DEF ReaderInv, Readings

\* The invariant of bounded reads.
THEOREM ReadsInvariant == JournalFilesSpec => []ReaderInv
<1>1. ReaderInv /\ [JournalFilesNext]_journalFileVars => ReaderInv'
  <2> SUFFICES ASSUME ReaderInv, [JournalFilesNext]_journalFileVars PROVE ReaderInv'
    OBVIOUS
  <2>1. CASE EmitLine
    BY <2>1, EmitKeepsReads
  <2>2. CASE PollJournal \/ ReadTail
    BY <2>2, OpenKeepsReads
  <2>3. ASSUME NEW i \in 1 .. Len(lines), SkipLine(i)
        PROVE  ReaderInv'
    BY <2>3, SkipKeepsReads
  <2>4. ASSUME NEW i \in 1 .. Len(lines), BreakOff(i) \/ TakeLine(i)
        PROVE  ReaderInv'
    BY <2>4, TakeKeepsReads
  <2>5. CASE DropOldest
    BY <2>5, DropKeepsReads
  <2>6. CASE PushLine
    BY <2>6, PushKeepsReads
  <2>7. CASE EndOfFile
    BY <2>7, EndOfFileKeepsReads
  <2>8. CASE AnswerRead
    BY <2>8, AnswerKeepsReads
  <2>11. CASE FailRead
    BY <2>11, FailKeepsReads
  <2>9. CASE StoreNext
    <3>1. UNCHANGED readVars
      BY <2>9 DEF StoreNext, CreateRun, TouchRun, RemoveRun, SaveIndex, BeginPrune, ReadIndex, WriteIndex, EndPrune
    <3> QED
      BY <3>1, OthersKeepReads
  <2>10. CASE UNCHANGED journalFileVars
    BY <2>10, OthersKeepReads DEF journalFileVars, readVars
  <2> QED
    BY <2>1, <2>2, <2>3, <2>4, <2>5, <2>6, <2>7, <2>8, <2>9, <2>10, <2>11 DEF JournalFilesNext, ReaderNext
<1> QED
  BY <1>1, ReadsBegin, PTL DEF JournalFilesSpec

\* However the journal grows while it is read, every answer is within its limits,
\* without a gap and true to what it leaves out, and a client that polls with
\* the cursor it was given misses nothing but what a poll dropped for its bytes
\* (reader.go:138-222, 335-366).
THEOREM ReadsAreTrue == JournalFilesSpec => []WindowIsTrue
<1>1. ReaderInv => WindowIsTrue
  BY DEF ReaderInv
<1> QED
  BY <1>1, ReadsInvariant, PTL

\* No directory is younger than the last change, and a prune removes only
\* what it listed, also once it is forgotten.
StoreIsBounded ==
    /\ changes <= MaxChanges /\ \A r \in RunIds : touched[r] <= changes
    /\ prune.doomed \cup prune.removed \subseteq prune.listed

\* Changes are counted, and a prune goes by its list.
LEMMA StoreStaysBounded ==
    ASSUME PruneInv, StoreIsBounded, [JournalFilesNext]_journalFileVars
    PROVE  StoreIsBounded'
<1>1. /\ changes \in Nat /\ touched \in [RunIds -> Nat] /\ prune \in Prunes
      /\ MaxChanges \in Nat /\ index \in SUBSET RunIds
  BY JournalAssumption DEF PruneInv, StoreTyped
<1>2. CASE \E r \in RunIds : CreateRun(r) \/ TouchRun(r)
  <2>1. PICK r \in RunIds : Touch(r) /\ prune' = prune
    BY <1>2 DEF CreateRun, TouchRun
  <2>2. changes < MaxChanges /\ changes' = changes + 1 /\ touched' = [touched EXCEPT ![r] = changes + 1]
    BY <2>1 DEF Touch
  <2>3. changes' <= MaxChanges /\ \A s \in RunIds : touched'[s] <= changes'
    BY <1>1, <2>2 DEF StoreIsBounded
  <2> QED
    BY <2>1, <2>3 DEF StoreIsBounded
<1>3. ASSUME NEW r \in RunIds, RemoveRun(r)
      PROVE  StoreIsBounded'
  <2>1. /\ r \in prune.doomed /\ changes' = changes
        /\ touched' = touched \/ touched' = [touched EXCEPT ![r] = 0]
        /\ prune'.doomed \cup prune'.removed \subseteq prune.doomed \cup prune.removed
        /\ prune'.listed = prune.listed
    <3>1. /\ r \in prune.doomed /\ changes' = changes
          /\ \/ /\ touched' = [touched EXCEPT ![r] = 0]
                /\ prune' = [prune EXCEPT !.doomed = @ \ {r}, !.removed = @ \cup {r}]
             \/ touched' = touched /\ prune' = [prune EXCEPT !.doomed = @ \ {r}, !.failed = TRUE]
      BY <1>3 DEF RemoveRun
    <3>2. \/ /\ prune'.doomed = prune.doomed \ {r} /\ prune'.removed = prune.removed \cup {r}
             /\ prune'.listed = prune.listed
          \/ /\ prune'.doomed = prune.doomed \ {r} /\ prune'.removed = prune.removed
             /\ prune'.listed = prune.listed
      BY <1>1, <3>1 DEF Prunes
    <3> QED
      BY <3>1, <3>2
  <2>2. \A s \in RunIds : touched'[s] <= changes'
    BY <1>1, <2>1 DEF StoreIsBounded
  <2> QED
    BY <2>1, <2>2 DEF StoreIsBounded
<1>4. CASE BeginPrune
  <2>1. PICK old \in {0, OldAge} :
           prune' = [NoPrune EXCEPT !.at = "remove", !.old = old, !.listed = ListedRuns,
                                    !.doomed = Doomed(ListedRuns, old)]
    BY <1>4 DEF BeginPrune
  <2>2. prune'.doomed = Doomed(ListedRuns, old) /\ prune'.removed = {} /\ prune'.listed = ListedRuns
    BY <2>1 DEF NoPrune
  <2>3. Doomed(ListedRuns, old) \subseteq ListedRuns
    BY DEF Doomed
  <2>4. UNCHANGED <<changes, touched>>
    BY <1>4 DEF BeginPrune
  <2> QED
    BY <2>2, <2>3, <2>4 DEF StoreIsBounded
<1>5. CASE ReadIndex \/ WriteIndex \/ EndPrune
  <2>1. UNCHANGED <<changes, touched>>
    BY <1>5 DEF ReadIndex, WriteIndex, EndPrune
  <2>2. \/ prune'.doomed = prune.doomed /\ prune'.removed = prune.removed /\ prune'.listed = prune.listed
        \/ prune'.doomed = {} /\ prune'.removed = {}
    <3>1. \/ prune' = NoPrune
          \/ prune' = [prune EXCEPT !.at = "done"]
          \/ prune' = [prune EXCEPT !.at = "save", !.read = index]
      BY <1>5 DEF ReadIndex, WriteIndex, EndPrune
    <3>2. CASE prune' = NoPrune
      BY <3>2 DEF NoPrune
    <3>3. CASE prune' = [prune EXCEPT !.at = "done"] \/ prune' = [prune EXCEPT !.at = "save", !.read = index]
      BY <1>1, <3>3 DEF Prunes
    <3> QED
      BY <3>1, <3>2, <3>3
  <2> QED
    BY <2>1, <2>2 DEF StoreIsBounded
<1>6. CASE ReaderNext \/ SaveIndex \/ UNCHANGED journalFileVars
  <2>1. UNCHANGED <<changes, touched, prune>>
    BY <1>6 DEF ReaderNext, EmitLine, PollJournal, ReadTail, OpenJournal, SkipLine, BreakOff, TakeLine, DropOldest,
                 PushLine, EndOfFile, AnswerRead, FailRead, ReadOnly, SaveIndex, storeVars, journalFileVars
  <2> QED
    BY <2>1 DEF StoreIsBounded
<1> QED
  BY <1>2, <1>3, <1>4, <1>5, <1>6 DEF JournalFilesNext, StoreNext

\* The reads, the numbers they hand out and the records of the runs directory
\* stay what they may be (reader.go, prune.go).
THEOREM JournalFilesAreTyped == JournalFilesSpec => []JournalFilesTypeOK
<1>1. JournalFilesInit => StoreIsBounded
  <2>1. MaxChanges \in Nat
    BY JournalAssumption
  <2> QED
    BY <2>1 DEF JournalFilesInit, NoPrune, StoreIsBounded
<1>2. PruneInv /\ StoreIsBounded /\ [JournalFilesNext]_journalFileVars => StoreIsBounded'
  BY StoreStaysBounded
<1>3. ReaderInv /\ PruneInv /\ StoreIsBounded => JournalFilesTypeOK
  <2> SUFFICES ASSUME ReaderInv, PruneInv, StoreIsBounded PROVE JournalFilesTypeOK
    OBVIOUS
  <2>1. /\ lines \in Seq([size : Nat, events : Nat, bytes : Nat])
        /\ reading \in Readings /\ cursor \in Nat /\ window.first \in Nat /\ window.next \in Nat
    BY DEF ReaderInv, JournalLine
  <2>2. touched \in [RunIds -> 0 .. MaxChanges]
    <3>1. changes \in Nat /\ touched \in [RunIds -> Nat] /\ MaxChanges \in Nat
      BY JournalAssumption DEF PruneInv, StoreTyped
    <3>2. \A r \in RunIds : touched[r] \in 0 .. MaxChanges
      BY <3>1 DEF StoreIsBounded
    <3> QED
      BY <3>1, <3>2
  <2>3. /\ index \subseteq RunIds /\ spared \subseteq RunIds
        /\ prune.at \in {"none", "remove", "save", "done"}
    BY DEF PruneInv, StoreTyped, Prunes
  <2> QED
    BY <2>1, <2>2, <2>3 DEF Readings, StoreIsBounded, JournalFilesTypeOK
<1> QED
  BY <1>1, <1>2, <1>3, PruneInvariant, ReadsInvariant, PTL DEF JournalFilesSpec
=============================================================================
