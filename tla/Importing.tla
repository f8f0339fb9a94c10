------------------------------- MODULE Importing -------------------------------
(***************************************************************************)
(* "plugin import": a Python project is read, a plan is made of what could *)
(* be read, and a plugin is generated that loads the project's function    *)
(* and leaves the call to a human (internal/importer, internal/cli/        *)
(* import.go). The plugin is written file by file into a directory that    *)
(* must not exist, then validated and tested; an attempt may end halfway   *)
(* and be made again, for the same directory and another project.          *)
(*                                                                         *)
(* A project is what its files say: parsing of TOML and INI is left out,   *)
(* and so are texts (messages, descriptions, README).                      *)
(***************************************************************************)
EXTENDS Naturals, Sequences, FiniteSets, SequencesExt

CONSTANTS
    Projects,    \* what a project directory may hold
    MaxAttempts, \* bound on the commands for one destination
    NoProject

\* What a dependency may be: "both" has a pin and a range, "star" a pin with
\* a *, "epoch" a version the schema of a manifest has no letter for.
Forms == {"bare", "range", "pin", "both", "star", "epoch", "extra", "marker", "url", "unreadable"}
Targets == {"function", "cli", "malformed"}
DependencyKinds == [name : STRING, form : Forms]

ProjectKinds ==
    [files : SUBSET {"pyproject.toml", "setup.cfg", "setup.py"}, readable : BOOLEAN,
     named : BOOLEAN, dependencies : Seq(DependencyKinds), scripts : Seq(Targets),
     where : {"", "src", "other"}, packages : SUBSET {"src", "root"}, absolute : BOOLEAN,
     loads : {"well", "raises", "exits"}]

ASSUME ImportingAssumption ==
    /\ MaxAttempts \in Nat /\ NoProject \notin Projects
    /\ \A p \in Projects : p \in ProjectKinds

VARIABLES
    project,    \* what this attempt imports
    importStep, \* how far it is
    unwritten,  \* files it has yet to write
    dest,       \* whether the destination exists
    disk,       \* the destination: file -> content
    attempts,   \* commands given
    python3     \* whether python3 is there

importVars == <<project, importStep, unwritten, dest, disk, attempts, python3>>

-----------------------------------------------------------------------------
(* Reading a project                                                       *)

\* Inspect: setup.py is never run, and pyproject.toml goes before setup.cfg.
Inspected(p) ==
    /\ p.files \cap {"pyproject.toml", "setup.cfg"} # {}
    /\ p.readable /\ p.named

\* detectLayout.
Layout(p) ==
    IF p.where = "src" THEN IF "src" \in p.packages THEN "src" ELSE "unknown"
    ELSE IF "src" \in p.packages THEN "src"
    ELSE IF "root" \in p.packages THEN "flat"
    ELSE "unknown"

-----------------------------------------------------------------------------
(* The plan                                                                *)

\* ManifestSpec: package==version and nothing more.
Writable(d) == d.form \in {"pin", "both"}

\* selectedRequirements: the first of several with one name. A text that is
\* not understood is known by itself, not by a name.
Selected(p) ==
    LET ds == p.dependencies
        repeats(i) == \E j \in 1 .. i - 1 : ds[j].name = ds[i].name /\ ds[j].form # "unreadable" /\ ds[i].form # "unreadable"
    IN  {ds[i] : i \in {i \in DOMAIN ds : ~repeats(i)}}

\* entryPointsOf: names in order, malformed targets left out.
EntryPoints(p) == SelectSeq(p.scripts, LAMBDA s : s # "malformed")

ImportPath(p) == IF Layout(p) = "unknown" THEN "none" ELSE IF p.absolute THEN "absolute" ELSE "relative"

Said(blocker, holds) == IF holds THEN {blocker} ELSE {}

\* What a human is told that the plan could not do.
PlanBlockers(p) ==
    Said("dependency", \E d \in Selected(p) : ~Writable(d))
    \cup Said("malformed entry", "malformed" \in ToSet(p.scripts))
    \cup Said("no function", p.scripts = <<>> \/ (EntryPoints(p) # <<>> /\ "function" \notin ToSet(p.scripts)))
    \cup Said("layout", Layout(p) = "unknown")

-----------------------------------------------------------------------------
(* The skeleton                                                            *)

\* decideRequirements: all of them or none.
Specs(p) == IF \A d \in Selected(p) : Writable(d) THEN Selected(p) ELSE {}

\* pickEntryPoint: the first that does not look like a command line.
Donor(p) == IF "function" \in ToSet(EntryPoints(p)) THEN "function" ELSE "none"

\* decide: what the generator adds.
Blockers(p) ==
    PlanBlockers(p)
    \cup Said("requires", \E d \in Selected(p) : ~Writable(d))
    \cup Said("donor root", ImportPath(p) # "absolute")
    \cup Said("no donor", Donor(p) = "none") \cup Said("not called", Donor(p) # "none")

\* renderFiles, in the order in which they are written.
FilesOf(p) ==
    LET always == <<"plugin.yaml", "main.py", "plugin.test.yaml", "README.md">>
    IN  IF Specs(p) = {} THEN always ELSE Append(always, "requirements.lock")

Content(p, f) ==
    CASE f \in {"plugin.yaml", "requirements.lock"} -> Specs(p)
      [] f = "main.py" -> [root |-> ImportPath(p), donor |-> Donor(p), loads |-> p.loads]
      [] OTHER -> "template"

-----------------------------------------------------------------------------
(* Is it a plugin?                                                         *)

Files == DOMAIN disk

\* ValidatePluginDir: the manifest, the entry it names, and the lock beside it.
IsValidPlugin ==
    /\ {"plugin.yaml", "main.py"} \subseteq Files
    /\ disk["plugin.yaml"] # {} => "requirements.lock" \in Files /\ disk["requirements.lock"] = disk["plugin.yaml"]

\* The third case of the contract test loads the donor; an exit while it is
\* imported is no exception, and ends main.py with a code of its own.
LoadEndsMain ==
    LET m == disk["main.py"] IN m.donor # "none" /\ m.root = "absolute" /\ m.loads = "exits"

TestsPass == python3 /\ ~LoadEndsMain

-----------------------------------------------------------------------------
(* The command                                                             *)

\* os.Stat of the destination, and checkDestDir of Generate.
DestinationIsFree == ~dest

BeginImport(p) ==
    /\ importStep \in {"none", "refused", "exists", "failed", "invalid", "red", "done"}
    /\ attempts < MaxAttempts /\ attempts' = attempts + 1
    /\ project' = p
    /\ importStep' = IF ~Inspected(p) THEN "refused" ELSE IF ~DestinationIsFree THEN "exists" ELSE "planned"
    /\ UNCHANGED <<unwritten, dest, disk, python3>>

\* The contents are ready before anything is created.
CreateDestination ==
    /\ importStep = "planned"
    /\ unwritten' = FilesOf(project)
    /\ dest' = TRUE /\ importStep' = "writing"
    /\ UNCHANGED <<project, disk, attempts, python3>>

WriteNext ==
    /\ importStep = "writing" /\ unwritten # <<>>
    /\ disk' = [f \in Files \cup {Head(unwritten)} |->
                  IF f = Head(unwritten) THEN Content(project, f) ELSE disk[f]]
    /\ unwritten' = Tail(unwritten)
    /\ UNCHANGED <<project, importStep, dest, attempts, python3>>

\* A write fails, or the command is ended: what is written stays.
ImportFails ==
    /\ importStep \in {"planned", "writing"}
    /\ importStep' = "failed"
    /\ UNCHANGED <<project, unwritten, dest, disk, attempts, python3>>

ValidateImported ==
    /\ importStep = "writing" /\ unwritten = <<>>
    /\ importStep' = IF IsValidPlugin THEN "valid" ELSE "invalid"
    /\ UNCHANGED <<project, unwritten, dest, disk, attempts, python3>>

TestImported ==
    /\ importStep = "valid"
    /\ importStep' = IF TestsPass THEN "done" ELSE "red"
    /\ UNCHANGED <<project, unwritten, dest, disk, attempts, python3>>

\* A human removes what an attempt left.
RemoveDestination ==
    /\ importStep \in {"exists", "failed", "invalid", "red", "done"} /\ dest
    /\ dest' = FALSE /\ disk' = <<>> /\ importStep' = "none"
    /\ UNCHANGED <<project, unwritten, attempts, python3>>

ImportingInit ==
    /\ project = NoProject /\ importStep = "none" /\ unwritten = <<>>
    /\ dest = FALSE /\ disk = <<>> /\ attempts = 0
    /\ python3 \in BOOLEAN

ImportingNext ==
    \/ \E p \in Projects : BeginImport(p)
    \/ CreateDestination \/ WriteNext \/ ImportFails
    \/ ValidateImported \/ TestImported \/ RemoveDestination

-----------------------------------------------------------------------------
(* Properties                                                              *)

ImportingTypeOK ==
    /\ project \in Projects \cup {NoProject}
    /\ importStep \in {"none", "refused", "exists", "planned", "writing", "valid", "failed", "invalid", "red", "done"}
    /\ unwritten \in Seq({"plugin.yaml", "main.py", "plugin.test.yaml", "README.md", "requirements.lock"})
    /\ dest \in BOOLEAN /\ python3 \in BOOLEAN /\ attempts \in 0 .. MaxAttempts
    /\ (~dest => disk = <<>>)

NamesOf(ds) == {d.name : d \in ds}

\* No dependency is dropped: the manifest names all that the project lists, or
\* none and a blocker says so. What the project calls dynamic is not in its
\* list, and nothing is said of it.
NoDependencyIsDropped ==
    importStep \in {"valid", "done", "red"} =>
        \/ NamesOf(disk["plugin.yaml"]) = NamesOf(ToSet(project.dependencies))
        \/ disk["plugin.yaml"] = {} /\ "requires" \in Blockers(project)

\* A generated plugin is one attempt's, and valid: that it is not is called an
\* internal error (import.go 106-112), as are red tests, which only a donor
\* that ends the process while it is imported, or a missing python3, can cause.
ImportIsSound ==
    /\ NoDependencyIsDropped
    /\ importStep # "invalid"
    /\ (importStep = "red" => ~python3 \/ project.loads = "exits")
    /\ importStep \in {"writing", "valid"} => \A f \in Files : disk[f] = Content(project, f)
=============================================================================
