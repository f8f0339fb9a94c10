-------------------------------- MODULE Install --------------------------------
(***************************************************************************)
(* Installation of a plugin from the registry (internal/install,           *)
(* internal/registry) and of a pipeline preset with the plugins it needs   *)
(* (internal/cli/install.go), by several processes at once: the command    *)
(* line and the store of the web console (internal/api/store.go), which    *)
(* share no lock. An installer may die between any two steps.              *)
(*                                                                         *)
(* One plugin and one preset stand for all. A content is a commit of the   *)
(* plugin's repository, 0 for a working tree that was edited; names, paths *)
(* and addresses are left out, as is a disk that refuses to write.         *)
(***************************************************************************)
EXTENDS Naturals, FiniteSets

CONSTANTS
    Installers, \* processes that install
    Entries,    \* what the registry may say of the plugin
    Commits,    \* commits of the plugin's repository
    Broken,     \* commits whose manifest does not validate
    NeedsDonor, \* commits whose manifest names a donor program
    Texts,      \* what the preset may say
    MaxBegun, MaxMishaps \* bounds: installations; installers that die and changes of the checkout

ASSUME InstallAssumption ==
    /\ Commits \subseteq Nat \ {0} /\ Broken \cup NeedsDonor \subseteq Commits
    /\ Texts \subseteq Nat \ {0}
    /\ \A e \in Entries :
          /\ e.source \in {"remote", "directory", "elsewhere"} /\ e.pin \in Commits \cup {0}
          /\ e.safe \in BOOLEAN /\ e.beside \in BOOLEAN
    /\ MaxBegun \in Nat /\ MaxMishaps \in Nat

VARIABLES
    entry,     \* the plugin in the registry: source, pin, safe (its path, source and
               \* version are), beside (the registry's directory holds the plugin)
    checkout,  \* the local repository: its HEAD and what its files hold
    place,     \* the plugin's directory
    preset,    \* the preset's file
    sidecar,   \* what the preset's .sha256 says
    asides,    \* the plugin directory and the preset an installer moved aside and may put back
    donorTemp, \* a download of the donor lies in the donor's directory
    work,      \* what each installer is about
    installed, \* history: what was installed once
    begun, deaths, edits \* so far

installVars == <<entry, checkout, place, preset, sidecar, asides, donorTemp, work, installed, begun, deaths, edits>>
diskVars == <<place, preset, sidecar, asides, donorTemp, installed>>
aroundVars == <<entry, checkout, begun, deaths, edits>>

Absent == [content |-> 0, lock |-> 0, donor |-> FALSE]
NothingAside == [place |-> Absent, preset |-> 0]
AtRest == [at |-> "rest", plan |-> "none", staged |-> 0, lock |-> 0, preset |-> 0, read |-> 0]

InstallInit ==
    /\ entry \in Entries
    /\ checkout \in {[head |-> c, files |-> c] : c \in Commits}
    /\ place \in {Absent} \cup {[content |-> c, lock |-> c, donor |-> FALSE] : c \in Commits \ Broken}
    /\ preset \in Texts \cup {0} /\ sidecar = preset
    /\ asides = [i \in Installers |-> NothingAside]
    /\ donorTemp = FALSE
    /\ work = [i \in Installers |-> AtRest]
    /\ installed = {w \in {"plugin", "preset"} : IF w = "plugin" THEN place # Absent ELSE preset # 0}
    /\ begun = 0 /\ deaths = 0 /\ edits = 0

Goes(i, at) == work' = [work EXCEPT ![i].at = at]
EndsWork(i) == work' = [work EXCEPT ![i] = AtRest]

Begins ==
    /\ begun < MaxBegun
    /\ begun' = begun + 1

-----------------------------------------------------------------------------
(* From the registry to a directory to copy                                *)

\* ValidateEntry with requirePin.
ValidEntry == entry.safe /\ ~(entry.source = "remote" /\ entry.pin = 0)

\* planSource: the repository the console runs in, a source that is a directory,
\* the registry's own directory for a source that is neither here nor pinned.
Plan(web) ==
    CASE web -> "local"
      [] ~web /\ entry.source = "directory" -> "directory"
      [] ~web /\ entry.source = "elsewhere" /\ entry.pin = 0 /\ entry.beside -> "beside"
      [] OTHER -> "clone"

\* Run: the registry is read, the version asked for is only a label.
StartInstall(i) ==
    /\ work[i].at \in {"rest", "preset needs"}
    /\ IF work[i].at = "rest" THEN Begins ELSE UNCHANGED begun
    /\ ValidEntry
    /\ \E web \in IF work[i].at = "rest" THEN BOOLEAN ELSE {FALSE}, label \in Commits :
          work' = [work EXCEPT ![i].at = "planned", ![i].plan = Plan(web), ![i].lock = label]
    /\ UNCHANGED <<diskVars, entry, checkout, deaths, edits>>

RefuseEntry(i) ==
    /\ work[i].at = "preset needs" /\ ~ValidEntry
    /\ EndsWork(i)
    /\ UNCHANGED <<diskVars, aroundVars>>

\* VerifyCheckoutPath: the plugin's tree at HEAD is that of the pin and the
\* files are those of HEAD.
TreeIsPinned(pin) == pin = 0 \/ (checkout.head = pin /\ checkout.files = pin)

\* SourceDir. A clone is checked out at the pin, whatever the label.
FetchSource(i) ==
    /\ work[i].at = "planned"
    /\ \/ /\ work[i].plan = "clone" /\ entry.source = "remote"
          /\ work' = [work EXCEPT ![i].at = "fetched", ![i].staged = entry.pin]
       \/ /\ work[i].plan # "clone" /\ TreeIsPinned(entry.pin)
          /\ Goes(i, "fetched")
       \/ /\ work[i].plan = "clone" \/ ~TreeIsPinned(entry.pin)
          /\ EndsWork(i)
    /\ UNCHANGED <<diskVars, aroundVars>>

-----------------------------------------------------------------------------
(* stageAndCommit                                                          *)

\* CopyDir reads a local repository as it is by now; what it copied must
\* have a manifest that validates.
StagePlugin(i) ==
    /\ work[i].at = "fetched"
    /\ LET copy == IF work[i].plan = "clone" THEN work[i].staged ELSE checkout.files IN
       IF copy \in Broken
       THEN EndsWork(i)
       ELSE work' = [work EXCEPT ![i].at = "staged", ![i].staged = copy]
    /\ UNCHANGED <<diskVars, aroundVars>>

\* Stat of the plugin's directory.
StatPlace(i) ==
    /\ work[i].at = "staged"
    /\ Goes(i, IF place = Absent THEN "free" ELSE "occupied")
    /\ UNCHANGED <<diskVars, aroundVars>>

\* Rename of the old directory, which another installer may have taken away.
MoveAside(i) ==
    /\ work[i].at = "occupied"
    /\ IF place = Absent
       THEN EndsWork(i) /\ UNCHANGED <<place, asides>>
       ELSE /\ asides' = [asides EXCEPT ![i].place = place]
            /\ place' = Absent
            /\ Goes(i, "free")
    /\ UNCHANGED <<preset, sidecar, donorTemp, installed, aroundVars>>

\* Mutant: a failed rename is reported, the old directory stays aside.
LeavesAside(i) == UNCHANGED place

\* The old directory is put back when the new one cannot take its place.
Restores(i) == place' = asides[i].place

\* Rename of the staged directory: it fails when another one is in the way,
\* and may fail otherwise. The rename back fails when one is in the way, and
\* the old directory is left aside, where nobody looks for it again.
PublishPlugin(i) ==
    /\ work[i].at = "free"
    /\ \/ /\ place = Absent
          /\ place' = [content |-> work[i].staged, lock |-> work[i].lock, donor |-> FALSE]
          /\ installed' = installed \cup {"plugin"}
          /\ work' = [work EXCEPT ![i] = [AtRest EXCEPT !.at = "published", !.preset = work[i].preset]]
          /\ UNCHANGED asides
       \/ /\ IF place = Absent /\ asides[i].place # Absent THEN Restores(i) ELSE UNCHANGED place
          /\ asides' = [asides EXCEPT ![i].place = Absent]
          /\ EndsWork(i)
          /\ UNCHANGED installed
    /\ UNCHANGED <<preset, sidecar, donorTemp, aroundVars>>

DropAside(i) ==
    /\ work[i].at = "published"
    /\ asides' = [asides EXCEPT ![i].place = Absent]
    /\ Goes(i, "deps")
    /\ UNCHANGED <<place, preset, sidecar, donorTemp, installed, aroundVars>>

-----------------------------------------------------------------------------
(* installDeps: its failures are notes, the installation stands            *)

AfterPlugin(i) ==
    IF work[i].preset = 0 THEN EndsWork(i)
    ELSE work' = [work EXCEPT ![i] = [AtRest EXCEPT !.at = "preset checked", !.preset = work[i].preset]]

\* requires of the manifest now in place, then its donor, if it has one.
InstallRequires(i) ==
    /\ work[i].at = "deps"
    /\ IF place.content \in NeedsDonor THEN Goes(i, "donor") \/ AfterPlugin(i) ELSE AfterPlugin(i)
    /\ UNCHANGED <<diskVars, aroundVars>>

\* The file is created with O_EXCL and is still there after a download that
\* broke off, is too long or has another hash; it is removed after a good one.
DownloadDonor(i) ==
    /\ work[i].at = "donor"
    /\ \/ donorTemp /\ AfterPlugin(i) /\ UNCHANGED donorTemp
       \/ ~donorTemp /\ AfterPlugin(i) /\ donorTemp' \in BOOLEAN
       \/ ~donorTemp /\ Goes(i, "donor here") /\ UNCHANGED donorTemp
    /\ UNCHANGED <<place, preset, sidecar, asides, installed, aroundVars>>

\* writeDonorToLock reads the lock of whatever is in place by now ...
ReadLock(i) ==
    /\ work[i].at = "donor here"
    /\ IF place = Absent
       THEN AfterPlugin(i)
       ELSE work' = [work EXCEPT ![i].at = "lock read", ![i].read = place.lock]
    /\ UNCHANGED <<diskVars, aroundVars>>

\* ... and writes it into whatever is there then.
WriteDonor(i) ==
    /\ work[i].at = "lock read"
    /\ place' = IF place = Absent THEN place ELSE [place EXCEPT !.lock = work[i].read, !.donor = TRUE]
    /\ AfterPlugin(i)
    /\ UNCHANGED <<preset, sidecar, asides, donorTemp, installed, aroundVars>>

-----------------------------------------------------------------------------
(* installPipelinePreset                                                   *)

\* The preset is fetched and staged under another name; the plugins that
\* are missing, or are there in another version, are installed first.
FetchPreset(i) ==
    /\ work[i].at = "rest"
    /\ Begins
    /\ \E text \in Texts, version \in Commits \cup {0} :
          LET missing == place = Absent \/ (version # 0 /\ place.lock # version)
          IN  work' = [work EXCEPT ![i].preset = text,
                           ![i].at = IF missing THEN "preset needs" ELSE "preset checked"]
    /\ UNCHANGED <<diskVars, entry, checkout, deaths, edits>>

\* Validate, with the plugins in place, then what is staged is read again.
ValidatePreset(i) ==
    /\ work[i].at = "preset checked"
    /\ EndsWork(i) \/ (place # Absent /\ Goes(i, "preset valid"))
    /\ UNCHANGED <<diskVars, aroundVars>>

\* commitPresetFile: the old file is moved aside ...
MovePresetAside(i) ==
    /\ work[i].at = "preset valid"
    /\ \/ /\ asides' = [asides EXCEPT ![i].preset = preset]
          /\ preset' = 0
          /\ Goes(i, "preset free")
       \/ UNCHANGED <<preset, asides>> /\ EndsWork(i)
    /\ UNCHANGED <<place, sidecar, donorTemp, installed, aroundVars>>

\* ... the staged one renamed over whatever is there, or else the old one.
PublishPreset(i) ==
    /\ work[i].at = "preset free"
    /\ \/ /\ preset' = work[i].preset
          /\ installed' = installed \cup {"preset"}
          /\ Goes(i, "preset published")
       \/ /\ preset' = IF asides[i].preset # 0 THEN asides[i].preset ELSE preset
          /\ UNCHANGED installed
          /\ EndsWork(i)
    /\ asides' = [asides EXCEPT ![i].preset = 0]
    /\ UNCHANGED <<place, sidecar, donorTemp, aroundVars>>

\* writePresetProvenance reads the file ...
SumPreset(i) ==
    /\ work[i].at = "preset published"
    /\ IF preset = 0 THEN EndsWork(i)
       ELSE work' = [work EXCEPT ![i].at = "preset summed", ![i].read = preset]
    /\ UNCHANGED <<diskVars, aroundVars>>

\* ... writes the sum beside it and compares once more.
WriteSidecar(i) ==
    /\ work[i].at = "preset summed"
    /\ sidecar' = work[i].read
    /\ EndsWork(i)
    /\ UNCHANGED <<place, preset, asides, donorTemp, installed, aroundVars>>

-----------------------------------------------------------------------------
\* The process ends here; what it had moved aside is left behind.
InstallerDies(i) ==
    /\ deaths + edits < MaxMishaps /\ work[i].at # "rest"
    /\ deaths' = deaths + 1
    /\ EndsWork(i)
    /\ donorTemp' = (donorTemp \/ work[i].at = "donor")
    /\ asides' = [asides EXCEPT ![i] = NothingAside]
    /\ UNCHANGED <<entry, checkout, place, preset, sidecar, installed, begun, edits>>

\* The files of the local repository change, or another commit is taken.
EditCheckout ==
    /\ deaths + edits < MaxMishaps
    /\ edits' = edits + 1
    /\ \/ checkout' = [checkout EXCEPT !.files = 0]
       \/ \E c \in Commits : checkout' = [head |-> c, files |-> c]
    /\ UNCHANGED <<entry, diskVars, work, begun, deaths>>

InstallerNext(i) ==
    \/ StartInstall(i) \/ RefuseEntry(i) \/ FetchSource(i) \/ StagePlugin(i) \/ StatPlace(i)
    \/ MoveAside(i) \/ PublishPlugin(i) \/ DropAside(i) \/ InstallRequires(i) \/ DownloadDonor(i)
    \/ ReadLock(i) \/ WriteDonor(i) \/ FetchPreset(i) \/ ValidatePreset(i) \/ MovePresetAside(i)
    \/ PublishPreset(i) \/ SumPreset(i) \/ WriteSidecar(i) \/ InstallerDies(i)

InstallNext == EditCheckout \/ \E i \in Installers : InstallerNext(i)

InstallSpec == InstallInit /\ [][InstallNext]_installVars

-----------------------------------------------------------------------------
\* Type correctness; nothing with a broken manifest is in place or aside.
InstallTypeOK ==
    /\ entry \in Entries
    /\ checkout.head \in Commits /\ checkout.files \in Commits \cup {0}
    /\ \A p \in {place} \cup {asides[i].place : i \in Installers} :
          p.content \in (Commits \ Broken) \cup {0} /\ p.lock \in Commits \cup {0}
    /\ preset \in Texts \cup {0} /\ sidecar \in Texts \cup {0}
    /\ donorTemp \in BOOLEAN

\* What was installed once is there, unless an installer is just replacing it
\* or has died while it did (install.go:306-334, cli/install.go:105-134): no
\* order of the steps of several installers, and no rename that fails, loses
\* it.
NothingIsLost ==
    \/ deaths > 0
    \/ /\ "plugin" \in installed /\ place = Absent =>
             \E i \in Installers : work[i].at = "free" /\ asides[i].place # Absent
       /\ "preset" \in installed /\ preset = 0 =>
             \E i \in Installers : work[i].at = "preset free" /\ asides[i].preset # 0
=============================================================================
