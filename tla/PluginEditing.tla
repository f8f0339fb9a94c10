---------------------------- MODULE PluginEditing ----------------------------
(***************************************************************************)
(* What the web page writes to disk besides runs: plugins that are         *)
(* created, edited and tested, and files that are uploaded. An edit is     *)
(* laid over a copy of the plugin, the copy is validated, and only then    *)
(* are the files written in place, one after the other; an upload reserves *)
(* its name, fills a file beside it and renames that over the reservation. *)
(* Several requests are served at once, and the server may die.            *)
(***************************************************************************)
EXTENDS Naturals, FiniteSets

CONSTANTS
    EditRequests,   \* requests that edit, test or create the plugin
    Manifests,      \* [sound, lock, untrusted]: valid by itself, the lock it requires, its sandbox
    Drafts,         \* what a request may bring: functions from some of FileNames
    Template,       \* what a new plugin consists of
    TrustLists,     \* what the operator's trust list may allow: sets of directories
    Uploads,        \* requests that upload a file
    UploadNames,    \* the numbers of ".part" their names end with
    MaxCandidate    \* bound on the numbers tried after a name; 999 in the code

VARIABLES
    plugin,         \* the plugin's directory
    manifestCache,  \* Engine.Cache for it: the manifest, or none
    trustList,      \* EffectiveAllowList
    edit,           \* what a request is at: [at, draft, staged, todo]
    shownTrust,     \* what the last answer said of the plugin's trust
    unsettled,      \* a write failed half-way, or two requests wrote at once
    files,          \* the directory of uploads
    upload          \* what an upload is at: [at, name, number]

editVars == <<plugin, manifestCache, trustList, edit, shownTrust, unsettled>>
uploadVars == <<files, upload>>
pluginEditingVars == <<editVars, uploadVars>>

None == "none"
\* pluginSourceFiles, in the order of sortedKeys.
FileNames == <<"main.py", "plugin.yaml", "requirements.lock">>
SourceNames == {FileNames[i] : i \in DOMAIN FileNames}
NoManifest == [sound |-> FALSE, lock |-> None, untrusted |-> FALSE]
NoPlugin == [f \in SourceNames |-> IF f = "plugin.yaml" THEN NoManifest ELSE None]

-----------------------------------------------------------------------------
(* What a directory says                                                   *)

\* ValidatePluginDir; LoadManifest does not ask for the entry file.
Loads(d) ==
    /\ d["plugin.yaml"] \in Manifests
    /\ d["plugin.yaml"].sound
    /\ d["requirements.lock"] = d["plugin.yaml"].lock
IsValid(d) == Loads(d) /\ d["main.py"] # None

\* What createPlugin generates is a valid plugin, and a draft brings files of
\* the plugin only (pluginsource.go 18-40).
ASSUME PluginEditingAssumption ==
    /\ NoManifest \notin Manifests
    /\ Template = [f \in SourceNames |-> Template[f]] /\ IsValid(Template)
    /\ \A d \in Drafts :
          /\ DOMAIN d \subseteq SourceNames
          /\ "plugin.yaml" \in DOMAIN d => d["plugin.yaml"] \in Manifests
    /\ MaxCandidate \in Nat /\ UploadNames \subseteq 0 .. 2
    /\ Uploads \cap {None, "empty"} = {}

\* The manifest is the cached one, the digest is that of the directory now.
Trusts(manifest, d) == ~manifest.untrusted /\ d \in trustList

\* sourcePayload and the list of plugins: the answer, and the cache after it.
Show(d) ==
    LET known == IF manifestCache # NoManifest THEN manifestCache
                 ELSE IF Loads(d) THEN d["plugin.yaml"] ELSE NoManifest
    IN  /\ manifestCache' = known
        /\ shownTrust' = IF known = NoManifest THEN "unknown" ELSE IF Trusts(known, d) THEN "trusted" ELSE "blocked"

-----------------------------------------------------------------------------
(* Edits                                                                   *)

Overlay(d, draft) == [f \in SourceNames |-> IF f \in DOMAIN draft THEN draft[f] ELSE d[f]]

\* sortedKeys: of the files to write, the next one.
IsNext(f, todo) ==
    \E i \in DOMAIN FileNames : f = FileNames[i] /\ f \in todo /\ \A k \in 1 .. i - 1 : FileNames[k] \notin todo

\* stagingDir: a copy of the directory with the draft laid over it.
Staged(draft) == Overlay(plugin, draft)

Writing(r) == edit[r].at = "writing"

\* handlePluginSource with PUT, up to the check of the copy.
HandlePut(r, draft) ==
    /\ edit[r].at = "new"
    /\ plugin["plugin.yaml"] # NoManifest
    /\ edit' = [edit EXCEPT ![r] = [at |-> "staged", draft |-> draft, staged |-> Staged(draft), todo |-> DOMAIN draft]]
    /\ UNCHANGED <<plugin, manifestCache, trustList, shownTrust, unsettled, uploadVars>>

ValidateStaged(r) ==
    /\ edit[r].at = "staged"
    /\ edit' = [edit EXCEPT ![r].at = IF IsValid(edit[r].staged) THEN "writing" ELSE "refused"]
    /\ unsettled' = (unsettled \/ (IsValid(edit[r].staged)
                                   /\ (edit[r].staged # Overlay(plugin, edit[r].draft) \/ \E s \in EditRequests : edit[s].at \in {"writing", "creating"})))
    /\ UNCHANGED <<plugin, manifestCache, trustList, shownTrust, uploadVars>>

\* Files that are written stay written when a later one cannot be.
WriteSource(r) ==
    /\ Writing(r)
    /\ \/ \E f \in edit[r].todo :
             /\ IsNext(f, edit[r].todo)
             /\ plugin' = [plugin EXCEPT ![f] = edit[r].draft[f]]
             /\ edit' = [edit EXCEPT ![r].todo = @ \ {f}]
             /\ UNCHANGED unsettled
       \/ /\ edit[r].todo # {}
          /\ edit' = [edit EXCEPT ![r].at = "refused"]
          /\ unsettled' = TRUE
          /\ UNCHANGED plugin
    /\ UNCHANGED <<manifestCache, trustList, shownTrust, uploadVars>>

\* The answer is read back from the disk.
AnswerPut(r) ==
    /\ Writing(r) /\ edit[r].todo = {}
    /\ edit' = [edit EXCEPT ![r].at = "answered"]
    /\ Show(plugin)
    /\ UNCHANGED <<plugin, trustList, unsettled, uploadVars>>

ListPlugins ==
    /\ plugin["plugin.yaml"] # NoManifest
    /\ Show(plugin)
    /\ UNCHANGED <<plugin, trustList, edit, unsettled, uploadVars>>

-----------------------------------------------------------------------------
(* Creation                                                                *)

\* handlePluginCreate and CreatePluginWith: nothing may be there, then the
\* files are written in any order.
HandleCreate(r) ==
    /\ edit[r].at = "new"
    /\ IF plugin = NoPlugin
       THEN /\ edit' = [edit EXCEPT ![r] = [at |-> "creating", draft |-> Template, staged |-> Template, todo |-> {}]]
            /\ unsettled' = (unsettled \/ \E s \in EditRequests : edit[s].at = "creating")
       ELSE /\ edit' = [edit EXCEPT ![r].at = "refused"]
            /\ UNCHANGED unsettled
    /\ UNCHANGED <<plugin, manifestCache, trustList, shownTrust, uploadVars>>

CreateFile(r) ==
    /\ edit[r].at = "creating"
    /\ \E f \in {g \in SourceNames : plugin[g] # Template[g]} :
          \/ /\ plugin' = [plugin EXCEPT ![f] = Template[f]]
             /\ UNCHANGED <<edit, unsettled>>
          \/ /\ edit' = [edit EXCEPT ![r].at = "refused"]
             /\ unsettled' = TRUE
             /\ UNCHANGED plugin
    /\ UNCHANGED <<manifestCache, trustList, shownTrust, uploadVars>>

AnswerCreate(r) ==
    /\ edit[r].at = "creating" /\ plugin = Template
    /\ edit' = [edit EXCEPT ![r].at = "answered"]
    /\ Show(plugin)
    /\ UNCHANGED <<plugin, trustList, unsettled, uploadVars>>

-----------------------------------------------------------------------------
(* Tests                                                                   *)

\* With a draft the tests run on a copy, else on the plugin itself.
HandleTest(r, draft) ==
    /\ edit[r].at = "new"
    /\ plugin["plugin.yaml"] # NoManifest
    /\ edit' = [edit EXCEPT ![r] = [at |-> "testing", draft |-> draft, staged |-> Staged(draft), todo |-> {}]]
    /\ UNCHANGED <<plugin, manifestCache, trustList, shownTrust, unsettled, uploadVars>>

\* The tests end, or take too long: then the handler answers and removes the
\* copy while the goroutine is still at work on it.
TestsAnswer(r) ==
    /\ edit[r].at = "testing"
    /\ \/ edit' = [edit EXCEPT ![r].at = "answered"]
       \/ edit' = [edit EXCEPT ![r].at = "orphaned", ![r].staged = NoPlugin]
    /\ UNCHANGED <<plugin, manifestCache, trustList, shownTrust, unsettled, uploadVars>>

OrphanEnds(r) ==
    /\ edit[r].at = "orphaned"
    /\ edit' = [edit EXCEPT ![r].at = "answered"]
    /\ UNCHANGED <<plugin, manifestCache, trustList, shownTrust, unsettled, uploadVars>>

-----------------------------------------------------------------------------
(* Uploads. A file's name is <<number, parts>>: the number behind the name *)
(* and how often ".part" follows it.                                       *)

AllFiles == (0 .. MaxCandidate) \X (0 .. 3)
Abs(u) == <<upload[u].number, upload[u].name>>
Part(u) == <<upload[u].number, upload[u].name + 1>>

At(u, at) == upload' = [upload EXCEPT ![u].at = at]
UploadOnly == UNCHANGED editVars

UploadAsset(u, name) ==
    /\ upload[u].at = "new"
    /\ upload' = [upload EXCEPT ![u] = [at |-> "name", name |-> name, number |-> 0]]
    /\ UNCHANGED files /\ UploadOnly

\* Mutant: a name is taken although there is a file.
TakesAnyName(f) == TRUE

\* O_CREATE with O_EXCL.
Exclusive(f) == files[f] = None

\* writeAssetExclusive: the first free name is reserved by an empty file.
ReserveName(u) ==
    /\ upload[u].at = "name"
    /\ \/ /\ Exclusive(Abs(u))
          /\ files' = [files EXCEPT ![Abs(u)] = "empty"]
          /\ At(u, "reserved")
       \/ /\ ~Exclusive(Abs(u))
          /\ upload' = IF upload[u].number < MaxCandidate THEN [upload EXCEPT ![u].number = @ + 1]
                       ELSE [upload EXCEPT ![u].at = "refused"]
          /\ UNCHANGED files
    /\ UploadOnly

OpenPart(u) ==
    /\ upload[u].at = "reserved"
    /\ IF files[Part(u)] = None
       THEN files' = [files EXCEPT ![Part(u)] = "empty"] /\ At(u, "filling")
       ELSE UNCHANGED files /\ At(u, "failed")
    /\ UploadOnly

\* A failed or an empty upload takes its part away.
FillPart(u) ==
    /\ upload[u].at = "filling"
    /\ \/ files' = [files EXCEPT ![Part(u)] = u] /\ At(u, "filled")
       \/ files' = [files EXCEPT ![Part(u)] = None] /\ At(u, "failed")
    /\ UploadOnly

RenamePart(u) ==
    /\ upload[u].at = "filled"
    /\ \/ files' = [files EXCEPT ![Part(u)] = None, ![Abs(u)] = files[Part(u)]] /\ At(u, "answered")
       \/ files' = [files EXCEPT ![Part(u)] = None] /\ At(u, "failed")
    /\ UploadOnly

\* The reservation of a failed upload goes as well.
DropReservation(u) ==
    /\ upload[u].at = "failed"
    /\ files' = [files EXCEPT ![Abs(u)] = None]
    /\ At(u, "refused")
    /\ UploadOnly

\* The server dies: parts and reservations stay, and so do half-written plugins.
ServerDies ==
    /\ \E u \in Uploads : upload[u].at \in {"reserved", "filling", "filled", "failed"}
    /\ upload' = [u \in Uploads |-> IF upload[u].at = "answered" THEN upload[u] ELSE [upload[u] EXCEPT !.at = "refused"]]
    /\ UNCHANGED files /\ UploadOnly

-----------------------------------------------------------------------------
PluginEditingInit ==
    /\ plugin \in {NoPlugin, Template}
    /\ manifestCache = NoManifest
    /\ trustList \in TrustLists
    /\ edit = [r \in EditRequests |-> [at |-> "new", draft |-> NoPlugin, staged |-> NoPlugin, todo |-> {}]]
    /\ shownTrust = "unknown"
    /\ unsettled = FALSE
    /\ files = [f \in AllFiles |-> None]
    /\ upload = [u \in Uploads |-> [at |-> "new", name |-> 0, number |-> 0]]

EditNext ==
    \/ ListPlugins
    \/ \E r \in EditRequests :
          \/ \E draft \in Drafts : HandlePut(r, draft) \/ HandleTest(r, draft)
          \/ ValidateStaged(r) \/ WriteSource(r) \/ AnswerPut(r)
          \/ HandleCreate(r) \/ CreateFile(r) \/ AnswerCreate(r)
          \/ TestsAnswer(r) \/ OrphanEnds(r)

UploadNext ==
    \/ ServerDies
    \/ \E u \in Uploads :
          \/ \E name \in UploadNames : UploadAsset(u, name)
          \/ ReserveName(u) \/ OpenPart(u) \/ FillPart(u) \/ RenamePart(u) \/ DropReservation(u)

-----------------------------------------------------------------------------
\* Type correctness.
PluginEditingTypeOK ==
    /\ plugin["plugin.yaml"] \in Manifests \cup {NoManifest}
    /\ manifestCache \in Manifests \cup {NoManifest}
    /\ shownTrust \in {"unknown", "trusted", "blocked"}
    /\ \A f \in AllFiles : files[f] \in Uploads \cup {None, "empty"}

\* What a request was told it did is there. A plugin that nobody is writing
\* is valid, whichever drafts were saved, unless a save broke off half-way or
\* two overlapped (pluginsource.go:320-348); a file whose upload was answered
\* is the file that was sent, under the name in the answer, whoever uploads
\* under the same name or one that ends in .part (assets.go:166-234).
PluginSourcesAreWhole ==
    /\ \/ unsettled \/ \E r \in EditRequests : edit[r].at \in {"writing", "creating"}
       \/ plugin = NoPlugin \/ IsValid(plugin)
    /\ \A u \in Uploads : upload[u].at = "answered" => files[Abs(u)] = u
=============================================================================
