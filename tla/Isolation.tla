------------------------------ MODULE Isolation ------------------------------
(***************************************************************************)
(* How a plugin that is not trusted is put into the isolator of the        *)
(* system. On Windows a launcher (internal-sandbox-exec) grants the        *)
(* container's profile every directory the plugin reads and then creates   *)
(* the process; launchers of several plugins, and installations, grant the *)
(* same directories. On Linux bwrap holds the plugin back behind a gate    *)
(* file until slirp4netns has brought up the network of its namespace.     *)
(***************************************************************************)
EXTENDS Naturals, Sequences, FiniteSets

CONSTANTS
    Dirs,          \* directories with rights of their own
    WithFiles,     \* those that have a file directly in them
    Launches,      \* calls of plugins, and preparations at their installation
    Profile,       \* the profile of a launch: what ProfileName makes of the plugin's id
    Reads,         \* sandboxReadPaths of a launch: a sequence of directories
    Installs,      \* the launches that only prepare
    Networked,     \* the launches that ask for the network
    NetCalls       \* calls on Linux of plugins that ask for the network

VARIABLES
    probes,        \* the verdicts of winProbeOnce and netProbeOnce
    launchAt,      \* where a launch is
    nextRead,      \* the directory it is at
    oldAcl,        \* what it read of that directory
    acl,           \* the profiles granted in the list of each directory
    below,         \* the profiles its files have inherited
    spreading,     \* directories whose files are still to be reached
    disturbed,     \* directories with a grant that was cut off or met another
    net            \* calls on Linux: the caller, the namespace, slirp, the gate

windowsVars == <<probes, launchAt, nextRead, oldAcl, acl, below, spreading, disturbed>>
isolationVars == <<windowsVars, net>>

ASSUME IsolationAssumption ==
    /\ WithFiles \subseteq Dirs /\ Installs \subseteq Launches /\ Networked \subseteq Launches
    /\ \A l \in Launches : Reads[l] \in Seq(Dirs) /\ Reads[l] # <<>>

Granted(l) == Reads[l][nextRead[l]]
Granting(l, d) == launchAt[l] \in {"merge", "waiting"} /\ Granted(l) = d

-----------------------------------------------------------------------------
(* Before the launcher                                                     *)

\* sync.Once: whoever comes first probes, and its verdict stays.
Verdicts(probe) == IF probes[probe] = "unknown" THEN {"yes", "no"} ELSE {probes[probe]}

\* sandboxArgs: refused without an isolator, or without the network it asks for.
SandboxArgs(l) ==
    /\ launchAt[l] = "new" /\ l \notin Installs
    /\ \E usable \in Verdicts("isolator") :
          \/ /\ usable = "yes" /\ l \in Networked
             /\ \E works \in Verdicts("network") :
                   /\ probes' = [isolator |-> usable, network |-> works]
                   /\ launchAt' = [launchAt EXCEPT ![l] = IF works = "yes" THEN "profile" ELSE "refused"]
          \/ /\ usable = "no" \/ l \notin Networked
             /\ probes' = [probes EXCEPT !.isolator = usable]
             /\ launchAt' = [launchAt EXCEPT ![l] = IF usable = "yes" THEN "profile" ELSE "refused"]
    /\ UNCHANGED <<nextRead, oldAcl, acl, below, spreading, disturbed, net>>

\* PrepareSandbox asks no probe; its failure does not undo the installation.
PrepareSandbox(l) ==
    /\ launchAt[l] = "new" /\ l \in Installs
    /\ launchAt' = [launchAt EXCEPT ![l] = "profile"]
    /\ UNCHANGED <<probes, nextRead, oldAcl, acl, below, spreading, disturbed, net>>

-----------------------------------------------------------------------------
(* Grants                                                                  *)

\* profileSID: created or derived from its name.
ProfileSID(l) ==
    /\ launchAt[l] = "profile"
    /\ launchAt' \in {[launchAt EXCEPT ![l] = next] : next \in {"look", "refused"}}
    /\ UNCHANGED <<probes, nextRead, oldAcl, acl, below, spreading, disturbed, net>>

\* On to the next directory of Prepare or PrepareAccess.
NextRead(l) ==
    IF nextRead[l] < Len(Reads[l])
    THEN /\ launchAt' = [launchAt EXCEPT ![l] = "look"]
         /\ nextRead' = [nextRead EXCEPT ![l] = @ + 1]
    ELSE /\ launchAt' = [launchAt EXCEPT ![l] = IF l \in Installs THEN "over" ELSE "create"]
         /\ UNCHANGED nextRead

\* An entry for the profile is taken for a grant that has reached the files.
Grant(l) ==
    LET d == Granted(l) IN
    /\ launchAt[l] = "look"
    /\ oldAcl' = [oldAcl EXCEPT ![l] = acl[d]]
    /\ disturbed' = IF \E k \in Launches \ {l} : Granting(k, d) THEN disturbed \cup {d} ELSE disturbed
    /\ \/ Profile[l] \in acl[d] /\ NextRead(l)
       \/ /\ Profile[l] \notin acl[d]
          /\ launchAt' = [launchAt EXCEPT ![l] = "merge"]
          /\ UNCHANGED nextRead
    /\ UNCHANGED <<probes, acl, below, spreading, net>>

\* SetNamedSecurityInfo replaces the list by the one read before and the
\* new entry; the directory may be gone, or its list not ours to write.
SetSecurityInfo(l) ==
    LET d == Granted(l) IN
    /\ launchAt[l] = "merge"
    /\ \/ /\ acl' = [acl EXCEPT ![d] = oldAcl[l] \cup {Profile[l]}]
          /\ spreading' = spreading \cup {d}
          /\ launchAt' = [launchAt EXCEPT ![l] = "waiting"]
       \/ /\ launchAt' = [launchAt EXCEPT ![l] = "refused"]
          /\ UNCHANGED <<acl, spreading>>
    /\ UNCHANGED <<probes, nextRead, oldAcl, below, disturbed, net>>

Spread(d) ==
    /\ d \in spreading
    /\ below' = [below EXCEPT ![d] = acl[d]]
    /\ spreading' = spreading \ {d}
    /\ UNCHANGED <<probes, launchAt, nextRead, oldAcl, acl, disturbed, net>>

\* Mutant: the grant does not wait for the files.
WaitsForNothing(l) == TRUE

\* waitInheritance looks at the first file of the directory, if there is one.
Inherited(l) == Granted(l) \in WithFiles => Profile[l] \in below[Granted(l)]

WaitInheritance(l) ==
    /\ launchAt[l] = "waiting"
    /\ Inherited(l)
    /\ NextRead(l)
    /\ UNCHANGED <<probes, oldAcl, acl, below, spreading, disturbed, net>>

InheritanceTimeout(l) ==
    /\ launchAt[l] = "waiting"
    /\ ~Inherited(l)
    /\ launchAt' = [launchAt EXCEPT ![l] = "refused"]
    /\ disturbed' = disturbed \cup {Granted(l)}
    /\ UNCHANGED <<probes, nextRead, oldAcl, acl, below, spreading, net>>

-----------------------------------------------------------------------------
(* The process                                                             *)

CreateProcess(l) ==
    /\ launchAt[l] = "create"
    /\ launchAt' \in {[launchAt EXCEPT ![l] = next] : next \in {"running", "refused"}}
    /\ UNCHANGED <<probes, nextRead, oldAcl, acl, below, spreading, disturbed, net>>

ProcessEnds(l) ==
    /\ launchAt[l] = "running"
    /\ launchAt' = [launchAt EXCEPT ![l] = "over"]
    /\ UNCHANGED <<probes, nextRead, oldAcl, acl, below, spreading, disturbed, net>>

\* The step's deadline runs while rights are granted: the job object takes
\* the launcher with it, and with it may go the spreading of its grant.
LauncherKilled(l) ==
    /\ launchAt[l] \in {"look", "merge", "waiting", "create", "running"}
    /\ launchAt' = [launchAt EXCEPT ![l] = "over"]
    /\ IF launchAt[l] = "waiting"
       THEN /\ spreading' \in {spreading, spreading \ {Granted(l)}}
            /\ disturbed' = disturbed \cup {Granted(l)}
       ELSE UNCHANGED <<spreading, disturbed>>
    /\ UNCHANGED <<probes, nextRead, oldAcl, acl, below, net>>

-----------------------------------------------------------------------------
(* Linux: bwrap, slirp4netns and the gate file                             *)

Linux(c, next) == net' = [net EXCEPT ![c] = next] /\ UNCHANGED windowsVars

Refused(n) == [n EXCEPT !.caller = "refused", !.slirp = FALSE, !.tap = FALSE]

\* sandboxNetworkFor and the start of bwrap, whose child gets a namespace later.
StartBwrap(c) ==
    /\ net[c].caller = "new"
    /\ \/ Linux(c, [net[c] EXCEPT !.caller = "looking", !.shell = "starting"])
       \/ Linux(c, Refused(net[c]))

EnterNamespace(c) ==
    /\ net[c].shell = "starting"
    /\ Linux(c, [net[c] EXCEPT !.shell = "waiting"])

\* waitNetnsPID, then slirp4netns is started.
AttachSlirp(c) ==
    /\ net[c].caller = "looking"
    /\ \/ net[c].shell = "waiting" /\ Linux(c, [net[c] EXCEPT !.caller = "attaching", !.slirp = TRUE])
       \/ Linux(c, Refused(net[c]))

TapAppears(c) ==
    /\ net[c].slirp /\ ~net[c].tap
    /\ Linux(c, [net[c] EXCEPT !.tap = TRUE])

\* waitTapReady, then the gate file is written; a failure stops slirp4netns.
OpenNetGate(c) ==
    /\ net[c].caller = "attaching"
    /\ \/ net[c].tap /\ Linux(c, [net[c] EXCEPT !.caller = "attached", !.gate = TRUE])
       \/ Linux(c, Refused(net[c]))

\* netGateScript polls for the gate file and then becomes the plugin.
PassNetGate(c) ==
    /\ net[c].shell = "waiting" /\ net[c].gate
    /\ Linux(c, [net[c] EXCEPT !.shell = "plugin"])

\* execPluginEnv kills bwrap after a refusal, and with it its child.
KillBwrap(c) ==
    /\ net[c].caller = "refused" /\ net[c].shell \in {"starting", "waiting"}
    /\ Linux(c, [net[c] EXCEPT !.shell = "gone"])

\* The plugin ends, or the deadline kills its group, also while its network
\* is being attached; then attach's release runs.
PluginGone(c) ==
    /\ net[c].caller # "refused" /\ net[c].shell \in {"starting", "waiting", "plugin"}
    /\ Linux(c, [net[c] EXCEPT !.shell = "gone"])

ReleaseNetwork(c) ==
    /\ net[c].caller = "attached" /\ net[c].shell = "gone"
    /\ Linux(c, [net[c] EXCEPT !.caller = "over", !.slirp = FALSE, !.tap = FALSE])

-----------------------------------------------------------------------------
IsolationInit ==
    /\ probes = [isolator |-> "unknown", network |-> "unknown"]
    /\ launchAt = [l \in Launches |-> "new"]
    /\ nextRead = [l \in Launches |-> 1]
    /\ oldAcl = [l \in Launches |-> {}]
    /\ acl = [d \in Dirs |-> {}]
    /\ below = [d \in Dirs |-> {}]
    /\ spreading = {}
    /\ disturbed = {}
    /\ net = [c \in NetCalls |-> [caller |-> "new", shell |-> "none", slirp |-> FALSE,
                                  tap |-> FALSE, gate |-> FALSE]]

WindowsNext ==
    \/ \E l \in Launches :
          \/ SandboxArgs(l) \/ PrepareSandbox(l) \/ ProfileSID(l) \/ Grant(l) \/ SetSecurityInfo(l)
          \/ WaitInheritance(l) \/ InheritanceTimeout(l)
          \/ CreateProcess(l) \/ ProcessEnds(l) \/ LauncherKilled(l)
    \/ \E d \in Dirs : Spread(d)

LinuxNext ==
    \E c \in NetCalls :
       \/ StartBwrap(c) \/ EnterNamespace(c) \/ AttachSlirp(c) \/ TapAppears(c) \/ OpenNetGate(c)
       \/ PassNetGate(c) \/ KillBwrap(c) \/ PluginGone(c) \/ ReleaseNetwork(c)

IsolationSpec == IsolationInit /\ [][WindowsNext \/ LinuxNext]_isolationVars

-----------------------------------------------------------------------------
\* Type correctness.
IsolationTypeOK ==
    /\ \A l \in Launches : nextRead[l] \in 1 .. Len(Reads[l])
    /\ \A d \in Dirs : acl[d] \cup below[d] \subseteq {Profile[l] : l \in Launches}
    /\ spreading \cup disturbed \subseteq Dirs
    /\ \A c \in NetCalls : net[c].tap => net[c].slirp

\* A plugin's own code starts with what it was promised. On Windows it can
\* read all its directories, unless a grant of one was cut off by a deadline
\* or overlapped with another: an entry left behind by such a grant is
\* believed from then on (appcontainer_windows.go:195-197, 224). On Linux its
\* network is up, and slirp4netns is stopped with it (sandbox_linux.go:117-150).
IsolatedCodeIsReady ==
    /\ \A l \in Launches : launchAt[l] = "running" =>
          \A i \in 1 .. Len(Reads[l]) :
             \/ Reads[l][i] \in disturbed \cup (Dirs \ WithFiles)
             \/ Profile[l] \in below[Reads[l][i]]
    /\ \A c \in NetCalls : /\ net[c].shell = "plugin" => net[c].tap
                           /\ net[c].caller \in {"refused", "over"} => ~net[c].slirp
=============================================================================
