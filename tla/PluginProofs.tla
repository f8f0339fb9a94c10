----------------------------- MODULE PluginProofs -----------------------------
(***************************************************************************)
(* Proofs about one plugin and what holds it back, for any number of calls *)
(* and requests: the verdict on a call that somebody may have killed       *)
(* (PluginProcess), the filter of its network (EgressFilter), the isolator *)
(* it is put into (Isolation); and what validation promises, of a port     *)
(* (Contracts) and of gates and the order of steps (PipelineChecks).       *)
(***************************************************************************)
EXTENDS PluginProcess, EgressFilter, Isolation, Contracts, PipelineChecks, FiniteSetTheorems, TLAPS

-----------------------------------------------------------------------------
(* EgressFilter                                                            *)

\* A request gets past the first answer only when it is admitted, and to a
\* connection only with an address that was checked.
RequestsArePassed ==
    \A a \in Asks :
        /\ step[a] \notin {"new", "refused"} => Admitted(a)
        /\ step[a] \in {"hijack", "dial", "reply", "relay", "half"} => checked[a] = "public"
        /\ dialled[a] # "none" => dialled[a] = "public" /\ Admitted(a)

\* What stop has found is all there is to close, and what comes later is
\* closed at once.
StopFindsAll ==
    /\ filter = "closing" => tracked \subseteq doomed \cup shut
    /\ filter = "stopped" => tracked \subseteq shut

EgressInv == EgressTypeOK /\ RequestsArePassed /\ StopFindsAll

\* A filter starts without requests.
LEMMA EgressStart == EgressInit => EgressInv
<1> SUFFICES ASSUME EgressInit PROVE EgressInv
  OBVIOUS
<1>1. EgressTypeOK
  BY DEF EgressInit, EgressTypeOK, Kinds, Steps
<1> QED
  BY <1>1 DEF EgressInit, EgressInv, RequestsArePassed, StopFindsAll

\* Steps that leave the connections alone: the question and the name.
LEMMA EgressAsks ==
    ASSUME EgressInv, NEW a \in Asks, AskFilter(a) \/ ResolveChecked(a)
    PROVE  EgressInv'
<1>1. EgressTypeOK /\ RequestsArePassed /\ StopFindsAll
  BY DEF EgressInv
<1>2. UNCHANGED <<dns, answers, filter, doomed, dialled, tracked, shut>>
  BY DEF AskFilter, ResolveChecked
<1>3. CASE AskFilter(a)
  BY <1>1, <1>2, <1>3 DEF AskFilter, StepFrom, EgressInv, EgressTypeOK, RequestsArePassed, StopFindsAll, Steps
<1>4. CASE StepFrom(a, "resolve", "refused") /\ UNCHANGED checked
  BY <1>1, <1>2, <1>4 DEF StepFrom, EgressInv, EgressTypeOK, RequestsArePassed, StopFindsAll, Steps
<1>5. ASSUME NEW address \in dns[a.host],
             \A other \in dns[a.host] : ~DenyNetwork(other),
             StepFrom(a, "resolve", IF a.connect THEN "hijack" ELSE "dial"),
             checked' = [checked EXCEPT ![a] = address]
      PROVE  EgressInv'
  <2>1. address = "public"
    BY <1>5 DEF DenyNetwork
  <2> QED
    BY <1>1, <1>2, <1>5, <2>1 DEF StepFrom, EgressInv, EgressTypeOK, RequestsArePassed, StopFindsAll, Steps, Kinds
<1> QED
  BY <1>3, <1>4, <1>5 DEF ResolveChecked

\* Steps that make, track or close connections.
LEMMA EgressConnects ==
    ASSUME EgressInv, NEW a \in Asks,
           HijackClient(a) \/ Dial(a) \/ Reply(a) \/ RelayReturns(a) \/ RelayDeadline(a)
    PROVE  EgressInv'
<1> DEFINE AllEnds == UNION {Ends(b) : b \in Asks}
<1>1. EgressTypeOK /\ RequestsArePassed /\ StopFindsAll
  BY DEF EgressInv
<1>2. UNCHANGED <<dns, answers, filter, doomed, checked>>
  BY DEF HijackClient, Dial, Reply, RelayReturns, RelayDeadline
<1>3. \E to \in {"dial", "over", "reply", "relay", "half"} :
          /\ step[a] \in {"hijack", "dial", "reply", "relay", "half"}
          /\ step' = [step EXCEPT ![a] = to]
  BY DEF HijackClient, Dial, Reply, RelayReturns, RelayDeadline, StepFrom
<1>4. UNCHANGED dialled \/ dialled' = [dialled EXCEPT ![a] = checked[a]]
  BY DEF HijackClient, Dial, Reply, RelayReturns, RelayDeadline, DialTarget
<1>5. <<a, "client">> \in AllEnds /\ <<a, "upstream">> \in AllEnds
  BY DEF Ends
<1>6. /\ shut \subseteq shut'
      /\ tracked' \subseteq tracked \cup AllEnds
      /\ filter # "open" => tracked' \subseteq tracked
  <2>1. CASE HijackClient(a)
    BY <1>5, <2>1 DEF HijackClient, Track
  <2>2. CASE Dial(a)
    BY <1>5, <2>2 DEF Dial, Track
  <2>3. CASE Reply(a)
    BY <2>3 DEF Reply
  <2>4. CASE RelayReturns(a) \/ RelayDeadline(a)
    BY <2>4 DEF RelayReturns, RelayDeadline
  <2> QED
    BY <2>1, <2>2, <2>3, <2>4
<1>7. EgressTypeOK'
  BY <1>1, <1>2, <1>3, <1>4, <1>6 DEF EgressTypeOK, Steps
<1>8. StopFindsAll'
  BY <1>1, <1>2, <1>6 DEF StopFindsAll
<1>9. RequestsArePassed'
  <2>1. step[a] \in {"hijack", "dial", "reply", "relay", "half"} => Admitted(a) /\ checked[a] = "public"
    BY <1>1 DEF RequestsArePassed
  <2> QED
    BY <1>1, <1>2, <1>3, <1>4, <2>1 DEF RequestsArePassed, EgressTypeOK
<1> QED
  BY <1>7, <1>8, <1>9 DEF EgressInv

\* The filter stops, and the name server changes its mind.
LEMMA EgressWorld ==
    ASSUME EgressInv,
           StopFilter \/ CloseDoomed \/ (\E h \in HostNames : NameChanges(h)) \/ UNCHANGED egressVars
    PROVE  EgressInv'
<1>1. UNCHANGED <<step, checked, dialled, tracked>>
  BY DEF StopFilter, CloseDoomed, NameChanges, egressVars
<1>2. RequestsArePassed'
  BY <1>1 DEF EgressInv, RequestsArePassed
<1>3. StopFindsAll'
  BY <1>1 DEF StopFilter, CloseDoomed, NameChanges, egressVars, EgressInv, StopFindsAll
<1>4. dns' \in [HostNames -> SUBSET Kinds] /\ filter' \in {"open", "closing", "stopped"}
  <2>1. dns' = dns \/ \E h \in HostNames, some \in SUBSET Kinds : dns' = [dns EXCEPT ![h] = some]
    BY DEF StopFilter, CloseDoomed, NameChanges, egressVars, Kinds
  <2> QED
    BY <2>1 DEF StopFilter, CloseDoomed, NameChanges, egressVars, EgressInv, EgressTypeOK
<1> QED
  BY <1>1, <1>2, <1>3, <1>4 DEF EgressInv, EgressTypeOK

\* The invariant of the filter.
THEOREM EgressInvariant == EgressSpec => []EgressInv
<1>1. EgressInit => EgressInv
  BY EgressStart
<1>2. EgressInv /\ [EgressNext]_egressVars => EgressInv'
  BY EgressAsks, EgressConnects, EgressWorld DEF EgressNext
<1> QED
  BY <1>1, <1>2, PTL DEF EgressSpec

\* Whatever the name server answers after the check, only addresses that are
\* not denied are dialled, for hosts that are listed, and a filter that has
\* stopped leaves no tracked connection open (egress.go).
THEOREM FilterHolds == EgressSpec => []NothingSlipsThrough
<1>1. EgressInv => NothingSlipsThrough
  BY DEF EgressInv, RequestsArePassed, StopFindsAll, NothingSlipsThrough, DenyNetwork
<1> QED
  BY <1>1, EgressInvariant, PTL

-----------------------------------------------------------------------------
(* Isolation on Linux                                                      *)

NetRecords ==
    [caller : {"new", "looking", "attaching", "attached", "refused", "over"},
     shell : {"none", "starting", "waiting", "plugin", "gone"},
     slirp : BOOLEAN, tap : BOOLEAN, gate : BOOLEAN]

\* The gate is open only while the network of the caller is up; who has been
\* refused, or is done, has none.
SoundNet(n) ==
    /\ n.caller = "new" => n.shell = "none"
    /\ n.caller \in {"new", "looking", "refused", "over"} => ~n.slirp /\ ~n.tap
    /\ n.caller \in {"new", "looking", "attaching", "refused"} => ~n.gate
    /\ n.caller = "attached" => n.slirp /\ n.tap
    /\ n.caller = "over" => n.shell = "gone"
    /\ n.tap => n.slirp
    /\ n.shell = "plugin" => n.gate

NetIsSound == net \in [NetCalls -> NetRecords] /\ \A c \in NetCalls : SoundNet(net[c])

\* A step of the Linux launcher keeps its invariant and has none on Windows.
LEMMA LinuxKeeps ==
    ASSUME NetIsSound, LinuxNext
    PROVE  NetIsSound' /\ UNCHANGED windowsVars
<1>1. PICK c \in NetCalls :
          \/ StartBwrap(c) \/ EnterNamespace(c) \/ AttachSlirp(c) \/ TapAppears(c) \/ OpenNetGate(c)
          \/ PassNetGate(c) \/ KillBwrap(c) \/ PluginGone(c) \/ ReleaseNetwork(c)
  BY DEF LinuxNext
<1>2. net[c] \in NetRecords /\ SoundNet(net[c])
  BY DEF NetIsSound
<1>3. \E n \in NetRecords : SoundNet(n) /\ Linux(c, n)
  <2>1. CASE StartBwrap(c)
    BY <1>2, <2>1 DEF StartBwrap, Refused, NetRecords, SoundNet
  <2>2. CASE EnterNamespace(c)
    BY <1>2, <2>2 DEF EnterNamespace, NetRecords, SoundNet
  <2>3. CASE AttachSlirp(c)
    BY <1>2, <2>3 DEF AttachSlirp, Refused, NetRecords, SoundNet
  <2>4. CASE TapAppears(c)
    BY <1>2, <2>4 DEF TapAppears, NetRecords, SoundNet
  <2>5. CASE OpenNetGate(c)
    BY <1>2, <2>5 DEF OpenNetGate, Refused, NetRecords, SoundNet
  <2>6. CASE PassNetGate(c)
    BY <1>2, <2>6 DEF PassNetGate, NetRecords, SoundNet
  <2>7. CASE KillBwrap(c) \/ PluginGone(c)
    BY <1>2, <2>7 DEF KillBwrap, PluginGone, NetRecords, SoundNet
  <2>8. CASE ReleaseNetwork(c)
    BY <1>2, <2>8 DEF ReleaseNetwork, NetRecords, SoundNet
  <2> QED
    BY <1>1, <2>1, <2>2, <2>3, <2>4, <2>5, <2>6, <2>7, <2>8
<1> QED
  BY <1>3 DEF Linux, NetIsSound

-----------------------------------------------------------------------------
(* Isolation on Windows                                                    *)

LaunchPlaces == {"new", "profile", "look", "merge", "waiting", "create", "running", "over", "refused"}
Profiles == {Profile[l] : l \in Launches}

LaunchesTyped ==
    /\ launchAt \in [Launches -> LaunchPlaces]
    /\ nextRead \in [Launches -> Nat] /\ \A l \in Launches : nextRead[l] \in 1 .. Len(Reads[l])
    /\ oldAcl \in [Launches -> SUBSET Profiles]
    /\ acl \in [Dirs -> SUBSET Profiles] /\ below \in [Dirs -> SUBSET Profiles]
    /\ spreading \subseteq Dirs /\ disturbed \subseteq Dirs

\* In a directory whose grants nothing has disturbed, one launch at most is
\* granting; it has read the list that is there; and an entry whose files are
\* not reached is that of a launch that waits for them.
GrantsAreApart ==
    \A d \in Dirs \ disturbed :
        /\ \A k, l \in Launches : Granting(k, d) /\ Granting(l, d) => k = l
        /\ \A l \in Launches : launchAt[l] = "merge" /\ Granted(l) = d => oldAcl[l] = acl[d]
        /\ below[d] \subseteq acl[d]
        /\ d \in WithFiles => \A p \in acl[d] \ below[d] :
              \E l \in Launches : launchAt[l] = "waiting" /\ Granted(l) = d /\ Profile[l] = p

\* The files of a directory can be read, or it has none, or its grants were
\* disturbed.
Readable(p, d) == d \in disturbed \cup (Dirs \ WithFiles) \/ p \in below[d]

\* A launch has got what it has passed.
PassedIsReadable ==
    \A l \in Launches :
        /\ launchAt[l] \in {"look", "merge", "waiting"} =>
              \A i \in 1 .. Len(Reads[l]) : i < nextRead[l] => Readable(Profile[l], Reads[l][i])
        /\ launchAt[l] \in {"create", "running"} =>
              \A i \in 1 .. Len(Reads[l]) : Readable(Profile[l], Reads[l][i])
        /\ launchAt[l] \in {"new", "profile"} => nextRead[l] = 1

WindowsInv == LaunchesTyped /\ GrantsAreApart /\ PassedIsReadable

\* The directory a launch is at, and all it reads, are directories.
LEMMA LaunchFacts ==
    ASSUME LaunchesTyped
    PROVE  \A l \in Launches : /\ Len(Reads[l]) \in Nat /\ nextRead[l] \in 1 .. Len(Reads[l])
                               /\ Granted(l) \in Dirs
                               /\ \A i \in 1 .. Len(Reads[l]) : Reads[l][i] \in Dirs
                               /\ Profile[l] \in Profiles
<1>1. ASSUME NEW l \in Launches
      PROVE  Len(Reads[l]) \in Nat /\ \A i \in 1 .. Len(Reads[l]) : Reads[l][i] \in Dirs
  <2>1. Reads[l] \in Seq(Dirs)
    BY IsolationAssumption
  <2> QED
    BY <2>1
<1> QED
  BY <1>1 DEF LaunchesTyped, Granted, Profiles

\* At the start nothing is granted and nothing launched.
LEMMA WindowsStart == IsolationInit => WindowsInv /\ NetIsSound
<1> SUFFICES ASSUME IsolationInit PROVE WindowsInv /\ NetIsSound
  OBVIOUS
<1>1. \A l \in Launches : 1 \in 1 .. Len(Reads[l])
  <2>1. \A l \in Launches : Reads[l] \in Seq(Dirs) /\ Reads[l] # <<>>
    BY IsolationAssumption
  <2> QED
    BY <2>1
<1>2. LaunchesTyped
  BY <1>1 DEF IsolationInit, LaunchesTyped, LaunchPlaces
<1>3. GrantsAreApart /\ PassedIsReadable
  BY DEF IsolationInit, GrantsAreApart, PassedIsReadable, Granting
<1>4. NetIsSound
  BY DEF IsolationInit, NetIsSound, NetRecords, SoundNet
<1> QED
  BY <1>2, <1>3, <1>4 DEF WindowsInv

\* A launch that moves on without a list being written.
LEMMA LaunchMoves ==
    ASSUME WindowsInv, NEW l \in Launches, NEW to \in LaunchPlaces \ {"merge", "waiting"},
           NEW dir \in Dirs, dir = Granted(l),
           launchAt' = [launchAt EXCEPT ![l] = to],
           UNCHANGED <<acl, below>>,
           \* what it read of a list is of no use to it any more
           oldAcl' \in [Launches -> SUBSET Profiles], \A k \in Launches \ {l} : oldAcl'[k] = oldAcl[k],
           disturbed \subseteq disturbed', disturbed' \subseteq Dirs, spreading' \subseteq Dirs,
           \* nothing is left behind of a grant that was not finished
           launchAt[l] = "waiting" => Readable(Profile[l], dir)',
           \* the launch goes on in order
           \/ /\ UNCHANGED nextRead
              /\ \/ to \in {"over", "refused"}
                 \/ to = "profile" /\ launchAt[l] = "new"
                 \/ to = "look" /\ launchAt[l] = "profile"
                 \/ to = "running" /\ launchAt[l] = "create"
                 \/ to = "create" /\ launchAt[l] \in {"look", "waiting"} /\ nextRead[l] = Len(Reads[l])
                       /\ Readable(Profile[l], dir)'
           \/ /\ nextRead' = [nextRead EXCEPT ![l] = @ + 1] /\ nextRead[l] < Len(Reads[l])
              /\ to = "look" /\ launchAt[l] \in {"look", "waiting"}
              /\ Readable(Profile[l], dir)'
    PROVE  WindowsInv'
<1>1. LaunchesTyped /\ GrantsAreApart /\ PassedIsReadable
  BY DEF WindowsInv
<1>2. /\ \A k \in Launches \ {l} : /\ launchAt'[k] = launchAt[k] /\ nextRead'[k] = nextRead[k]
                                   /\ Granted(k)' = Granted(k)
      /\ launchAt'[l] = to
      /\ launchAt' \in [Launches -> LaunchPlaces] /\ nextRead' \in [Launches -> Nat]
  <2>1. /\ \A k \in Launches \ {l} : nextRead'[k] = nextRead[k]
        /\ nextRead' \in [Launches -> Nat]
    <3>1. CASE UNCHANGED nextRead
      BY <1>1, <3>1 DEF LaunchesTyped
    <3>2. CASE nextRead' = [nextRead EXCEPT ![l] = @ + 1]
      BY <1>1, <3>2 DEF LaunchesTyped
    <3> QED
      BY <3>1, <3>2
  <2>2. /\ \A k \in Launches \ {l} : launchAt'[k] = launchAt[k]
        /\ launchAt'[l] = to /\ launchAt' \in [Launches -> LaunchPlaces]
    BY <1>1 DEF LaunchesTyped
  <2> QED
    BY <2>1, <2>2 DEF Granted
<1>3. LaunchesTyped'
  <2>1. \A k \in Launches : nextRead'[k] \in 1 .. Len(Reads[k])
    BY <1>1, <1>2, LaunchFacts DEF LaunchesTyped
  <2> QED
    BY <1>1, <1>2, <2>1 DEF LaunchesTyped
<1>4. GrantsAreApart'
  <2> SUFFICES ASSUME NEW d \in Dirs \ disturbed'
               PROVE  /\ \A k, m \in Launches : Granting(k, d)' /\ Granting(m, d)' => k = m
                      /\ \A k \in Launches : launchAt'[k] = "merge" /\ Granted(k)' = d => oldAcl'[k] = acl'[d]
                      /\ below'[d] \subseteq acl'[d]
                      /\ d \in WithFiles => \A p \in acl'[d] \ below'[d] :
                            \E k \in Launches : launchAt'[k] = "waiting" /\ Granted(k)' = d /\ Profile[k] = p
    BY DEF GrantsAreApart
  <2>1. /\ \A k, m \in Launches : Granting(k, d) /\ Granting(m, d) => k = m
        /\ \A k \in Launches : launchAt[k] = "merge" /\ Granted(k) = d => oldAcl[k] = acl[d]
        /\ below[d] \subseteq acl[d]
        /\ d \in WithFiles => \A p \in acl[d] \ below[d] :
              \E k \in Launches : launchAt[k] = "waiting" /\ Granted(k) = d /\ Profile[k] = p
    BY <1>1 DEF GrantsAreApart
  <2>2. \A k \in Launches : Granting(k, d)' => k # l /\ Granting(k, d)
    BY <1>2 DEF Granting
  <2>3. ASSUME d \in WithFiles, NEW p \in acl[d] \ below[d]
        PROVE  \E k \in Launches : launchAt'[k] = "waiting" /\ Granted(k)' = d /\ Profile[k] = p
    <3>1. PICK k \in Launches : launchAt[k] = "waiting" /\ Granted(k) = d /\ Profile[k] = p
      BY <2>1, <2>3
    <3>2. k # l
      BY <2>3, <3>1 DEF Readable
    <3> QED
      BY <1>2, <3>1, <3>2
  <2> QED
    BY <1>2, <2>1, <2>2, <2>3
<1>5. PassedIsReadable'
  <2>1. \A d \in Dirs, p \in Profiles : Readable(p, d) => Readable(p, d)'
    BY DEF Readable
  <2>2. ASSUME NEW k \in Launches \ {l}
        PROVE  /\ launchAt'[k] \in {"look", "merge", "waiting"} =>
                    \A i \in 1 .. Len(Reads[k]) : i < nextRead'[k] => Readable(Profile[k], Reads[k][i])'
               /\ launchAt'[k] \in {"create", "running"} =>
                    \A i \in 1 .. Len(Reads[k]) : Readable(Profile[k], Reads[k][i])'
               /\ launchAt'[k] \in {"new", "profile"} => nextRead'[k] = 1
    BY <1>1, <1>2, <2>1, LaunchFacts DEF PassedIsReadable
  <2>3. /\ launchAt'[l] \in {"look", "merge", "waiting"} =>
             \A i \in 1 .. Len(Reads[l]) : i < nextRead'[l] => Readable(Profile[l], Reads[l][i])'
        /\ launchAt'[l] \in {"create", "running"} =>
             \A i \in 1 .. Len(Reads[l]) : Readable(Profile[l], Reads[l][i])'
        /\ launchAt'[l] \in {"new", "profile"} => nextRead'[l] = 1
    <3>1. CASE to \in {"over", "refused"}
      BY <1>2, <3>1
    <3>2. CASE to = "profile" \/ (to = "look" /\ launchAt[l] = "profile")
      BY <1>1, <1>2, <3>2 DEF PassedIsReadable
    <3>3. CASE to = "running"
      BY <1>1, <1>2, <2>1, <3>3, LaunchFacts DEF PassedIsReadable
    <3>4. CASE to = "create"
      <4>1. \A i \in 1 .. Len(Reads[l]) : i < nextRead[l] => Readable(Profile[l], Reads[l][i])'
        BY <1>1, <2>1, <3>4, LaunchFacts DEF PassedIsReadable
      <4>2. Readable(Profile[l], dir)' /\ nextRead[l] = Len(Reads[l]) /\ dir = Reads[l][nextRead[l]]
        BY <3>4 DEF Granted
      <4> QED
        BY <1>1, <1>2, <3>4, <4>1, <4>2, LaunchFacts
    <3>5. CASE to = "look" /\ launchAt[l] # "profile"
      <4>1. \A i \in 1 .. Len(Reads[l]) : i < nextRead[l] => Readable(Profile[l], Reads[l][i])'
        BY <1>1, <2>1, <3>5, LaunchFacts DEF PassedIsReadable
      <4>2. nextRead'[l] = nextRead[l] + 1 /\ dir = Reads[l][nextRead[l]] /\ Readable(Profile[l], dir)'
        BY <1>1, <3>5 DEF LaunchesTyped, Granted
      <4> QED
        BY <1>1, <1>2, <3>5, <4>1, <4>2, LaunchFacts
    <3> QED
      BY <3>1, <3>2, <3>3, <3>4, <3>5
  <2> QED
    BY <2>2, <2>3 DEF PassedIsReadable
<1> QED
  BY <1>3, <1>4, <1>5 DEF WindowsInv

\* Steps before the grants and after them, and a grant that comes to nothing.
LEMMA LaunchEdges ==
    ASSUME WindowsInv, NEW l \in Launches,
           \/ SandboxArgs(l) \/ PrepareSandbox(l) \/ ProfileSID(l) \/ CreateProcess(l) \/ ProcessEnds(l)
           \/ InheritanceTimeout(l) \/ LauncherKilled(l)
    PROVE  WindowsInv' /\ UNCHANGED net
<1>1. LaunchesTyped /\ Granted(l) \in Dirs
  BY LaunchFacts DEF WindowsInv
<1>2. PICK dir \in Dirs : dir = Granted(l)
  BY <1>1
<1>3. /\ UNCHANGED <<nextRead, oldAcl, acl, below, net>>
      /\ disturbed \subseteq disturbed' /\ disturbed' \subseteq Dirs /\ spreading' \subseteq Dirs
  BY <1>1 DEF SandboxArgs, PrepareSandbox, ProfileSID, CreateProcess, ProcessEnds, InheritanceTimeout,
              LauncherKilled, LaunchesTyped
<1>4. launchAt[l] = "waiting" => dir \in disturbed'
  BY <1>2 DEF SandboxArgs, PrepareSandbox, ProfileSID, CreateProcess, ProcessEnds, InheritanceTimeout,
              LauncherKilled
<1>5. \E to \in {"over", "refused", "profile", "look", "running"} :
          /\ launchAt' = [launchAt EXCEPT ![l] = to]
          /\ \/ to \in {"over", "refused"}
             \/ to = "profile" /\ launchAt[l] = "new"
             \/ to = "look" /\ launchAt[l] = "profile"
             \/ to = "running" /\ launchAt[l] = "create"
  <2>1. CASE SandboxArgs(l)
    <3>1. /\ launchAt[l] = "new"
          /\ \/ launchAt' = [launchAt EXCEPT ![l] = "profile"]
             \/ launchAt' = [launchAt EXCEPT ![l] = "refused"]
      BY <2>1 DEF SandboxArgs
    <3> QED
      BY <3>1
  <2>2. CASE ~SandboxArgs(l)
    BY <2>2 DEF PrepareSandbox, ProfileSID, CreateProcess, ProcessEnds, InheritanceTimeout, LauncherKilled
  <2> QED
    BY <2>1, <2>2
<1>6. PICK to \in {"over", "refused", "profile", "look", "running"} :
          /\ launchAt' = [launchAt EXCEPT ![l] = to]
          /\ \/ to \in {"over", "refused"}
             \/ to = "profile" /\ launchAt[l] = "new"
             \/ to = "look" /\ launchAt[l] = "profile"
             \/ to = "running" /\ launchAt[l] = "create"
  BY <1>5
<1>7. to \in LaunchPlaces \ {"merge", "waiting"}
  BY DEF LaunchPlaces
<1>8. launchAt[l] = "waiting" => Readable(Profile[l], dir)'
  BY <1>4 DEF Readable
<1>9. oldAcl' \in [Launches -> SUBSET Profiles] /\ \A k \in Launches \ {l} : oldAcl'[k] = oldAcl[k]
  BY <1>1, <1>3 DEF LaunchesTyped
<1> QED
  BY <1>2, <1>3, <1>6, <1>7, <1>8, <1>9, LaunchMoves

\* A launch that is through with a directory goes on to the next.
LEMMA NextReadKeeps ==
    ASSUME WindowsInv, NEW l \in Launches, NextRead(l), launchAt[l] \in {"look", "waiting"},
           NEW dir \in Dirs, dir = Granted(l), Readable(Profile[l], dir)',
           UNCHANGED <<acl, below, spreading>>,
           oldAcl' \in [Launches -> SUBSET Profiles], \A k \in Launches \ {l} : oldAcl'[k] = oldAcl[k],
           disturbed \subseteq disturbed', disturbed' \subseteq Dirs
    PROVE  WindowsInv'
<1>1. spreading' \subseteq Dirs
  BY DEF WindowsInv, LaunchesTyped
<1>2. nextRead[l] \in 1 .. Len(Reads[l]) /\ Len(Reads[l]) \in Nat
  BY LaunchFacts DEF WindowsInv
<1>3. PICK to \in {"look", "over", "create"} :
          /\ launchAt' = [launchAt EXCEPT ![l] = to]
          /\ \/ to = "look" /\ nextRead[l] < Len(Reads[l]) /\ nextRead' = [nextRead EXCEPT ![l] = @ + 1]
             \/ to \in {"over", "create"} /\ ~(nextRead[l] < Len(Reads[l])) /\ UNCHANGED nextRead
  BY DEF NextRead
<1>4. to \in LaunchPlaces \ {"merge", "waiting"}
  BY DEF LaunchPlaces
<1>5. CASE to = "look"
  BY <1>1, <1>3, <1>4, <1>5, LaunchMoves
<1>6. CASE to \in {"over", "create"}
  <2>1. nextRead[l] = Len(Reads[l])
    BY <1>2, <1>3, <1>6
  <2> QED
    BY <1>1, <1>3, <1>4, <1>6, <2>1, LaunchMoves
<1> QED
  BY <1>5, <1>6

\* Who finds its profile in a list that nobody is changing finds it below.
LEMMA GrantKeeps ==
    ASSUME WindowsInv, NEW l \in Launches, Grant(l)
    PROVE  WindowsInv' /\ UNCHANGED net
<1>1. /\ LaunchesTyped /\ GrantsAreApart /\ PassedIsReadable
      /\ Granted(l) \in Dirs
  BY LaunchFacts DEF WindowsInv
<1>2. PICK dir \in Dirs : dir = Granted(l)
  BY <1>1
<1>3. /\ launchAt[l] = "look" /\ oldAcl' = [oldAcl EXCEPT ![l] = acl[dir]]
      /\ disturbed' = IF \E k \in Launches \ {l} : Granting(k, dir) THEN disturbed \cup {dir} ELSE disturbed
      /\ UNCHANGED <<acl, below, spreading, net>>
  BY <1>2 DEF Grant
<1>4. disturbed \subseteq disturbed' /\ disturbed' \subseteq Dirs
  BY <1>1, <1>3 DEF LaunchesTyped
<1>5. oldAcl' \in [Launches -> SUBSET Profiles]
  BY <1>1, <1>3 DEF LaunchesTyped
<1>6. CASE Profile[l] \in acl[dir] /\ NextRead(l)
  <2>1. Readable(Profile[l], dir)'
    <3>1. CASE dir \in disturbed'
      BY <3>1 DEF Readable
    <3>2. CASE dir \notin disturbed'
      <4>1. dir \notin disturbed /\ \A k \in Launches : ~Granting(k, dir)
        BY <1>3, <3>2 DEF Granting
      <4> QED
        BY <1>1, <1>3, <1>6, <4>1 DEF GrantsAreApart, Granting, Readable
    <3> QED
      BY <3>1, <3>2
  <2>2. \A k \in Launches \ {l} : oldAcl'[k] = oldAcl[k]
    BY <1>1, <1>3 DEF LaunchesTyped
  <2> QED
    BY <1>2, <1>3, <1>4, <1>5, <1>6, <2>1, <2>2, NextReadKeeps
<1>7. CASE /\ Profile[l] \notin acl[dir]
           /\ launchAt' = [launchAt EXCEPT ![l] = "merge"] /\ UNCHANGED nextRead
  <2>1. /\ \A k \in Launches : Granted(k)' = Granted(k)
        /\ \A k \in Launches \ {l} : launchAt'[k] = launchAt[k] /\ oldAcl'[k] = oldAcl[k]
        /\ launchAt'[l] = "merge" /\ oldAcl'[l] = acl[dir]
    BY <1>1, <1>3, <1>7 DEF Granted, LaunchesTyped
  <2>2. LaunchesTyped'
    BY <1>1, <1>3, <1>4, <1>5, <1>7 DEF LaunchesTyped, LaunchPlaces
  <2>3. GrantsAreApart'
    <3> SUFFICES ASSUME NEW d \in Dirs \ disturbed'
                 PROVE  /\ \A k, m \in Launches : Granting(k, d)' /\ Granting(m, d)' => k = m
                        /\ \A k \in Launches : launchAt'[k] = "merge" /\ Granted(k)' = d => oldAcl'[k] = acl'[d]
                        /\ below'[d] \subseteq acl'[d]
                        /\ d \in WithFiles => \A p \in acl'[d] \ below'[d] :
                              \E k \in Launches : launchAt'[k] = "waiting" /\ Granted(k)' = d /\ Profile[k] = p
      BY DEF GrantsAreApart
    <3>1. d \notin disturbed
      BY <1>4
    <3>2. \A k, m \in Launches : Granting(k, d)' /\ Granting(m, d)' => k = m
      BY <1>1, <1>2, <1>3, <2>1, <3>1 DEF Granting, GrantsAreApart
    <3>3. \A k \in Launches : launchAt'[k] = "merge" /\ Granted(k)' = d => oldAcl'[k] = acl'[d]
      BY <1>1, <1>2, <1>3, <2>1, <3>1 DEF GrantsAreApart
    <3>4. d \in WithFiles => \A p \in acl'[d] \ below'[d] :
              \E k \in Launches : launchAt'[k] = "waiting" /\ Granted(k)' = d /\ Profile[k] = p
      BY <1>1, <1>3, <2>1, <3>1 DEF GrantsAreApart
    <3> QED
      BY <1>1, <1>3, <3>1, <3>2, <3>3, <3>4 DEF GrantsAreApart
  <2>4. PassedIsReadable'
    BY <1>1, <1>3, <1>4, <1>7, <2>1 DEF PassedIsReadable, Readable
  <2> QED
    BY <1>3, <2>2, <2>3, <2>4 DEF WindowsInv
<1> QED
  BY <1>2, <1>6, <1>7 DEF Grant

\* The list that is written is the one that is there and the new entry, unless
\* another launch has written in between.
LEMMA SetSecurityInfoKeeps ==
    ASSUME WindowsInv, NEW l \in Launches, SetSecurityInfo(l)
    PROVE  WindowsInv' /\ UNCHANGED net
<1>1. /\ LaunchesTyped /\ GrantsAreApart /\ PassedIsReadable
      /\ Granted(l) \in Dirs /\ Profile[l] \in Profiles
  BY LaunchFacts DEF WindowsInv
<1>2. PICK dir \in Dirs : dir = Granted(l)
  BY <1>1
<1>3. /\ launchAt[l] = "merge"
      /\ UNCHANGED <<nextRead, oldAcl, below, disturbed, net>>
  BY DEF SetSecurityInfo
<1>4. CASE launchAt' = [launchAt EXCEPT ![l] = "refused"] /\ UNCHANGED <<acl, spreading>>
  <2>1. /\ "refused" \in LaunchPlaces \ {"merge", "waiting"}
        /\ disturbed' \subseteq Dirs /\ spreading' \subseteq Dirs
        /\ oldAcl' \in [Launches -> SUBSET Profiles] /\ \A k \in Launches \ {l} : oldAcl'[k] = oldAcl[k]
    BY <1>1, <1>3, <1>4 DEF LaunchPlaces, LaunchesTyped
  <2> QED
    BY <1>2, <1>3, <1>4, <2>1, LaunchMoves
<1>5. CASE /\ acl' = [acl EXCEPT ![dir] = oldAcl[l] \cup {Profile[l]}]
           /\ spreading' = spreading \cup {dir}
           /\ launchAt' = [launchAt EXCEPT ![l] = "waiting"]
  <2>1. /\ \A k \in Launches : Granted(k)' = Granted(k)
        /\ \A k \in Launches \ {l} : launchAt'[k] = launchAt[k]
        /\ launchAt'[l] = "waiting"
        /\ acl'[dir] = oldAcl[l] \cup {Profile[l]}
        /\ \A d \in Dirs \ {dir} : acl'[d] = acl[d]
    BY <1>1, <1>3, <1>5 DEF Granted, LaunchesTyped
  <2>2. LaunchesTyped'
    <3>1. oldAcl[l] \cup {Profile[l]} \in SUBSET Profiles
      BY <1>1 DEF LaunchesTyped
    <3>2. acl' \in [Dirs -> SUBSET Profiles]
      BY <1>1, <1>5, <3>1 DEF LaunchesTyped
    <3> QED
      BY <1>1, <1>3, <1>5, <3>2 DEF LaunchesTyped, LaunchPlaces
  <2>3. GrantsAreApart'
    <3> SUFFICES ASSUME NEW d \in Dirs \ disturbed
                 PROVE  /\ \A k, m \in Launches : Granting(k, d)' /\ Granting(m, d)' => k = m
                        /\ \A k \in Launches : launchAt'[k] = "merge" /\ Granted(k)' = d => oldAcl'[k] = acl'[d]
                        /\ below'[d] \subseteq acl'[d]
                        /\ d \in WithFiles => \A p \in acl'[d] \ below'[d] :
                              \E k \in Launches : launchAt'[k] = "waiting" /\ Granted(k)' = d /\ Profile[k] = p
      BY <1>3 DEF GrantsAreApart
    <3>1. /\ \A k, m \in Launches : Granting(k, d) /\ Granting(m, d) => k = m
          /\ \A k \in Launches : launchAt[k] = "merge" /\ Granted(k) = d => oldAcl[k] = acl[d]
          /\ below[d] \subseteq acl[d]
          /\ d \in WithFiles => \A p \in acl[d] \ below[d] :
                \E k \in Launches : launchAt[k] = "waiting" /\ Granted(k) = d /\ Profile[k] = p
      BY <1>1 DEF GrantsAreApart
    <3>2. \A k \in Launches : Granting(k, d)' <=> Granting(k, d)
      BY <1>3, <2>1 DEF Granting
    <3>3. CASE d = dir
      <4>1. oldAcl[l] = acl[d] /\ \A k \in Launches : Granting(k, d) => k = l
        BY <1>2, <1>3, <3>1, <3>3 DEF Granting
      <4>2. \A k \in Launches : launchAt'[k] = "merge" /\ Granted(k)' = d => oldAcl'[k] = acl'[d]
        BY <2>1, <4>1 DEF Granting
      <4>3. ASSUME d \in WithFiles, NEW p \in acl'[d] \ below'[d]
            PROVE  \E k \in Launches : launchAt'[k] = "waiting" /\ Granted(k)' = d /\ Profile[k] = p
        <5>1. CASE p = Profile[l]
          BY <1>2, <2>1, <3>3, <5>1
        <5>2. CASE p \in acl[d] \ below[d]
          BY <1>3, <2>1, <3>1, <4>3, <5>2
        <5> QED
          BY <1>3, <2>1, <3>3, <4>1, <4>3, <5>1, <5>2
      <4> QED
        BY <1>3, <2>1, <3>1, <3>2, <3>3, <4>1, <4>2, <4>3
    <3>4. CASE d # dir
      <4>1. acl'[d] = acl[d]
        BY <2>1, <3>4
      <4>2. \A k \in Launches : launchAt'[k] = "merge" /\ Granted(k)' = d => oldAcl'[k] = acl'[d]
        BY <1>3, <2>1, <3>1, <4>1
      <4>3. ASSUME d \in WithFiles, NEW p \in acl'[d] \ below'[d]
            PROVE  \E k \in Launches : launchAt'[k] = "waiting" /\ Granted(k)' = d /\ Profile[k] = p
        <5>1. PICK k \in Launches : launchAt[k] = "waiting" /\ Granted(k) = d /\ Profile[k] = p
          BY <1>3, <3>1, <4>1, <4>3
        <5> QED
          BY <1>2, <2>1, <3>4, <5>1
      <4> QED
        BY <1>3, <3>1, <3>2, <4>1, <4>2, <4>3
    <3> QED
      BY <3>3, <3>4
  <2>4. PassedIsReadable'
    BY <1>1, <1>3, <2>1 DEF PassedIsReadable, Readable
  <2> QED
    BY <1>3, <2>2, <2>3, <2>4 DEF WindowsInv
<1> QED
  BY <1>2, <1>4, <1>5 DEF SetSecurityInfo

\* Who sees the first file sees the profile below the directory.
LEMMA WaitInheritanceKeeps ==
    ASSUME WindowsInv, NEW l \in Launches, WaitInheritance(l)
    PROVE  WindowsInv' /\ UNCHANGED net
<1>1. LaunchesTyped /\ Granted(l) \in Dirs
  BY LaunchFacts DEF WindowsInv
<1>2. PICK dir \in Dirs : dir = Granted(l)
  BY <1>1
<1>3. /\ launchAt[l] = "waiting" /\ NextRead(l)
      /\ UNCHANGED <<oldAcl, acl, below, spreading, disturbed, net>>
      /\ dir \in WithFiles => Profile[l] \in below[dir]
  BY <1>2 DEF WaitInheritance, Inherited
<1>4. Readable(Profile[l], dir)'
  BY <1>3 DEF Readable
<1>5. /\ disturbed \subseteq disturbed' /\ disturbed' \subseteq Dirs
      /\ oldAcl' \in [Launches -> SUBSET Profiles] /\ \A k \in Launches \ {l} : oldAcl'[k] = oldAcl[k]
  BY <1>1, <1>3 DEF LaunchesTyped
<1> QED
  BY <1>2, <1>3, <1>4, <1>5, NextReadKeeps

\* The files of an undisturbed directory only gain entries.
LEMMA SpreadKeeps ==
    ASSUME WindowsInv, NEW dir \in Dirs, Spread(dir)
    PROVE  WindowsInv' /\ UNCHANGED net
<1>1. LaunchesTyped /\ GrantsAreApart /\ PassedIsReadable
  BY DEF WindowsInv
<1>2. /\ below' = [below EXCEPT ![dir] = acl[dir]] /\ spreading' = spreading \ {dir}
      /\ UNCHANGED <<launchAt, nextRead, oldAcl, acl, disturbed, net>>
  BY DEF Spread
<1>3. below'[dir] = acl[dir] /\ \A d \in Dirs \ {dir} : below'[d] = below[d]
  BY <1>1, <1>2 DEF LaunchesTyped
<1>4. LaunchesTyped'
  <2>1. below' \in [Dirs -> SUBSET Profiles]
    BY <1>1, <1>2 DEF LaunchesTyped
  <2> QED
    BY <1>1, <1>2, <2>1 DEF LaunchesTyped
<1>5. \A l \in Launches : Granted(l)' = Granted(l) /\ \A d \in Dirs : Granting(l, d)' <=> Granting(l, d)
  BY <1>2 DEF Granted, Granting
<1>6. GrantsAreApart'
  BY <1>1, <1>2, <1>3, <1>5 DEF GrantsAreApart
<1>7. \A d \in Dirs : \A p : Readable(p, d) => Readable(p, d)'
  BY <1>1, <1>2, <1>3 DEF Readable, GrantsAreApart
<1>8. PassedIsReadable'
  BY <1>1, <1>2, <1>7, LaunchFacts DEF PassedIsReadable
<1> QED
  BY <1>2, <1>4, <1>6, <1>8 DEF WindowsInv

\* Nothing of Windows is touched, and nothing of Linux.
LEMMA WindowsStutters ==
    ASSUME WindowsInv, UNCHANGED windowsVars
    PROVE  WindowsInv'
<1>1. UNCHANGED <<launchAt, nextRead, oldAcl, acl, below, spreading, disturbed>>
  BY DEF windowsVars
<1>2. LaunchesTyped'
  BY <1>1 DEF WindowsInv, LaunchesTyped
<1>3. GrantsAreApart'
  BY <1>1 DEF WindowsInv, GrantsAreApart, Granting, Granted
<1>4. PassedIsReadable'
  BY <1>1 DEF WindowsInv, PassedIsReadable, Readable
<1> QED
  BY <1>2, <1>3, <1>4 DEF WindowsInv

\* The invariant of isolation.
THEOREM IsolationInvariant == IsolationSpec => [](WindowsInv /\ NetIsSound)
<1>1. IsolationInit => WindowsInv /\ NetIsSound
  BY WindowsStart
<1>2. WindowsInv /\ NetIsSound /\ [WindowsNext \/ LinuxNext]_isolationVars => (WindowsInv /\ NetIsSound)'
  <2> SUFFICES ASSUME WindowsInv, NetIsSound, [WindowsNext \/ LinuxNext]_isolationVars
               PROVE  WindowsInv' /\ NetIsSound'
    OBVIOUS
  <2>1. CASE WindowsNext
    <3>1. WindowsInv' /\ UNCHANGED net
      <4>1. CASE \E d \in Dirs : Spread(d)
        BY <4>1, SpreadKeeps
      <4>2. CASE ~\E d \in Dirs : Spread(d)
        BY <2>1, <4>2, LaunchEdges, GrantKeeps, SetSecurityInfoKeeps, WaitInheritanceKeeps DEF WindowsNext
      <4> QED
        BY <4>1, <4>2
    <3> QED
      BY <3>1 DEF NetIsSound, SoundNet
  <2>2. CASE LinuxNext
    BY <2>2, LinuxKeeps, WindowsStutters
  <2>3. CASE UNCHANGED isolationVars
    BY <2>3, WindowsStutters DEF isolationVars, NetIsSound, SoundNet
  <2> QED
    BY <2>1, <2>2, <2>3
<1> QED
  BY <1>1, <1>2, PTL DEF IsolationSpec

\* When a plugin's own code starts it can read all it was granted, unless the
\* grants of a directory were cut off or overlapped, and its network is up; and
\* slirp4netns is stopped with it (appcontainer_windows.go, sandbox_linux.go).
THEOREM IsolationHolds == IsolationSpec => []IsolatedCodeIsReady
<1>1. WindowsInv /\ NetIsSound => IsolatedCodeIsReady
  <2> SUFFICES ASSUME WindowsInv, NetIsSound PROVE IsolatedCodeIsReady
    OBVIOUS
  <2>1. \A l \in Launches : launchAt[l] = "running" =>
            \A i \in 1 .. Len(Reads[l]) :
               \/ Reads[l][i] \in disturbed \cup (Dirs \ WithFiles)
               \/ Profile[l] \in below[Reads[l][i]]
    BY DEF WindowsInv, PassedIsReadable, Readable
  <2>2. \A c \in NetCalls :
            /\ net[c].shell = "plugin" => net[c].tap
            /\ net[c].caller \in {"refused", "over"} => ~net[c].slirp
    BY DEF NetIsSound, SoundNet, NetRecords
  <2> QED
    BY <2>1, <2>2 DEF IsolatedCodeIsReady
<1> QED
  BY <1>1, IsolationInvariant, PTL

\* A launch is at one of the directories it reads, a list of access holds the
\* profiles of launches only, and a tap device needs its slirp4netns.
THEOREM IsolationIsTyped == IsolationSpec => []IsolationTypeOK
<1>1. WindowsInv /\ NetIsSound => IsolationTypeOK
  BY DEF WindowsInv, LaunchesTyped, Profiles, NetIsSound, SoundNet, IsolationTypeOK
<1> QED
  BY <1>1, IsolationInvariant, PTL

-----------------------------------------------------------------------------
(* One call of a plugin                                                    *)

Before == {"called", "allowed", "runtime", "isolate", "start"}
Over == {"deferred", "done"}

\* There is no process before its start, and none alive once the call has its
\* verdict; only a cancelled run cancels the context before the call is done.
ProcessIsWaitedFor ==
    /\ at \in Before => proc = "none" /\ killer = "none"
    /\ at \in {"called", "allowed", "runtime"} => ctx = "none"
    /\ at \in Over => proc # "alive"
    /\ ctx = "canceled" /\ at # "done" => parentDone

\* Who was killed has left its reason behind, for the verdict to find.
KilledForAReason ==
    /\ killedFor # "none" => proc = "dead" /\ exit = 2
    /\ killedFor = "canceled" => parentDone
    /\ killedFor = "deadline" => ctx = "deadline"

Honest ==
    /\ killedFor = "canceled" => verdict.cancelled /\ ~ShouldRetry(verdict)
    /\ killedFor = "deadline" => verdict.code \in {"timeout", "cancelled"}
    /\ verdict.code = "ok" => killedFor = "none" /\ exit = 0 /\ said = "ok"

CallInv ==
    /\ CallTypeOK
    /\ ProcessIsWaitedFor
    /\ KilledForAReason
    /\ at \in Over => Honest

\* A call that fails while its process is killed, or never started, says so.
LEMMA FailuresAreHonest ==
    ASSUME CallInv, NEW code, code \notin {"ok", "cancelled", "timeout"},
           verdict' = Failure(Blamed(code)), UNCHANGED <<killedFor, exit, said>>
    PROVE  Honest'
<1>1. KilledForAReason
  BY DEF CallInv
<1>2. CASE parentDone
  <2>1. verdict'.cancelled /\ verdict'.code = "cancelled" /\ ~ShouldRetry(verdict')
    BY <1>2 DEF Blamed, Failure, Verdict, ShouldRetry
  <2> QED
    BY <2>1 DEF Honest, ShouldRetry
<1>3. CASE ~parentDone
  <2>1. killedFor # "canceled"
    BY <1>1, <1>3 DEF KilledForAReason
  <2>2. killedFor = "deadline" => verdict'.code = "timeout"
    BY <1>1, <1>3 DEF KilledForAReason, Blamed, Failure, Verdict
  <2>3. verdict'.code # "ok"
    BY <1>3 DEF Blamed, Failure, Verdict
  <2> QED
    BY <2>1, <2>2, <2>3 DEF Honest
<1> QED
  BY <1>2, <1>3

\* The verdict on an answer looks at the run and the deadline before the answer.
LEMMA JudgeIsHonest ==
    ASSUME CallInv, verdict' = Judge, UNCHANGED <<killedFor, exit, said>>
    PROVE  Honest'
<1>1. KilledForAReason /\ CallTypeOK
  BY DEF CallInv
<1>2. CASE parentDone
  <2>1. verdict'.cancelled /\ verdict'.code = "cancelled" /\ ~ShouldRetry(verdict')
    BY <1>2 DEF Judge, Failure, Verdict, ShouldRetry
  <2> QED
    BY <2>1 DEF Honest, ShouldRetry
<1>3. CASE ~parentDone /\ ctx = "deadline"
  <2>1. verdict'.code = "timeout" /\ killedFor # "canceled"
    BY <1>1, <1>3 DEF Judge, Failure, Verdict, KilledForAReason
  <2> QED
    BY <2>1 DEF Honest
<1>4. CASE ~parentDone /\ ctx # "deadline"
  <2>1. killedFor \notin {"canceled", "deadline"} /\ verdict' = Judged
    BY <1>1, <1>4 DEF KilledForAReason, Judge
  <2>2. killedFor = "none"
    BY <1>1, <2>1 DEF CallTypeOK
  <2>3. CASE exit = 0 /\ said = "ok"
    BY <2>2, <2>3 DEF Honest
  <2>4. CASE ~(exit = 0 /\ said = "ok")
    <3>1. Judged.code # "ok"
      BY <2>4 DEF Judged, Failure, Verdict
    <3> QED
      BY <2>1, <2>2, <3>1 DEF Honest
  <2> QED
    BY <2>3, <2>4
<1> QED
  BY <1>2, <1>3, <1>4

\* The steps of the call itself.
LEMMA CallStepKeeps ==
    ASSUME CallInv, CallStep
    PROVE  CallInv'
<1>1. CallTypeOK /\ ProcessIsWaitedFor /\ KilledForAReason
  BY DEF CallInv
<1>2. CASE CheckTrust
  <2>1. UNCHANGED <<call, content, installs, bare, parentDone, ctx, held, killer, proc, child, late, said, exit, killedFor>>
    BY <1>2 DEF CheckTrust, worldVars, processVars
  <2>2. /\ at = "called" /\ at' \in {"deferred", "allowed"}
        /\ at' = "deferred" => \E code \in {"cancelled", "sandbox_unavailable"} : verdict' = Failure(code)
    BY <1>2 DEF CheckTrust, GoesOn, FailsWith
  <2>3. killedFor = "none" /\ proc = "none"
    BY <1>1, <2>2 DEF ProcessIsWaitedFor, KilledForAReason, CallTypeOK, Before
  <2>4. at' = "deferred" => Honest'
    BY <2>1, <2>2, <2>3 DEF Honest, Failure, Verdict
  <2> QED
    BY <1>1, <2>1, <2>2, <2>3, <2>4
       DEF CallInv, CallTypeOK, ProcessIsWaitedFor, KilledForAReason, Before, Over
<1>3. CASE ChooseIsolation
  <2>1. /\ UNCHANGED <<call, content, installs, parentDone, ctx, held, killer, proc, child, late, said, exit, killedFor>>
        /\ at = "allowed" /\ at' = "runtime" /\ bare' \in BOOLEAN
    BY <1>3 DEF ChooseIsolation, GoesOn, DecideTrust, worldVars, processVars
  <2> QED
    BY <1>1, <2>1 DEF CallInv, CallTypeOK, ProcessIsWaitedFor, KilledForAReason, Before, Over
<1>4. CASE FindRuntime
  <2>1. UNCHANGED <<call, content, installs, bare, parentDone, held, killer, proc, child, late, said, exit, killedFor>>
    BY <1>4 DEF FindRuntime, worldVars, processVars
  <2>2. /\ at = "runtime" /\ at' \in {"deferred", "isolate"}
        /\ at' = "deferred" => /\ UNCHANGED ctx
                               /\ \E code \in {"runtime_unknown", "runtime_missing"} : verdict' = Failure(code)
        /\ at' = "isolate" => ctx' = IF parentDone THEN "canceled" ELSE "live"
    BY <1>4 DEF FindRuntime, GoesOn, FailsWith
  <2>3. killedFor = "none" /\ proc = "none" /\ ctx = "none"
    BY <1>1, <2>2 DEF ProcessIsWaitedFor, KilledForAReason, CallTypeOK, Before
  <2>4. at' = "deferred" => Honest'
    BY <2>1, <2>2, <2>3 DEF Honest, Failure, Verdict
  <2> QED
    BY <1>1, <2>1, <2>2, <2>3, <2>4
       DEF CallInv, CallTypeOK, ProcessIsWaitedFor, KilledForAReason, Before, Over
<1>5. CASE Isolate
  <2>1. UNCHANGED <<call, content, installs, bare, parentDone, ctx, killer, proc, child, late, said, exit, killedFor>>
    BY <1>5 DEF Isolate, worldVars, processVars
  <2>2. /\ at = "isolate" /\ at' \in {"deferred", "start"}
        /\ at' = "deferred" => verdict' = Failure("sandbox_unavailable")
    BY <1>5 DEF Isolate, GoesOn, FailsWith
  <2>3. held' \subseteq {"scratch", "egress", "tap"}
    BY <1>1, <1>5 DEF Isolate, CallTypeOK
  <2>4. killedFor = "none" /\ proc = "none"
    BY <1>1, <2>2 DEF ProcessIsWaitedFor, KilledForAReason, CallTypeOK, Before
  <2>5. at' = "deferred" => Honest'
    BY <2>1, <2>2, <2>4 DEF Honest, Failure, Verdict
  <2> QED
    BY <1>1, <2>1, <2>2, <2>3, <2>4, <2>5
       DEF CallInv, CallTypeOK, ProcessIsWaitedFor, KilledForAReason, Before, Over
<1>6. CASE StartProcess
  <2>1. UNCHANGED <<call, content, installs, bare, parentDone, ctx, held, child, late, said, exit, killedFor>>
    BY <1>6 DEF StartProcess, worldVars
  <2>2. /\ at = "start" /\ at' \in {"deferred", "attach", "wait"}
        /\ \/ at' = "deferred" /\ proc' \in {proc, "dead"} /\ UNCHANGED killer
           \/ at' \in {"attach", "wait"} /\ proc' = "alive" /\ killer' = "armed"
    BY <1>6 DEF StartProcess, GoesOn, FailsWith
  <2>3. killedFor = "none" /\ proc = "none"
    BY <1>1, <2>2 DEF ProcessIsWaitedFor, KilledForAReason, CallTypeOK, Before
  <2>4. at' = "deferred" =>
           \/ verdict' = Failure("process_group")
           \/ \E code \in {"spawn_failed", "process_group"} : verdict' = Failure(Blamed(code))
    BY <1>6 DEF StartProcess, GoesOn, FailsWith
  <2>5. at' = "deferred" => Honest'
    <3>1. CASE verdict' = Failure("process_group")
      BY <2>1, <2>3, <3>1 DEF Honest, Failure, Verdict
    <3> QED
      BY <2>1, <2>4, <3>1, FailuresAreHonest
  <2> QED
    BY <1>1, <2>1, <2>2, <2>3, <2>5
       DEF CallInv, CallTypeOK, ProcessIsWaitedFor, KilledForAReason, Before, Over
<1>7. CASE AttachNetwork
  <2>1. UNCHANGED <<call, content, installs, bare, parentDone, ctx, child, late, killer, said, exit, killedFor>>
    BY <1>7 DEF AttachNetwork, worldVars
  <2>2. /\ at = "attach"
        /\ \/ at' = "wait" /\ UNCHANGED proc /\ held' = held \cup {"tap"}
           \/ /\ at' = "deferred" /\ proc' = "dead" /\ UNCHANGED held
              /\ verdict' = Failure(Blamed("sandbox_unavailable"))
    BY <1>7 DEF AttachNetwork, GoesOn, FailsWith
  <2>3. at' = "deferred" => Honest'
    BY <2>1, <2>2, FailuresAreHonest
  <2>4. CallTypeOK'
    <3>1. held' \subseteq {"scratch", "egress", "tap"} /\ proc' \in {"none", "alive", "dead"}
      BY <1>1, <2>2 DEF CallTypeOK
    <3> QED
      BY <1>1, <2>1, <2>2, <3>1 DEF CallTypeOK
  <2>5. ProcessIsWaitedFor'
    BY <1>1, <2>1, <2>2 DEF ProcessIsWaitedFor, Before, Over
  <2>6. KilledForAReason'
    BY <1>1, <2>1, <2>2 DEF KilledForAReason
  <2> QED
    BY <2>2, <2>3, <2>4, <2>5, <2>6 DEF CallInv, Over
<1>8. CASE WaitReturns
  <2>1. /\ UNCHANGED <<call, content, installs, bare, parentDone, ctx, held, killer, proc, child, late, said, exit, killedFor>>
        /\ at = "wait" /\ at' = "deferred" /\ proc = "dead" /\ verdict' = Judge
    BY <1>8 DEF WaitReturns, worldVars, processVars
  <2>2. Honest'
    BY <2>1, JudgeIsHonest
  <2> QED
    BY <1>1, <2>1, <2>2 DEF CallInv, CallTypeOK, ProcessIsWaitedFor, KilledForAReason, Before, Over
<1>9. CASE Return
  <2>1. /\ UNCHANGED <<call, content, installs, bare, parentDone, killer, proc, late, said, exit, verdict, killedFor>>
        /\ at = "deferred" /\ at' = "done" /\ held' = {}
        /\ child' \in {child, "dead"}
        /\ ctx' = IF ctx = "live" THEN "canceled" ELSE ctx
    BY <1>9 DEF Return, AfterKill, worldVars
  <2>2. Honest'
    BY <2>1 DEF CallInv, Over, Honest, ShouldRetry
  <2> QED
    BY <1>1, <2>1, <2>2 DEF CallInv, CallTypeOK, ProcessIsWaitedFor, KilledForAReason, Before, Over
<1> QED
  BY <1>2, <1>3, <1>4, <1>5, <1>6, <1>7, <1>8, <1>9 DEF CallStep

\* What happens to the process and around the call.
LEMMA CallWorldKeeps ==
    ASSUME CallInv,
           \/ CancelProcess \/ KillGroup \/ WaitDelayPasses \/ DeadlinePasses
           \/ StartChild \/ PluginEnds \/ ChildEnds \/ CancelRun \/ ReplaceFiles \/ UNCHANGED callVars
    PROVE  CallInv'
<1>1. CallTypeOK /\ ProcessIsWaitedFor /\ KilledForAReason
  BY DEF CallInv
<1>2. CASE CancelProcess
  <2>1. /\ UNCHANGED <<call, content, installs, at, bare, parentDone, ctx, held, late, killer, said, verdict>>
        /\ at \in {"attach", "wait"} /\ ctx \in {"deadline", "canceled"}
        /\ proc' = "dead" /\ child' \in {child, "dead"} /\ exit' = 2 /\ killedFor' = ctx
    BY <1>2 DEF CancelProcess, AfterKill, worldVars
  <2> QED
    BY <1>1, <2>1 DEF CallInv, CallTypeOK, ProcessIsWaitedFor, KilledForAReason, Before, Over
<1>3. CASE KillGroup
  <2>1. /\ UNCHANGED <<call, content, installs, at, bare, parentDone, ctx, held, late, said, verdict>>
        /\ killer = "armed" /\ killer' = "done" /\ ctx \in {"deadline", "canceled"}
        /\ child' \in {child, "dead"}
        /\ \/ proc = "alive" /\ proc' = "dead" /\ exit' = 2 /\ killedFor' = ctx
           \/ UNCHANGED <<proc, exit, killedFor>>
    BY <1>3 DEF KillGroup, AfterKill, worldVars
  <2>2. CASE proc = "alive" /\ proc' = "dead" /\ exit' = 2 /\ killedFor' = ctx
    <3>1. at \notin Over /\ at # "done"
      BY <1>1, <2>2 DEF ProcessIsWaitedFor, Over
    <3> QED
      BY <1>1, <2>1, <2>2, <3>1 DEF CallInv, CallTypeOK, ProcessIsWaitedFor, KilledForAReason, Before
  <2>3. CASE UNCHANGED <<proc, exit, killedFor>>
    <3>1. at \in Over => Honest'
      BY <2>1, <2>3 DEF CallInv, Honest, ShouldRetry
    <3> QED
      BY <1>1, <2>1, <2>3, <3>1 DEF CallInv, CallTypeOK, ProcessIsWaitedFor, KilledForAReason, Before
  <2> QED
    BY <2>1, <2>2, <2>3
<1>4. CASE CancelRun \/ DeadlinePasses
  <2>1. /\ UNCHANGED <<call, content, installs, at, bare, held, killer, verdict, proc, child, late, said, exit, killedFor>>
        /\ \/ parentDone' = TRUE /\ ctx' = IF ctx = "live" THEN "canceled" ELSE ctx
           \/ UNCHANGED parentDone /\ ctx = "live" /\ ctx' = "deadline"
    BY <1>4 DEF CancelRun, DeadlinePasses, worldVars, processVars
  <2>2. at \in Over => Honest'
    BY <2>1 DEF CallInv, Honest, ShouldRetry
  <2>3. CallTypeOK'
    <3>1. ctx' \in {"none", "live", "deadline", "canceled"} /\ parentDone' \in BOOLEAN
      BY <1>1, <2>1 DEF CallTypeOK
    <3> QED
      BY <1>1, <2>1, <3>1 DEF CallTypeOK
  <2>4. CASE parentDone' = TRUE /\ ctx' = IF ctx = "live" THEN "canceled" ELSE ctx
    <3>1. ProcessIsWaitedFor' /\ KilledForAReason'
      BY <1>1, <2>1, <2>4 DEF ProcessIsWaitedFor, KilledForAReason, Before
    <3> QED
      BY <2>1, <2>2, <2>3, <3>1 DEF CallInv
  <2>5. CASE UNCHANGED parentDone /\ ctx = "live" /\ ctx' = "deadline"
    <3>1. ProcessIsWaitedFor' /\ KilledForAReason'
      BY <1>1, <2>1, <2>5 DEF ProcessIsWaitedFor, KilledForAReason, Before
    <3> QED
      BY <2>1, <2>2, <2>3, <3>1 DEF CallInv
  <2> QED
    BY <2>1, <2>4, <2>5
<1>5. CASE PluginEnds
  <2>1. /\ UNCHANGED <<call, content, installs, at, bare, parentDone, ctx, held, child, late, killer, verdict, killedFor>>
        /\ at = "wait" /\ proc = "alive" /\ proc' = "dead" /\ exit' \in 0 .. 2 /\ said' \in Answers
    BY <1>5 DEF PluginEnds, worldVars
  <2> QED
    BY <1>1, <2>1 DEF CallInv, CallTypeOK, ProcessIsWaitedFor, KilledForAReason, Before, Over
<1>6. CASE ReplaceFiles
  <2>1. /\ UNCHANGED <<call, at, bare, parentDone, ctx, held, killer, verdict, proc, child, late, said, exit, killedFor>>
        /\ installs < MaxInstalls /\ installs' = installs + 1 /\ content' \in Contents
    BY <1>6 DEF ReplaceFiles, processVars
  <2>2. installs' \in 0 .. MaxInstalls
    BY <1>1, <2>1, CallAssumption DEF CallTypeOK
  <2>3. at \in Over => Honest'
    BY <2>1 DEF CallInv, Honest, ShouldRetry
  <2> QED
    BY <1>1, <2>1, <2>2, <2>3 DEF CallInv, CallTypeOK, ProcessIsWaitedFor, KilledForAReason, Before
<1>7. CASE WaitDelayPasses \/ StartChild \/ ChildEnds \/ UNCHANGED callVars
  <2>1. /\ UNCHANGED <<call, content, installs, at, bare, parentDone, ctx, held, killer, proc, said, exit,
                       verdict, killedFor>>
        /\ late' \in BOOLEAN /\ child' \in {"none", "group", "away", "dead"}
    BY <1>1, <1>7 DEF WaitDelayPasses, StartChild, ChildEnds, callVars, worldVars, CallTypeOK
  <2>2. at \in Over => Honest'
    BY <2>1 DEF CallInv, Honest, ShouldRetry
  <2> QED
    BY <1>1, <2>1, <2>2 DEF CallInv, CallTypeOK, ProcessIsWaitedFor, KilledForAReason, Before
<1> QED
  BY <1>2, <1>3, <1>4, <1>5, <1>6, <1>7

\* A call begins before there is a process, a reason to kill it or a verdict.
LEMMA CallBegins == CallInit => CallInv
<1> SUFFICES ASSUME CallInit PROVE CallInv
  OBVIOUS
<1>1. CallTypeOK
  <2>1. call \in Call /\ installs \in 0 .. MaxInstalls
    BY CallAssumption DEF CallInit
  <2>2. said \in Answers /\ exit \in 0 .. 2 /\ held \subseteq {"scratch", "egress", "tap"}
    BY DEF CallInit, Answers
  <2>3. bare \in BOOLEAN /\ parentDone \in BOOLEAN /\ late \in BOOLEAN
    BY DEF CallInit
  <2>4. /\ at = "called" /\ ctx = "none" /\ proc = "none" /\ child = "none"
        /\ killer = "none" /\ killedFor = "none" /\ content \in Contents
    BY DEF CallInit
  <2> QED
    BY <2>1, <2>2, <2>3, <2>4 DEF CallTypeOK
<1>2. ProcessIsWaitedFor /\ KilledForAReason /\ at \notin Over
  BY DEF CallInit, ProcessIsWaitedFor, KilledForAReason, Before, Over
<1> QED
  BY <1>1, <1>2 DEF CallInv

\* The invariant of a call is inductive.
LEMMA CallKeeps == CallInv /\ [CallNext]_callVars => CallInv'
  BY CallStepKeeps, CallWorldKeeps DEF CallNext

\* The invariant of a plugin's call.
THEOREM CallInvariant == CallSpec => []CallInv
  BY CallBegins, CallKeeps, PTL DEF CallSpec

\* A cancelled run's plugin is reported as cancelled and not tried again, one
\* that the deadline killed is no error of its own, and a success was said by a
\* process nobody had killed (execPluginEnv, process.go:383-489).
THEOREM VerdictsAreHonest == CallSpec => []HonestVerdict
<1>1. CallInv => HonestVerdict
  BY DEF CallInv, Over, Honest, HonestVerdict
<1> QED
  BY <1>1, CallInvariant, PTL

-----------------------------------------------------------------------------
(* Contracts                                                               *)

\* A value that the run's check refuses though validation let its port pass
\* has one of the excuses of ContractsHold: over every wiring, kind of source
\* by kind of source.
LEMMA AcceptedOrExcused ==
    ASSUME NEW w \in Wirings, ~PortErrors(w), NEW v \in MayHold(w.from),
           ~(IF v = Missing THEN w.port.optional ELSE CheckValue(w.port, v))
    PROVE  \/ Unchecked(w.from) \/ LooseFormat(w) \/ MayBeAbsent(w.from)
           \/ w.builtin /\ v = Missing
<1>1. /\ w.port \in PortKinds /\ w.from \in Sources /\ w.builtin \in BOOLEAN
      /\ w.builtin => w.port = TextPort
  BY ContractsAssumption
<1>2. /\ w.port.type \in {"string", "number", "array"} /\ w.port.format \in Formats
      /\ w.builtin => w.port.format = "text"
  <2>1. w.port \in [type : {"string", "number", "array"}, format : Formats, optional : BOOLEAN]
    BY <1>1 DEF PortKinds
  <2>2. w.builtin => w.port.format = "text"
    BY <1>1 DEF TextPort
  <2> QED
    BY <2>1, <2>2
<1>3. w.from.kind \in {"literal", "item", "output", "builtin", "all", "deep", "step item", "nowhere"}
  BY <1>1 DEF Sources
<1>4. CASE w.from.kind = "literal"
  <2>1. v = w.from.value /\ v \in Values
    BY <1>1, <1>4 DEF MayHold, Sources
  <2>2. v # Missing
    BY <2>1 DEF Values, Missing
  <2>3. CASE v # "nil"
    <3>1. StaticKind(v) = w.port.type
      BY <1>2, <1>4, <2>1, <2>3 DEF PortErrors, Declared, StaticKind, Kind
    <3>2. Kind(v) = w.port.type
      BY <3>1, <2>3 DEF StaticKind
    <3>3. Kind(v) = "string" /\ ~FormatOK(w.port.format, v)
      BY <3>2, <2>2 DEF CheckValue
    <3>4. v \notin {"num", "list", "nil"}
      BY <3>3, <2>1, <2>3 DEF Kind
    <3>5. w.port.format \notin {"", "text"}
      BY <3>3 DEF FormatOK
    <3>6. ~w.builtin
      BY <1>2, <3>5
    <3>7. ScalarMatchesFormat(v, w.port.format)
      BY <1>4, <2>1, <3>4, <3>5, <3>6 DEF PortErrors, FormatError
    <3>8. <<w.port.format, v>> \in {<<"url", "web blank">>, <<"file_ref", "empty">>}
      BY <1>2, <3>3, <3>5, <3>7 DEF ScalarMatchesFormat, FormatOK, Formats
    <3> QED
      BY <1>4, <2>1, <3>8 DEF LooseFormat
  <2> QED
    BY <1>4, <2>1, <2>3 DEF Unchecked
<1>5. CASE w.from.kind = "output"
  <2>1. /\ w.from.port \in PortKinds /\ w.from.skips \in BOOLEAN /\ w.from.cond \in BOOLEAN
    BY <1>1, <1>5 DEF Sources
  <2>2. w.from.port.type = w.port.type
    BY <2>1, <1>5 DEF PortErrors, Declared, PortKinds
  <2>3. CASE v = Missing
    <3>1. ~w.port.optional
      BY <2>3
    <3>2. w.from.port.optional \/ w.from.skips \/ w.from.cond
      <4>1. v \notin Values
        BY <2>3 DEF Missing, Values
      <4> QED
        BY <4>1, <1>5 DEF MayHold
    <3>3. w.from.skips => w.builtin
      BY <3>1, <1>5 DEF PortErrors, Skippable
    <3> QED
      BY <3>2, <3>3, <2>3, <1>5 DEF MayBeAbsent
  <2>4. CASE v # Missing
    <3>1. CheckValue(w.from.port, v) /\ ~CheckValue(w.port, v)
      BY <2>4, <1>5 DEF MayHold
    <3>2. FormatOK(w.from.port.format, v) /\ ~FormatOK(w.port.format, v)
      BY <3>1, <2>2 DEF CheckValue
    <3>3. w.port.format \notin {"", "text"}
      BY <3>2 DEF FormatOK
    <3> QED
      BY <3>2, <3>3, <1>5 DEF LooseFormat
  <2> QED
    BY <2>3, <2>4
<1>6. CASE w.from.kind = "nowhere"
  <2>1. v = Missing /\ ~w.port.optional
    BY <1>6 DEF MayHold
  <2> QED
    BY <2>1, <1>6, <1>1 DEF PortErrors, TakenForOptional
<1>7. CASE w.from.kind \in {"item", "builtin", "all", "deep", "step item"}
  BY <1>7 DEF Unchecked, MayBeAbsent
<1> QED
  BY <1>3, <1>4, <1>5, <1>6, <1>7

\* What is known of the port's value once the step is reached.
SourceIsKnown ==
    /\ flow \notin {"written", "refused"} => ~PortErrors(wiring)
    /\ flow \in {"turns", "input", "call"} =>
          /\ source \in MayHold(wiring.from)
          /\ source = Missing => wiring.when \notin {"exists", "truthy"}
    /\ failure # "" => flow = "over"
    /\ failure = "contract_input" =>
          /\ \/ Unchecked(wiring.from) \/ LooseFormat(wiring) \/ MayBeAbsent(wiring.from)
             \/ wiring.builtin /\ source = Missing
          /\ source = Missing => wiring.when \notin {"exists", "truthy"} /\ ~wiring.port.optional

\* The context's output is that of this turn or, before the turn has ended,
\* of the one before.
OutputIsRecent ==
    /\ turn \in Nat
    /\ flow \in {"written", "refused", "accepted"} => output = 0 /\ failure = ""
    /\ flow = "turns" => output \in {0, turn}
    /\ flow \in {"input", "call"} => turn # 0 /\ output \in {0, turn - 1}
    /\ flow = "over" => output \in {0, turn, turn - 1} /\ (failure = "" => output \in {0, turn})

\* A foreach gathers the turns that gave an output, in their order.
ResultsInOrder ==
    /\ results \in Seq(Nat) /\ succeeded \in SUBSET (1 .. turn) /\ IsFiniteSet(succeeded)
    /\ flow \in {"written", "refused", "accepted"} => succeeded = {}
    /\ flow \in {"input", "call"} => turn \notin succeeded
    /\ wiring.runs = "foreach" =>
          /\ \A i \in DOMAIN results : results[i] \in succeeded
          /\ Len(results) = Cardinality(succeeded)
          /\ \A i, k \in DOMAIN results : i < k => results[i] < results[k]

ContractsInv ==
    /\ wiring \in Wirings
    /\ flow \in {"written", "refused", "accepted", "turns", "input", "call", "over"}
    /\ SourceIsKnown /\ OutputIsRecent /\ ResultsInOrder

\* A step begins without attempts, turns and outputs.
LEMMA ContractsStart == ContractsInit => ContractsInv
<1> SUFFICES ASSUME ContractsInit PROVE ContractsInv
  OBVIOUS
<1>1. /\ wiring \in Wirings /\ flow = "written" /\ source = Missing
      /\ turn = 0 /\ output = 0 /\ results = <<>> /\ succeeded = {} /\ failure = ""
  BY DEF ContractsInit, StepIsNew
<1>2. IsFiniteSet(succeeded) /\ Cardinality(succeeded) = 0
  BY <1>1, FS_EmptySet
<1> QED
  <2>1. SourceIsKnown
    BY <1>1 DEF SourceIsKnown
  <2>2. OutputIsRecent
    BY <1>1 DEF OutputIsRecent
  <2>3. ResultsInOrder
    <3>1. <<>> \in Seq(Nat) /\ Len(<<>>) = 0
      OBVIOUS
    <3>2. results \in Seq(Nat) /\ Len(results) = 0
      BY <1>1, <3>1
    <3>3. DOMAIN results = {}
      BY <3>2
    <3> QED
      BY <1>1, <1>2, <3>2, <3>3 DEF ResultsInOrder
  <2> QED
    BY <1>1, <2>1, <2>2, <2>3 DEF ContractsInv
\* A turn of which nothing comes, or one whose output is gathered.
LEMMA TurnGathers ==
    ASSUME ContractsInv, flow \in {"input", "call"}, wiring' = wiring, turn' = turn,
           NEW out \in {0, turn}, EndTurn(out), flow' \notin {"input", "call"},
           flow' \notin {"written", "refused", "accepted"},
           succeeded' = IF out = 0 THEN succeeded ELSE succeeded \cup {turn}
    PROVE  ResultsInOrder'
<1>1. /\ results \in Seq(Nat) /\ succeeded \in SUBSET (1 .. turn) /\ IsFiniteSet(succeeded)
      /\ turn \in Nat \ {0} /\ turn \notin succeeded
  BY DEF ContractsInv, ResultsInOrder, OutputIsRecent
<1>2. CASE out = 0
  <2>1. UNCHANGED <<results, succeeded>>
    BY <1>1, <1>2 DEF EndTurn
  <2> QED
    BY <1>1, <2>1 DEF ContractsInv, ResultsInOrder
<1>3. CASE out # 0
  <2>1. out = turn /\ succeeded' = succeeded \cup {turn}
    BY <1>3
  <2>2. /\ IsFiniteSet(succeeded \cup {turn})
        /\ Cardinality(succeeded \cup {turn}) = Cardinality(succeeded) + 1
    BY <1>1, FS_AddElement
  <2>3. IsFiniteSet(succeeded') /\ succeeded' \in SUBSET (1 .. turn')
    BY <1>1, <2>1, <2>2
  <2>4. results' \in Seq(Nat)
    BY <1>1, <1>3, <2>1 DEF EndTurn
  <2>5. ASSUME wiring.runs = "foreach"
        PROVE  /\ \A i \in DOMAIN results' : results'[i] \in succeeded'
               /\ Len(results') = Cardinality(succeeded')
               /\ \A i, k \in DOMAIN results' : i < k => results'[i] < results'[k]
    <3>1. /\ \A i \in DOMAIN results : results[i] \in succeeded
          /\ Len(results) = Cardinality(succeeded)
          /\ \A i, k \in DOMAIN results : i < k => results[i] < results[k]
      BY <2>5 DEF ContractsInv, ResultsInOrder
    <3>2. results' = Append(results, turn)
      BY <2>5, <1>3, <2>1 DEF EndTurn
    <3>3. /\ Len(results') = Len(results) + 1 /\ DOMAIN results' = 1 .. (Len(results) + 1)
          /\ results'[Len(results) + 1] = turn
          /\ \A i \in 1 .. Len(results) : results'[i] = results[i]
          /\ DOMAIN results = 1 .. Len(results) /\ Len(results) \in Nat
      BY <1>1, <3>2
    <3>4. \A i \in DOMAIN results : results[i] \in Nat /\ results[i] < turn
      <4> SUFFICES ASSUME NEW i \in DOMAIN results PROVE results[i] \in Nat /\ results[i] < turn
        OBVIOUS
      <4>1. results[i] \in succeeded
        BY <3>1
      <4>2. results[i] \in 1 .. turn /\ results[i] # turn
        BY <1>1, <4>1
      <4> QED
        BY <1>1, <4>2
    <3>5. \A i \in DOMAIN results' : results'[i] \in succeeded'
      BY <2>1, <3>1, <3>3
    <3>6. Len(results') = Cardinality(succeeded')
      BY <2>1, <2>2, <3>1, <3>3
    <3>7. ASSUME NEW i \in DOMAIN results', NEW k \in DOMAIN results', i < k
          PROVE  results'[i] < results'[k]
      <4>1. i \in 1 .. Len(results)
        BY <3>3, <3>7
      <4>2. CASE k \in 1 .. Len(results)
        BY <3>1, <3>3, <3>7, <4>1, <4>2
      <4>3. CASE k = Len(results) + 1
        BY <3>3, <3>4, <4>1, <4>3
      <4> QED
        BY <3>3, <4>2, <4>3
    <3> QED
      BY <3>5, <3>6, <3>7
  <2> QED
    BY <2>3, <2>4, <2>5 DEF ResultsInOrder
<1> QED
  BY <1>2, <1>3

\* The steps up to the turns.
LEMMA StepIsReached ==
    ASSUME ContractsInv, Validate \/ ReachStep
    PROVE  ContractsInv'
<1>1. /\ wiring \in Wirings /\ SourceIsKnown /\ OutputIsRecent /\ ResultsInOrder
      /\ flow \in {"written", "accepted"} /\ failure = "" /\ output = 0 /\ turn \in Nat
  BY DEF ContractsInv, OutputIsRecent, Validate, ReachStep
<1>2. UNCHANGED <<wiring, turn, output, results, succeeded>>
  BY DEF Validate, ReachStep
<1>3. ResultsInOrder'
  <2>1. flow' \notin {"input", "call"} /\ (flow' \in {"written", "refused", "accepted"} => succeeded = {})
    BY <1>1 DEF Validate, ReachStep, EndsWith, ResultsInOrder
  <2> QED
    BY <1>1, <1>2, <2>1 DEF ResultsInOrder
<1>4. CASE Validate
  <2>1. /\ flow = "written" /\ UNCHANGED <<source, failure>>
        /\ \/ flow' = "refused"
           \/ flow' = "accepted" /\ ~PortErrors(wiring)
    BY <1>4 DEF Validate
  <2>2. SourceIsKnown'
    BY <1>1, <1>2, <2>1 DEF SourceIsKnown
  <2>3. OutputIsRecent'
    BY <1>1, <1>2, <2>1 DEF OutputIsRecent
  <2> QED
    BY <1>1, <1>2, <1>3, <2>1, <2>2, <2>3 DEF ContractsInv
<1>5. CASE ReachStep
  <2>1. /\ flow = "accepted" /\ source' \in MayHold(wiring.from)
        /\ \/ /\ EvaluateWhen(wiring.when, source') = "true"
              /\ flow' = "turns" /\ failure' = failure
           \/ flow' = "over" /\ failure' = failure
           \/ flow' = "over" /\ failure' = "when_error"
    BY <1>5 DEF ReachStep, EndsWith
  <2>2. ~PortErrors(wiring)
    BY <1>1, <2>1 DEF SourceIsKnown
  <2>3. flow' = "turns" /\ source' = Missing => wiring.when \notin {"exists", "truthy"}
    BY <2>1 DEF EvaluateWhen
  <2>4. SourceIsKnown'
    BY <1>1, <1>2, <2>1, <2>2, <2>3 DEF SourceIsKnown
  <2>5. OutputIsRecent'
    BY <1>1, <1>2, <2>1 DEF OutputIsRecent
  <2> QED
    BY <1>1, <1>2, <1>3, <2>1, <2>4, <2>5 DEF ContractsInv
<1> QED
  BY <1>4, <1>5

\* The next turn begins with the item or output it is for, or the turns are over.
LEMMA TurnBeginsOrNot ==
    ASSUME ContractsInv, BeginTurn \/ TurnsEnd
    PROVE  ContractsInv'
<1>1. /\ wiring \in Wirings /\ SourceIsKnown /\ OutputIsRecent /\ ResultsInOrder
      /\ flow = "turns" /\ failure = "" /\ output \in {0, turn} /\ turn \in Nat
  BY DEF ContractsInv, OutputIsRecent, SourceIsKnown, BeginTurn, TurnsEnd
<1>2. UNCHANGED <<wiring, output, results, succeeded>>
  BY DEF BeginTurn, TurnsEnd
<1>3. CASE TurnsEnd
  <2>1. flow' = "over" /\ UNCHANGED <<source, turn, failure>>
    BY <1>3 DEF TurnsEnd
  <2>2. SourceIsKnown'
    BY <1>1, <1>2, <2>1 DEF SourceIsKnown
  <2>3. OutputIsRecent'
    BY <1>1, <1>2, <2>1 DEF OutputIsRecent
  <2>4. ResultsInOrder'
    BY <1>1, <1>2, <2>1 DEF ResultsInOrder
  <2> QED
    BY <1>1, <1>2, <2>1, <2>2, <2>3, <2>4 DEF ContractsInv
<1>4. CASE BeginTurn
  <2>1. /\ turn' = turn + 1
        /\ IF wiring.from.kind = "step item" THEN source' \in Values ELSE source' = source
        /\ \/ flow' = "over" /\ failure' = "resource_limit"
           \/ flow' = "input" /\ failure' = failure
    BY <1>4 DEF BeginTurn, EndsWith
  <2>2. source' \in MayHold(wiring.from) /\ (source' = Missing => source = Missing)
    <3>1. CASE wiring.from.kind = "step item"
      <4>1. source' \in Values
        BY <2>1, <3>1
      <4>2. source' # Missing
        BY <4>1 DEF Values, Missing
      <4> QED
        BY <3>1, <4>1, <4>2 DEF MayHold
    <3>2. CASE wiring.from.kind # "step item"
      BY <1>1, <2>1, <3>2 DEF SourceIsKnown
    <3> QED
      BY <3>1, <3>2
  <2>3. SourceIsKnown'
    BY <1>1, <1>2, <2>1, <2>2 DEF SourceIsKnown
  <2>4. OutputIsRecent'
    <3>1. turn' \in Nat /\ turn' # 0 /\ turn' - 1 = turn
      <4>1. turn \in Nat /\ turn' = turn + 1
        BY <1>1, <2>1
      <4> QED
        BY <4>1
    <3> QED
      BY <1>1, <1>2, <2>1, <3>1 DEF OutputIsRecent
  <2>5. ResultsInOrder'
    <3>1. succeeded \in SUBSET (1 .. turn)
      BY <1>1 DEF ResultsInOrder
    <3>2. succeeded' \in SUBSET (1 .. turn') /\ turn' \notin succeeded'
      <4>1. turn \in Nat /\ turn' = turn + 1 /\ succeeded' = succeeded
        BY <1>1, <1>2, <2>1
      <4> QED
        BY <3>1, <4>1
    <3> QED
      BY <1>1, <1>2, <2>1, <3>2 DEF ResultsInOrder
  <2> QED
    BY <1>1, <1>2, <2>1, <2>3, <2>4, <2>5 DEF ContractsInv
<1> QED
  BY <1>3, <1>4

\* A turn that ends the step, or ends without an output, or with its own.
LEMMA TurnIsOver ==
    ASSUME ContractsInv, flow \in {"input", "call"}, UNCHANGED <<wiring, source, turn>>,
           NEW code, code # "",
           code = "contract_input" => flow = "input" /\ ~InputBuilt,
           \/ EndsWith(code) /\ UNCHANGED <<output, results, succeeded>>
           \/ \E out \in {0, turn} :
                 /\ EndTurn(out) /\ failure' = failure
                 /\ succeeded' = IF out = 0 THEN succeeded ELSE succeeded \cup {turn}
    PROVE  ContractsInv'
<1>1. /\ wiring \in Wirings /\ SourceIsKnown /\ OutputIsRecent /\ ResultsInOrder
      /\ failure = "" /\ turn \in Nat \ {0} /\ output \in {0, turn - 1}
      /\ ~PortErrors(wiring) /\ source \in MayHold(wiring.from)
      /\ source = Missing => wiring.when \notin {"exists", "truthy"}
  BY DEF ContractsInv, OutputIsRecent, SourceIsKnown
<1>2. CASE EndsWith(code) /\ UNCHANGED <<output, results, succeeded>>
  <2>1. flow' = "over" /\ failure' = code
    BY <1>2 DEF EndsWith
  <2>2. ASSUME code = "contract_input"
        PROVE  /\ \/ Unchecked(wiring.from) \/ LooseFormat(wiring) \/ MayBeAbsent(wiring.from)
                  \/ wiring.builtin /\ source = Missing
               /\ source = Missing => wiring.when \notin {"exists", "truthy"} /\ ~wiring.port.optional
    <3>1. ~(IF source = Missing THEN wiring.port.optional ELSE CheckValue(wiring.port, source))
      BY <2>2 DEF InputBuilt
    <3> QED
      BY <1>1, <3>1, AcceptedOrExcused
  <2>3. SourceIsKnown'
    BY <1>1, <2>1, <2>2 DEF SourceIsKnown
  <2>4. OutputIsRecent'
    BY <1>1, <1>2, <2>1 DEF OutputIsRecent
  <2>5. ResultsInOrder'
    BY <1>1, <1>2, <2>1 DEF ResultsInOrder
  <2> QED
    BY <1>1, <2>1, <2>3, <2>4, <2>5 DEF ContractsInv
<1>3. ASSUME NEW out \in {0, turn}, EndTurn(out), failure' = failure,
             succeeded' = IF out = 0 THEN succeeded ELSE succeeded \cup {turn}
      PROVE  ContractsInv'
  <2>1. flow' \in {"turns", "over"} /\ output' = out
    BY <1>3 DEF EndTurn
  <2>2. SourceIsKnown'
    BY <1>1, <1>3, <2>1 DEF SourceIsKnown
  <2>3. OutputIsRecent'
    BY <1>1, <1>3, <2>1 DEF OutputIsRecent
  <2>4. ResultsInOrder'
    BY <1>3, <2>1, TurnGathers
  <2> QED
    BY <1>1, <2>1, <2>2, <2>3, <2>4 DEF ContractsInv
<1> QED
  BY <1>2, <1>3

\* The invariant of a port is inductive.
LEMMA ContractsStep == ContractsInv /\ [ContractsNext]_contractVars => ContractsInv'
<1> SUFFICES ASSUME ContractsInv, [ContractsNext]_contractVars PROVE ContractsInv'
  OBVIOUS
<1>1. CASE Validate \/ ReachStep
  BY <1>1, StepIsReached
<1>2. CASE BeginTurn \/ TurnsEnd
  BY <1>2, TurnBeginsOrNot
<1>3. CASE BuildInput
  <2>1. flow = "input" /\ UNCHANGED <<wiring, source, turn, succeeded>>
    BY <1>3 DEF BuildInput
  <2>2. CASE InputBuilt
    <3>1. flow' = "call" /\ UNCHANGED <<output, results, failure>>
      BY <1>3, <2>2 DEF BuildInput
    <3> QED
      BY <2>1, <3>1 DEF ContractsInv, SourceIsKnown, OutputIsRecent, ResultsInOrder
  <2>3. CASE ~InputBuilt
    <3>1. SkipOrStop("contract_input")
      BY <1>3, <2>3 DEF BuildInput
    <3> QED
      BY <2>1, <2>3, <3>1, TurnIsOver DEF SkipOrStop, OutputOfSkipped
  <2> QED
    BY <2>2, <2>3
<1>4. CASE CallSucceeds
  <2>1. /\ flow = "call" /\ UNCHANGED <<wiring, source, turn, failure>> /\ EndTurn(turn)
        /\ succeeded' = succeeded \cup {turn}
    BY <1>4 DEF CallSucceeds
  <2>2. turn # 0
    BY <2>1 DEF ContractsInv, OutputIsRecent
  <2>3. \E out \in {0, turn} :
           /\ EndTurn(out) /\ failure' = failure
           /\ succeeded' = IF out = 0 THEN succeeded ELSE succeeded \cup {turn}
    BY <2>1, <2>2
  <2> QED
    <3>1. "domain" # "" /\ "domain" # "contract_input"
      OBVIOUS
    <3>2. /\ flow \in {"input", "call"} /\ UNCHANGED <<wiring, source, turn>>
      BY <2>1
    <3> QED
      BY <2>3, <3>1, <3>2, TurnIsOver
<1>5. CASE CallBreaksContract
  <2>1. /\ flow = "call" /\ EndsWith("contract_output")
        /\ UNCHANGED <<wiring, source, turn, output, results, succeeded>>
    BY <1>5 DEF CallBreaksContract
  <2>2. "contract_output" # "" /\ "contract_output" # "contract_input"
    OBVIOUS
  <2> QED
    BY <2>1, <2>2, TurnIsOver
<1>6. CASE CallRetried
  <2>1. UNCHANGED <<wiring, flow, source, turn, output, results, succeeded, failure>>
    BY <1>6 DEF CallRetried
  <2> QED
    BY <2>1 DEF ContractsInv, SourceIsKnown, OutputIsRecent, ResultsInOrder
<1>7. CASE CallFails
  <2>1. flow = "call" /\ UNCHANGED <<wiring, source, turn, succeeded>>
    BY <1>7 DEF CallFails
  <2>2. PICK code \in {"empty_text", "domain"} : SkipOrStop(code)
    BY <1>7 DEF CallFails
  <2> QED
    BY <2>1, <2>2, TurnIsOver DEF SkipOrStop, OutputOfSkipped
<1>8. CASE CallStopped
  <2>1. PICK code \in {"platform", "cancelled"} : EndsWith(code)
    BY <1>8 DEF CallStopped
  <2> QED
    BY <1>8, <2>1, TurnIsOver DEF CallStopped
<1>9. CASE UNCHANGED contractVars
  BY <1>9 DEF contractVars, ContractsInv, SourceIsKnown, OutputIsRecent, ResultsInOrder
<1> QED
  BY <1>1, <1>2, <1>3, <1>4, <1>5, <1>6, <1>7, <1>8, <1>9 DEF ContractsNext

\* What validation accepted is refused at run time only where validation could
\* not know better, and a step's output in the context is that of its last
\* turn, the list of a foreach that of all turns that gave one, in order: for
\* every wiring of a port, any number of turns and any budget of retries
\* (ValidateIssues, buildInput, runForeach, runLoop, skipOrFail).
THEOREM ContractsAreHeld == ContractsSpec => []ContractsHold
<1>1. ContractsInv => ContractsHold
  <2> SUFFICES ASSUME ContractsInv PROVE ContractsHold
    OBVIOUS
  <2>1. /\ failure = "contract_input" =>
              /\ \/ Unchecked(wiring.from) \/ LooseFormat(wiring) \/ MayBeAbsent(wiring.from)
                 \/ wiring.builtin /\ source = Missing
              /\ source = Missing => wiring.when \notin {"exists", "truthy"} /\ ~wiring.port.optional
    BY DEF ContractsInv, SourceIsKnown
  <2>2. /\ output \in {0, turn, turn - 1}
        /\ flow \in {"turns", "over"} /\ failure = "" /\ output # 0 => output = turn
    BY DEF ContractsInv, OutputIsRecent
  <2>3. wiring.runs = "foreach" =>
              /\ \A i \in DOMAIN results : results[i] \in succeeded
              /\ Len(results) = Cardinality(succeeded)
              /\ \A i, k \in DOMAIN results : i < k => results[i] < results[k]
    BY DEF ContractsInv, ResultsInOrder
  <2> QED
    BY <2>1, <2>2, <2>3 DEF ContractsHold
<1> QED
  BY <1>1, ContractsStart, ContractsStep, PTL DEF ContractsSpec

\* Where the step is in its attempts and turns, and what its source may hold.
AttemptsAreCounted ==
    /\ source \in Values \cup {Missing}
    /\ turn <= MaxTurns /\ output \in 0 .. turn
    /\ attempt \in 0 .. MaxRetryAttempts

\* What a source may hold is a value, or it is missing.
LEMMA SourceIsAValue ==
    ASSUME NEW w \in Wirings
    PROVE  MayHold(w.from) \subseteq Values \cup {Missing}
<1>1. w.from \in Sources
  BY ContractsAssumption
<1>2. w.from.kind = "literal" => w.from.value \in Values
  BY <1>1 DEF Sources
<1>3. {"plain", "num", "list"} \subseteq Values
  BY DEF Values
<1>4. w.from.kind \in {"literal", "item", "step item", "deep", "output", "builtin", "all", "nowhere"}
  BY <1>1 DEF Sources
<1> QED
  BY <1>2, <1>3, <1>4 DEF MayHold

\* Turns and attempts stay within their budgets.
LEMMA AttemptsStayCounted ==
    ASSUME ContractsInv, AttemptsAreCounted, [ContractsNext]_contractVars
    PROVE  AttemptsAreCounted'
<1>1. /\ wiring \in Wirings /\ turn \in Nat /\ MaxTurns \in Nat \ {0} /\ MaxRetryAttempts \in Nat \ {0}
      /\ MayHold(wiring.from) \subseteq Values \cup {Missing}
  BY ContractsAssumption, SourceIsAValue DEF ContractsInv, OutputIsRecent
<1>2. CASE ReachStep
  <2>1. source' \in MayHold(wiring.from) /\ UNCHANGED <<turn, attempt, output>>
    BY <1>2 DEF ReachStep
  <2> QED
    BY <1>1, <2>1 DEF AttemptsAreCounted
<1>3. CASE BeginTurn
  <2>1. /\ turn < (IF wiring.runs = "once" THEN 1 ELSE MaxTurns)
        /\ turn' = turn + 1 /\ attempt' = 1 /\ output' = output
        /\ source' \in Values \cup {source}
    BY <1>3 DEF BeginTurn
  <2>2. turn' <= MaxTurns /\ output' \in 0 .. turn'
    BY <1>1, <2>1 DEF AttemptsAreCounted
  <2>3. source' \in Values \cup {Missing}
    BY <2>1 DEF AttemptsAreCounted
  <2> QED
    BY <1>1, <2>1, <2>2, <2>3 DEF AttemptsAreCounted
<1>4. CASE CallRetried
  <2>1. attempt < Attempts(wiring) /\ attempt' = attempt + 1 /\ UNCHANGED <<source, turn, output>>
    BY <1>4 DEF CallRetried
  <2>2. Attempts(wiring) \in Nat /\ Attempts(wiring) <= MaxRetryAttempts
    <3>1. wiring.retries \in Nat
      BY <1>1, ContractsAssumption
    <3> QED
      BY <1>1, <3>1 DEF Attempts, Least
  <2>3. attempt \in Nat
    BY <1>1 DEF AttemptsAreCounted
  <2>4. attempt' \in 0 .. MaxRetryAttempts
    BY <1>1, <2>1, <2>2, <2>3
  <2> QED
    BY <2>1, <2>4 DEF AttemptsAreCounted
<1>5. CASE \/ Validate \/ TurnsEnd \/ BuildInput \/ CallSucceeds \/ CallBreaksContract
           \/ CallFails \/ CallStopped \/ UNCHANGED contractVars
  <2>1. UNCHANGED <<source, turn, attempt>>
    BY <1>5 DEF Validate, TurnsEnd, BuildInput, CallSucceeds, CallBreaksContract, CallFails, CallStopped, contractVars
  <2>2. output' \in {output, 0, turn}
    BY <1>5 DEF Validate, TurnsEnd, BuildInput, CallSucceeds, CallBreaksContract, CallFails, CallStopped, contractVars,
                SkipOrStop, EndTurn, OutputOfSkipped
  <2>3. output' \in 0 .. turn
    BY <1>1, <2>2 DEF AttemptsAreCounted
  <2>4. source' \in Values \cup {Missing} /\ turn' <= MaxTurns /\ output' \in 0 .. turn'
    BY <2>1, <2>3 DEF AttemptsAreCounted
  <2>5. attempt' \in 0 .. MaxRetryAttempts
    BY <2>1 DEF AttemptsAreCounted
  <2> QED
    BY <2>4, <2>5 DEF AttemptsAreCounted
<1> QED
  BY <1>2, <1>3, <1>4, <1>5 DEF ContractsNext

\* A step takes no turn and no attempt more than its bounds allow, and only a
\* step that is over has a failure (runForeach, runLoop, runPluginStep).
THEOREM ContractIsTyped == ContractsSpec => []ContractsTypeOK
<1>1. ContractsInit => ContractsInv /\ AttemptsAreCounted
  <2>1. ContractsInit => source = Missing /\ turn = 0 /\ output = 0 /\ attempt = 0
    BY DEF ContractsInit, StepIsNew
  <2>2. 0 <= MaxTurns /\ 0 \in 0 .. 0 /\ 0 \in 0 .. MaxRetryAttempts
    <3>1. MaxTurns \in Nat /\ MaxRetryAttempts \in Nat
      BY ContractsAssumption
    <3> QED
      BY <3>1
  <2>3. ContractsInit => AttemptsAreCounted
    BY <2>1, <2>2, Zenon DEF AttemptsAreCounted
  <2> QED
    BY <2>3, ContractsStart
<1>2. ContractsInv /\ AttemptsAreCounted /\ [ContractsNext]_contractVars
         => (ContractsInv /\ AttemptsAreCounted)'
  BY ContractsStep, AttemptsStayCounted
<1>3. ContractsInv /\ AttemptsAreCounted => ContractsTypeOK
  <2> SUFFICES ASSUME ContractsInv, AttemptsAreCounted PROVE ContractsTypeOK
    OBVIOUS
  <2>1. turn \in Nat /\ succeeded \subseteq 1 .. turn
    BY DEF ContractsInv, OutputIsRecent, ResultsInOrder
  <2>2. turn \in 0 .. MaxTurns
    <3>1. MaxTurns \in Nat
      BY ContractsAssumption
    <3> QED
      BY <2>1, <3>1 DEF AttemptsAreCounted
  <2>3. failure # "" => flow = "over"
    BY DEF ContractsInv, SourceIsKnown
  <2> QED
    BY <2>1, <2>2, <2>3 DEF ContractsInv, AttemptsAreCounted, ContractsTypeOK
<1> QED
  BY <1>1, <1>2, <1>3, PTL DEF ContractsSpec

-----------------------------------------------------------------------------
(* PipelineChecks                                                          *)

PhaseSteps == CASE stage = "pre" -> PreSteps(pipeline)
                [] stage = "items" -> LoopSteps(pipeline)
                [] stage = "post" -> PostSteps(pipeline)
                [] OTHER -> {}

Running == stage \in {"pre", "items", "post"}

\* A gate that lets nothing pass but what a human accepts.
Strict(g) == /\ IsGate(pipeline, g) /\ ~pipeline.steps[g].cond
             /\ pipeline.steps[g].onReject # "continue"

\* The steps of S had their turn, and of the strict gates in it each was
\* accepted.
Passed(S) == S \subseteq had /\ \A g \in S : Strict(g) => g \in accepted

\* Of the phase at hand all that is not ahead was passed, unless an item or the
\* steps after the items were aborted, where nothing is ahead; before that, the
\* steps ahead of the items were.
StepsArePassed ==
    /\ stage = "pre" \/ todo # {} => Passed(PhaseSteps \ todo)
    /\ stage \in {"items", "post"} => Passed(PreSteps(pipeline))
    /\ stage = "post" => LoopSteps(pipeline) \subseteq had

ChecksInv ==
    /\ pipeline \in Pipelines
    /\ stage \in {"asked", "refused", "pre", "items", "post", "over"}
    /\ todo \subseteq PhaseSteps
    /\ accepted \subseteq everAccepted
    /\ stage \in {"asked", "refused"} => starved = {} /\ unapproved = {}
    /\ stage \notin {"asked", "refused"} => ~HasErrors(pipeline) /\ ~ApprovalRequired(pipeline)
    /\ StepsArePassed
    /\ ChecksHold

\* The steps of a pipeline are in one of three phases, in this order.
LEMMA PhasesOf ==
    ASSUME pipeline \in Pipelines
    PROVE  /\ Positions(pipeline) = 1 .. Len(pipeline.steps) /\ Len(pipeline.steps) \in Nat
           /\ Positions(pipeline) = PreSteps(pipeline) \cup LoopSteps(pipeline) \cup PostSteps(pipeline)
           /\ PreSteps(pipeline) \cap LoopSteps(pipeline) = {}
           /\ PreSteps(pipeline) \cap PostSteps(pipeline) = {}
           /\ LoopSteps(pipeline) \cap PostSteps(pipeline) = {}
           /\ \A i \in PreSteps(pipeline) : 1 .. i - 1 \subseteq PreSteps(pipeline)
           /\ PhaseSteps \subseteq Positions(pipeline)
<1>1. pipeline.steps \in Seq(StepKinds)
  BY PipelineAssumption
<1>2. Positions(pipeline) = 1 .. Len(pipeline.steps) /\ Len(pipeline.steps) \in Nat
  BY <1>1 DEF Positions
<1>3. /\ PreSteps(pipeline) \subseteq Positions(pipeline)
      /\ \A i \in PreSteps(pipeline) : 1 .. i - 1 \subseteq PreSteps(pipeline)
  <2>1. CASE pipeline.foreach = "steps"
    <3>1. pipeline.source \in 1 .. Len(pipeline.steps) /\ PreSteps(pipeline) = 1 .. pipeline.source
      BY <2>1, PipelineAssumption DEF PreSteps
    <3> QED
      BY <1>2, <3>1
  <2>2. CASE pipeline.foreach # "steps"
    BY <2>2 DEF PreSteps
  <2> QED
    BY <2>1, <2>2
<1> QED
  BY <1>2, <1>3 DEF LoopSteps, PostSteps, PhaseSteps

\* Whatever lies before a step of the segment, in its phase, had its turn or is
\* in the segment with it, as a member of one group.
LEMMA SegmentComesFirst ==
    ASSUME pipeline \in Pipelines, todo \subseteq PhaseSteps, NEW first, IsFirst(first),
           NEW i \in SegmentAt(first)
    PROVE  /\ i \in todo
           /\ \A k \in PhaseSteps : k < i =>
                 \/ k \in PhaseSteps \ todo
                 \/ k \in SegmentAt(first) /\ pipeline.steps[k].group # 0
                    /\ pipeline.steps[k].group = pipeline.steps[i].group
<1>1. first \in todo /\ \A k \in todo : first <= k
  BY DEF IsFirst
<1>2. PhaseSteps \subseteq Nat
  BY PhasesOf
<1>3. CASE pipeline.steps[first].group = 0
  <2>1. i = first
    BY <1>3 DEF SegmentAt
  <2>2. ASSUME NEW k \in todo
        PROVE  ~(k < i)
    <3>1. k \in Nat /\ i \in Nat /\ i <= k
      BY <1>1, <1>2, <2>1
    <3> QED
      BY <3>1
  <2> QED
    BY <1>1, <2>1, <2>2
<1>4. CASE pipeline.steps[first].group # 0
  <2>1. SegmentAt(first) =
          {n \in todo : \A k \in todo : k <= n => pipeline.steps[k].group = pipeline.steps[first].group}
    BY <1>4 DEF SegmentAt
  <2>2. /\ i \in todo /\ i \in Nat
        /\ \A k \in todo : k <= i => pipeline.steps[k].group = pipeline.steps[first].group
    BY <1>2, <2>1
  <2>3. ASSUME NEW k \in todo, k < i
        PROVE  /\ k \in SegmentAt(first) /\ pipeline.steps[k].group # 0
               /\ pipeline.steps[k].group = pipeline.steps[i].group
    <3>0. k \in Nat
      BY <1>2
    <3>1. k \in Nat /\ k <= i /\ i <= i
      BY <2>2, <2>3, <3>0
    <3>2. pipeline.steps[k].group = pipeline.steps[first].group
      BY <2>2, <3>1
    <3>3. pipeline.steps[i].group = pipeline.steps[first].group
      BY <2>2, <3>1
    <3>4. ASSUME NEW j \in todo, j <= k
          PROVE  pipeline.steps[j].group = pipeline.steps[first].group
      <4>1. j \in Nat /\ j <= i
        BY <1>2, <2>2, <3>1, <3>4
      <4> QED
        BY <2>2, <4>1
    <3> QED
      BY <1>4, <2>1, <3>2, <3>3, <3>4
  <2> QED
    BY <2>2, <2>3
<1> QED
  BY <1>3, <1>4

\* Where nothing is wrong with a pipeline, a segment is one step, or a group
\* without gates; and its steps read what comes before them.
LEMMA NothingIsWrong ==
    ASSUME pipeline \in Pipelines, ~HasErrors(pipeline), NEW i \in Positions(pipeline)
    PROVE  /\ pipeline.steps[i].bind \subseteq 1 .. i - 1
           /\ IsGate(pipeline, i) => pipeline.steps[i].group = 0 /\ pipeline.steps[i].bind = {}
  BY DEF HasErrors, Prior

\* At the start nothing was judged and nothing ran.
LEMMA ChecksStart == PipelineInit => ChecksInv
  BY PipelineAssumption
     DEF PipelineInit, ChecksInv, StepsArePassed, ChecksHold, DangerIsApproved, SourcesComeFirst

\* Asking to run begins the first phase, or refuses the pipeline.
LEMMA RunIsAsked ==
    ASSUME ChecksInv, AskToRun
    PROVE  ChecksInv'
<1>1. /\ stage = "asked" /\ starved = {} /\ unapproved = {}
      /\ UNCHANGED <<pipeline, had, accepted, everAccepted, starved, unapproved>>
  BY DEF AskToRun, ChecksInv
<1>2. ChecksHold'
  BY <1>1 DEF ChecksHold, DangerIsApproved, SourcesComeFirst
<1>3. CASE HasErrors(pipeline) \/ ApprovalRequired(pipeline)
  <2>1. stage' = "refused" /\ todo' = todo /\ todo = {}
    BY <1>1, <1>3 DEF AskToRun, ChecksInv, PhaseSteps
  <2> QED
    BY <1>1, <1>2, <2>1 DEF ChecksInv, StepsArePassed
<1>4. CASE ~(HasErrors(pipeline) \/ ApprovalRequired(pipeline))
  <2>1. stage' = "pre" /\ todo' = PreSteps(pipeline)
    BY <1>4 DEF AskToRun
  <2>2. PhaseSteps' = PreSteps(pipeline)
    BY <1>1, <2>1 DEF PhaseSteps
  <2>3. StepsArePassed'
    BY <2>1, <2>2 DEF StepsArePassed, Passed
  <2> QED
    BY <1>1, <1>2, <1>4, <2>1, <2>2, <2>3 DEF ChecksInv
<1> QED
  BY <1>3, <1>4

\* What was not there when a step ran comes later, for a reason that is known.
LEMMA TurnsAreFed ==
    ASSUME ChecksInv, Running, NEW first, IsFirst(first), NEW ok,
           TakeTurn(SegmentAt(first), ok), pipeline' = pipeline
    PROVE  SourcesComeFirst'
<1>1. /\ pipeline \in Pipelines /\ todo \subseteq PhaseSteps /\ ~HasErrors(pipeline)
      /\ StepsArePassed /\ SourcesComeFirst
  BY DEF ChecksInv, Running, ChecksHold
<1>2. todo # {}
  BY DEF IsFirst
<1>3. ASSUME NEW i \in SegmentAt(first), ~(pipeline.steps[i].bind \subseteq had)
      PROVE  \E k \in pipeline.steps[i].bind :
                \/ pipeline.steps[k].group # 0 /\ pipeline.steps[k].group = pipeline.steps[i].group
                \/ k \in PostSteps(pipeline) /\ i \notin PostSteps(pipeline)
  <2>1. PICK k \in pipeline.steps[i].bind : k \notin had
    BY <1>3
  <2>2. i \in todo /\ i \in PhaseSteps /\ i \in Positions(pipeline)
    BY <1>1, SegmentComesFirst, PhasesOf
  <2>3. k \in 1 .. i - 1
    BY <1>1, <2>2, NothingIsWrong
  <2>4. k \in Positions(pipeline) /\ k < i
    BY <1>1, <2>2, <2>3, PhasesOf
  <2>5. k \notin PhaseSteps \ todo
    BY <1>1, <1>2, <2>1 DEF StepsArePassed, Passed
  <2>6. k \in PhaseSteps =>
          pipeline.steps[k].group # 0 /\ pipeline.steps[k].group = pipeline.steps[i].group
    BY <1>1, <2>4, <2>5, SegmentComesFirst
  <2>7. CASE stage = "pre"
    <3>1. i \in PreSteps(pipeline) /\ k \in PreSteps(pipeline) /\ PhaseSteps = PreSteps(pipeline)
      BY <1>1, <2>2, <2>3, <2>7, PhasesOf DEF PhaseSteps
    <3> QED
      BY <2>1, <2>6, <3>1
  <2>8. CASE stage = "items"
    <3>1. PhaseSteps = LoopSteps(pipeline) /\ i \notin PostSteps(pipeline)
      BY <1>1, <2>2, <2>8, PhasesOf DEF PhaseSteps
    <3>2. k \notin PreSteps(pipeline)
      BY <1>1, <2>1, <2>8 DEF StepsArePassed, Passed
    <3>3. k \in LoopSteps(pipeline) \/ k \in PostSteps(pipeline)
      BY <1>1, <2>4, <3>2, PhasesOf
    <3> QED
      BY <2>1, <2>6, <3>1, <3>3
  <2>9. CASE stage = "post"
    <3>1. PhaseSteps = PostSteps(pipeline)
      BY <2>9 DEF PhaseSteps
    <3>2. k \notin PreSteps(pipeline) /\ k \notin LoopSteps(pipeline)
      BY <1>1, <2>1, <2>9 DEF StepsArePassed, Passed
    <3>3. k \in PostSteps(pipeline)
      BY <1>1, <2>4, <3>2, PhasesOf
    <3> QED
      BY <2>1, <2>6, <3>1, <3>3
  <2> QED
    BY <2>7, <2>8, <2>9 DEF Running
<1>4. starved' = starved \cup {i \in SegmentAt(first) : ~(pipeline.steps[i].bind \subseteq had)}
  BY DEF TakeTurn
<1>5. PostSteps(pipeline)' = PostSteps(pipeline)
  BY DEF PostSteps, Positions, PreSteps
<1> QED
  BY <1>1, <1>3, <1>4, <1>5 DEF SourcesComeFirst

\* A dangerous step without an accepted gate has none ahead that is in force,
\* in the phases it is in and after.
LEMMA DangerIsKnown ==
    ASSUME ChecksInv, Running, NEW first, IsFirst(first), NEW i \in SegmentAt(first),
           pipeline.steps[i].kind = "danger", {g \in ApprovalsFor(i) : g < i} = {}
    PROVE  LET gates == EffectiveGates(pipeline, i) IN
           /\ gates # {}
           /\ IF i \in PostSteps(pipeline)
              THEN gates \subseteq LoopSteps(pipeline)
              ELSE pipeline.foreach = "none" /\ gates \subseteq PostSteps(pipeline)
<1>1. /\ pipeline \in Pipelines /\ todo \subseteq PhaseSteps
      /\ ~HasErrors(pipeline) /\ ~ApprovalRequired(pipeline)
      /\ StepsArePassed /\ accepted \subseteq everAccepted
  BY DEF ChecksInv, Running
<1>2. todo # {}
  BY DEF IsFirst
<1>3. i \in todo /\ i \in PhaseSteps /\ i \in Positions(pipeline) /\ i \in Nat
  BY <1>1, SegmentComesFirst, PhasesOf
<1>4. EffectiveGates(pipeline, i) # {}
  BY <1>1, <1>3 DEF ApprovalRequired
<1>5. ASSUME NEW g \in EffectiveGates(pipeline, i)
      PROVE  /\ g \in Positions(pipeline) /\ g \in 1 .. i - 1 /\ g < i /\ IsGate(pipeline, g)
             /\ Strict(g) /\ pipeline.steps[g].group = 0 /\ g \notin accepted
             /\ pipeline.foreach # "none" => ~pipeline.steps[g].after \/ pipeline.steps[i].after
  <2>1. g \in 1 .. i - 1 /\ IsGate(pipeline, g) /\ ~GateIneffective(pipeline, g, i)
    BY DEF EffectiveGates
  <2>2. g \in Positions(pipeline) /\ g < i
    BY <1>1, <1>3, <2>1, PhasesOf
  <2>3. Strict(g) /\ (pipeline.foreach # "none" => ~pipeline.steps[g].after \/ pipeline.steps[i].after)
    BY <2>1 DEF GateIneffective, Strict
  <2>4. g \notin accepted
    BY <1>1, <2>2 DEF ApprovalsFor
  <2>5. pipeline.steps[g].group = 0
    BY <1>1, <2>1, <2>2, NothingIsWrong
  <2> QED
    BY <2>1, <2>2, <2>3, <2>4, <2>5
<1>6. ASSUME NEW g \in EffectiveGates(pipeline, i)
      PROVE  g \notin PhaseSteps
  <2>1. g \in PhaseSteps => g \in PhaseSteps \ todo
    BY <1>1, <1>5, SegmentComesFirst
  <2> QED
    BY <1>1, <1>2, <1>5, <2>1 DEF StepsArePassed, Passed
<1>7. CASE stage = "pre"
  <2>1. PICK g \in EffectiveGates(pipeline, i) : TRUE
    BY <1>4
  <2>2. i \in PreSteps(pipeline) /\ PhaseSteps = PreSteps(pipeline)
    BY <1>3, <1>7 DEF PhaseSteps
  <2>3. g \in PreSteps(pipeline)
    BY <1>1, <1>5, <2>2, PhasesOf
  <2> QED
    BY <1>6, <2>2, <2>3
<1>8. CASE stage = "items"
  <2>1. /\ PhaseSteps = LoopSteps(pipeline) /\ i \in LoopSteps(pipeline)
        /\ i \notin PostSteps(pipeline) /\ ~pipeline.steps[i].after
    BY <1>1, <1>3, <1>8, PhasesOf DEF PhaseSteps, LoopSteps, PostSteps
  <2>2. ASSUME NEW g \in EffectiveGates(pipeline, i)
        PROVE  g \in PostSteps(pipeline) /\ pipeline.foreach = "none"
    <3>1. g \notin PreSteps(pipeline)
      BY <1>1, <1>5, <1>8 DEF StepsArePassed, Passed
    <3>2. g \in PostSteps(pipeline)
      BY <1>1, <1>5, <1>6, <2>1, <3>1, PhasesOf
    <3>3. pipeline.steps[g].after
      BY <3>2 DEF PostSteps
    <3> QED
      BY <1>5, <2>1, <3>2, <3>3
  <2> QED
    BY <1>4, <2>1, <2>2
<1>9. CASE stage = "post"
  <2>1. PhaseSteps = PostSteps(pipeline) /\ i \in PostSteps(pipeline)
    BY <1>3, <1>9 DEF PhaseSteps
  <2>2. ASSUME NEW g \in EffectiveGates(pipeline, i)
        PROVE  g \in LoopSteps(pipeline)
    <3>1. g \notin PreSteps(pipeline)
      BY <1>1, <1>5, <1>9 DEF StepsArePassed, Passed
    <3> QED
      BY <1>1, <1>5, <1>6, <2>1, <3>1, PhasesOf
  <2> QED
    BY <1>4, <2>1, <2>2
<1> QED
  BY <1>7, <1>8, <1>9 DEF Running

\* A turn passes the steps that had it, or ends the item, the steps after the
\* items, or the run.
LEMMA TurnPasses ==
    ASSUME ChecksInv, Running, NEW first, IsFirst(first), NEW segment, first \in segment, NEW ok \in BOOLEAN,
           pipeline' = pipeline, had' = had \cup segment,
           todo' = IF ok THEN todo \ segment ELSE {},
           accepted \subseteq accepted', accepted' \subseteq everAccepted',
           ok => stage' = stage /\ (\A g \in segment : Strict(g) => g \in accepted'),
           ~ok => stage' = "over" \/ (stage' = stage /\ stage # "pre"),
           ChecksHold'
    PROVE  ChecksInv'
<1>1. /\ pipeline \in Pipelines /\ todo \subseteq PhaseSteps /\ StepsArePassed
      /\ ~HasErrors(pipeline) /\ ~ApprovalRequired(pipeline) /\ todo # {}
  BY DEF ChecksInv, Running, IsFirst
<1>2. \A g : Strict(g)' <=> Strict(g)
  BY DEF Strict, IsGate
<1>3. /\ PreSteps(pipeline)' = PreSteps(pipeline) /\ LoopSteps(pipeline)' = LoopSteps(pipeline)
      /\ PostSteps(pipeline)' = PostSteps(pipeline)
  OBVIOUS
<1>4. HasErrors(pipeline)' = HasErrors(pipeline) /\ ApprovalRequired(pipeline)' = ApprovalRequired(pipeline)
  OBVIOUS
<1>5. \A S : Passed(S) => Passed(S)'
  BY <1>2 DEF Passed
<1>6. CASE ok
  <2>1. stage' = stage /\ todo' = todo \ segment /\ PhaseSteps' = PhaseSteps
    BY <1>6 DEF PhaseSteps
  <2>2. ASSUME NEW i \in PhaseSteps \ todo'
        PROVE  i \in had' /\ (Strict(i)' => i \in accepted')
    <3>1. CASE i \in segment
      BY <1>2, <1>6, <3>1
    <3>2. CASE i \notin segment
      <4>1. i \in PhaseSteps \ todo
        BY <2>1, <3>2
      <4> QED
        BY <1>1, <1>2, <4>1 DEF StepsArePassed, Passed
    <3> QED
      BY <3>1, <3>2
  <2>3. Passed(PhaseSteps \ todo)'
    BY <2>1, <2>2 DEF Passed
  <2>4. StepsArePassed'
    BY <1>1, <1>3, <1>5, <2>1, <2>3 DEF StepsArePassed
  <2> QED
    BY <1>1, <1>4, <2>1, <2>4 DEF ChecksInv, Running
<1>7. CASE ~ok
  <2>1. todo' = {} /\ stage' # "pre" /\ stage' \in {stage, "over"}
    BY <1>7
  <2>2. StepsArePassed'
    BY <1>1, <1>3, <1>5, <2>1 DEF StepsArePassed
  <2> QED
    BY <1>1, <1>4, <2>1, <2>2 DEF ChecksInv, Running
<1> QED
  BY <1>6, <1>7

\* The first step that is left is one of the pipeline and of its own segment.
LEMMA FirstIsRunning ==
    ASSUME ChecksInv, NEW first, IsFirst(first)
    PROVE  Running /\ first \in Positions(pipeline) /\ first \in SegmentAt(first)
<1>1. first \in todo /\ \A k \in todo : first <= k
  BY DEF IsFirst
<1>2. first \in PhaseSteps /\ pipeline \in Pipelines
  BY <1>1 DEF ChecksInv
<1>3. first \in Positions(pipeline) /\ first \in Nat /\ todo \subseteq Nat
  BY <1>2, PhasesOf DEF ChecksInv
<1>4. \A k \in todo : k <= first => k = first
  BY <1>1, <1>3
<1> QED
  BY <1>1, <1>2, <1>3, <1>4 DEF PhaseSteps, Running, SegmentAt

\* A segment that runs keeps the invariant, gates passed included.
LEMMA SegmentRuns ==
    ASSUME ChecksInv, NEW first, RunSegment(first)
    PROVE  ChecksInv'
<1> DEFINE segment == SegmentAt(first)
<1>1. /\ IsFirst(first) /\ ~IsGate(pipeline, first)
      /\ unapproved' = unapproved \cup {i \in segment :
             pipeline.steps[i].kind = "danger" /\ {g \in ApprovalsFor(i) : g < i} = {}}
      /\ pipeline' = pipeline /\ accepted' = accepted /\ everAccepted' = everAccepted
  BY DEF RunSegment
<1>2. PICK ok \in BOOLEAN :
          /\ TakeTurn(segment, ok)
          /\ stage' = IF ~ok /\ (stage = "pre" \/ segment # {first}) THEN "over" ELSE stage
  BY DEF RunSegment
<1>3. Running /\ first \in segment
  BY <1>1, FirstIsRunning
<1>4. had' = had \cup segment /\ todo' = IF ok THEN todo \ segment ELSE {}
  BY <1>2 DEF TakeTurn
<1>5. SourcesComeFirst'
  BY <1>1, <1>2, <1>3, TurnsAreFed
<1>6. DangerIsApproved'
  <2>1. /\ \A i : EffectiveGates(pipeline', i) = EffectiveGates(pipeline, i)
        /\ PostSteps(pipeline)' = PostSteps(pipeline) /\ LoopSteps(pipeline)' = LoopSteps(pipeline)
    BY <1>1
  <2>2. DangerIsApproved
    BY DEF ChecksInv, ChecksHold
  <2> HIDE DEF segment
  <2>3. ASSUME NEW i \in unapproved'
        PROVE  LET gates == EffectiveGates(pipeline, i) IN
               /\ gates # {}
               /\ IF i \in PostSteps(pipeline)
                  THEN gates \subseteq LoopSteps(pipeline)
                  ELSE pipeline.foreach = "none" /\ gates \subseteq PostSteps(pipeline)
    <3>1. CASE i \in unapproved
      BY <2>2, <3>1 DEF DangerIsApproved
    <3>2. CASE i \notin unapproved
      <4>1. i \in segment /\ pipeline.steps[i].kind = "danger" /\ {g \in ApprovalsFor(i) : g < i} = {}
        BY <1>1, <3>2
      <4> QED
        BY <1>1, <1>3, <4>1, DangerIsKnown DEF segment
    <3> QED
      BY <3>1, <3>2
  <2> QED
    BY <1>1, <2>1, <2>3 DEF DangerIsApproved
<1>7. \A g \in segment : ~Strict(g)
  <2>1. ASSUME NEW g \in segment, IsGate(pipeline, g)
        PROVE  FALSE
    <3>1. pipeline \in Pipelines /\ todo \subseteq PhaseSteps /\ ~HasErrors(pipeline)
      BY <1>3 DEF ChecksInv, Running
    <3>2. g \in todo /\ g \in Positions(pipeline) /\ g \in Nat /\ first \in todo /\ first \in Nat
      BY <1>1, <2>1, <3>1, SegmentComesFirst, PhasesOf DEF IsFirst
    <3>3. pipeline.steps[g].group = 0 /\ g # first
      BY <1>1, <2>1, <3>1, <3>2, NothingIsWrong
    <3>4. g \in {i \in todo : \A k \in todo : k <= i => pipeline.steps[k].group = pipeline.steps[first].group}
          /\ pipeline.steps[first].group # 0
      BY <2>1, <3>3 DEF SegmentAt
    <3>5. g <= g
      BY <3>2
    <3> QED
      BY <3>2, <3>3, <3>4, <3>5
  <2> QED
    BY <2>1 DEF Strict
<1> HIDE DEF segment
<1>8. accepted \subseteq everAccepted
  BY DEF ChecksInv
<1>9. ChecksHold'
  BY <1>5, <1>6 DEF ChecksHold
<1> QED
  BY <1>1, <1>2, <1>3, <1>4, <1>7, <1>8, <1>9, TurnPasses

\* A step whose condition fails does no harm to those after it.
LEMMA StepIsSkipped ==
    ASSUME ChecksInv, NEW first, SkipStep(first)
    PROVE  ChecksInv'
<1>1. /\ IsFirst(first) /\ pipeline.steps[first].cond
      /\ had' = had \cup {first} /\ todo' = todo \ {first}
      /\ UNCHANGED <<pipeline, stage, accepted, everAccepted, starved, unapproved>>
  BY DEF SkipStep
<1>2. Running
  BY <1>1, FirstIsRunning
<1>3. ChecksHold' /\ accepted \subseteq everAccepted
  BY <1>1 DEF ChecksInv, ChecksHold, DangerIsApproved, SourcesComeFirst
<1>4. ~Strict(first)
  BY <1>1 DEF Strict
<1> DEFINE ok == TRUE
<1>5. ok \in BOOLEAN /\ ok /\ todo' = IF ok THEN todo \ {first} ELSE {}
  BY <1>1
<1> HIDE DEF ok
<1> QED
  BY <1>1, <1>2, <1>3, <1>4, <1>5, TurnPasses

\* A gate is accepted, or what comes after it in its item is aborted.
LEMMA GateRuns ==
    ASSUME ChecksInv, NEW g, RunGate(g)
    PROVE  ChecksInv'
<1>1. IsFirst(g) /\ IsGate(pipeline, g) /\ UNCHANGED <<pipeline, itemsLeft, unapproved>>
  BY DEF RunGate
<1>2. PICK word \in {"accept", "reject", "stop"} :
          LET ok == word = "accept" \/ (word = "reject" /\ RejectGoesOn(g)) IN
          /\ TakeTurn({g}, ok)
          /\ accepted' = IF word = "accept" THEN accepted \cup {g} ELSE accepted
          /\ everAccepted' = IF word = "accept" THEN everAccepted \cup {g} ELSE everAccepted
          /\ stage' = IF ~ok /\ stage = "pre" THEN "over" ELSE stage
  BY DEF RunGate
<1> DEFINE ok == word = "accept" \/ (word = "reject" /\ RejectGoesOn(g))
<1>3. /\ ok \in BOOLEAN /\ TakeTurn({g}, ok)
      /\ stage' = IF ~ok /\ stage = "pre" THEN "over" ELSE stage
      /\ Strict(g) /\ ok => word = "accept"
  BY <1>2 DEF Strict, RejectGoesOn
<1>4. /\ accepted \subseteq accepted' /\ (word = "accept" => g \in accepted')
      /\ accepted' \subseteq everAccepted'
  BY <1>2 DEF ChecksInv
<1> HIDE DEF ok
<1>5. Running /\ g \in Positions(pipeline) /\ pipeline \in Pipelines /\ ~HasErrors(pipeline)
  BY <1>1, FirstIsRunning DEF ChecksInv, Running
<1>6. SegmentAt(g) = {g}
  BY <1>1, <1>5, NothingIsWrong DEF SegmentAt
<1>7. SourcesComeFirst'
  BY <1>1, <1>3, <1>5, <1>6, TurnsAreFed
<1>8. DangerIsApproved'
  BY <1>1 DEF ChecksInv, ChecksHold, DangerIsApproved
<1>9. had' = had \cup {g} /\ todo' = IF ok THEN todo \ {g} ELSE {}
  BY <1>3 DEF TakeTurn
<1>10. ChecksHold'
  BY <1>7, <1>8 DEF ChecksHold
<1> QED
  BY <1>1, <1>3, <1>4, <1>5, <1>9, <1>10, TurnPasses

\* The phase of the items begins or, without any, the one after it.
LEMMA ItemsStart ==
    ASSUME ChecksInv, StartItems
    PROVE  ChecksInv'
<1>1. /\ stage = "pre" /\ todo = {}
      /\ UNCHANGED <<pipeline, accepted, everAccepted, starved, unapproved>>
      /\ \/ stage' = "post" /\ todo' = PostSteps(pipeline) /\ had' = had \cup LoopSteps(pipeline)
         \/ stage' = "items" /\ todo' = LoopSteps(pipeline) /\ had' = had
  BY DEF StartItems
<1>2. Passed(PreSteps(pipeline))
  BY <1>1 DEF ChecksInv, StepsArePassed, PhaseSteps
<1>3. Passed(PreSteps(pipeline))'
  BY <1>1, <1>2 DEF Passed, Strict, IsGate
<1>4. todo' = PhaseSteps'
  BY <1>1 DEF PhaseSteps
<1>5. StepsArePassed'
  BY <1>1, <1>3, <1>4 DEF StepsArePassed, Passed
<1>6. ChecksHold'
  BY <1>1 DEF ChecksInv, ChecksHold, DangerIsApproved, SourcesComeFirst
<1> QED
  BY <1>1, <1>4, <1>5, <1>6 DEF ChecksInv

\* At the end of an item the next begins, or the phase after the items.
LEMMA ItemEnds ==
    ASSUME ChecksInv, EndItem
    PROVE  ChecksInv'
<1>1. /\ stage = "items"
      /\ UNCHANGED <<pipeline, everAccepted, starved, unapproved>>
      /\ \/ /\ stage' = "items" /\ todo' = LoopSteps(pipeline) /\ had' = had \ LoopSteps(pipeline)
            /\ accepted' = accepted \ LoopSteps(pipeline)
         \/ /\ stage' = "post" /\ todo' = PostSteps(pipeline) /\ had' = had \cup LoopSteps(pipeline)
            /\ accepted' = accepted
  BY DEF EndItem
<1>2. Passed(PreSteps(pipeline)) /\ PreSteps(pipeline) \cap LoopSteps(pipeline) = {}
  BY <1>1, PhasesOf DEF ChecksInv, StepsArePassed
<1>3. Passed(PreSteps(pipeline))'
  BY <1>1, <1>2 DEF Passed, Strict, IsGate
<1>4. todo' = PhaseSteps'
  BY <1>1 DEF PhaseSteps
<1>5. StepsArePassed'
  BY <1>1, <1>3, <1>4 DEF StepsArePassed, Passed
<1>6. ChecksHold'
  BY <1>1 DEF ChecksInv, ChecksHold, DangerIsApproved, SourcesComeFirst
<1> QED
  BY <1>1, <1>4, <1>5, <1>6 DEF ChecksInv

\* The invariant of an execution is inductive.
LEMMA ChecksStep == ChecksInv /\ [PipelineNext]_pipelineVars => ChecksInv'
<1> SUFFICES ASSUME ChecksInv, [PipelineNext]_pipelineVars
             PROVE  ChecksInv'
  OBVIOUS
<1>1. CASE FinishPipeline \/ UNCHANGED pipelineVars
  <2>1. /\ UNCHANGED <<pipeline, todo, had, accepted, everAccepted, starved, unapproved>>
        /\ stage' = stage \/ (stage = "post" /\ stage' = "over" /\ todo = {})
    BY <1>1 DEF FinishPipeline, pipelineVars
  <2>2. ChecksHold'
    BY <2>1 DEF ChecksInv, ChecksHold, DangerIsApproved, SourcesComeFirst
  <2>3. CASE stage' = stage
    BY <2>1, <2>2, <2>3 DEF ChecksInv, StepsArePassed, Passed, PhaseSteps, Strict, IsGate
  <2>4. CASE stage = "post" /\ stage' = "over" /\ todo = {}
    <3>1. StepsArePassed' /\ todo' \subseteq PhaseSteps'
      BY <2>1, <2>4 DEF StepsArePassed
    <3> QED
      BY <2>1, <2>2, <2>4, <3>1 DEF ChecksInv
  <2> QED
    BY <2>1, <2>3, <2>4
<1>2. CASE AskToRun
  BY <1>2, RunIsAsked
<1>3. ASSUME NEW i \in todo, RunSegment(i) \/ SkipStep(i) \/ RunGate(i)
      PROVE  ChecksInv'
  BY <1>3, SegmentRuns, StepIsSkipped, GateRuns
<1>4. CASE StartItems
  BY <1>4, ItemsStart
<1>5. CASE EndItem
  BY <1>5, ItemEnds
<1> QED
  BY <1>1, <1>2, <1>3, <1>4, <1>5 DEF PipelineNext

\* Whatever pipeline validation and the gate policy let through, and however
\* its steps, items and gates end: no dangerous step runs without an accepted
\* gate, and no step before what it reads, but for the cases that are named
\* (gate_policy.go 157-271, validate_issues.go 202-312).
THEOREM WhatIsCheckedHolds == PipelineSpec => []ChecksHold
<1>1. ChecksInv => ChecksHold
  BY DEF ChecksInv
<1> QED
  BY <1>1, ChecksStart, ChecksStep, PTL DEF PipelineSpec

\* What had its turn, was starved or ran unapproved are steps of the pipeline.
StepsAreSteps == had \cup starved \cup unapproved \subseteq Positions(pipeline)

\* What is noted of the execution stays within its pipeline.
LEMMA StepsStay ==
    ASSUME ChecksInv, StepsAreSteps, [PipelineNext]_pipelineVars
    PROVE  StepsAreSteps'
<1>1. /\ pipeline \in Pipelines /\ todo \subseteq Positions(pipeline)
      /\ LoopSteps(pipeline) \subseteq Positions(pipeline)
  <2>1. pipeline \in Pipelines /\ todo \subseteq PhaseSteps
    BY DEF ChecksInv
  <2> QED
    BY <2>1, PhasesOf
<1>2. CASE AskToRun \/ FinishPipeline \/ UNCHANGED pipelineVars
  BY <1>2 DEF AskToRun, FinishPipeline, pipelineVars, StepsAreSteps
<1>3. CASE StartItems \/ EndItem
  BY <1>1, <1>3 DEF StartItems, EndItem, StepsAreSteps
<1>4. ASSUME NEW i \in todo, RunSegment(i)
      PROVE  StepsAreSteps'
  <2>1. SegmentAt(i) \subseteq Positions(pipeline)
    BY <1>1 DEF SegmentAt
  <2>2. /\ pipeline' = pipeline /\ had' = had \cup SegmentAt(i)
        /\ starved' \subseteq starved \cup SegmentAt(i) /\ unapproved' \subseteq unapproved \cup SegmentAt(i)
    BY <1>4 DEF RunSegment, TakeTurn
  <2> QED
    BY <2>1, <2>2 DEF StepsAreSteps
<1>5. ASSUME NEW i \in todo, SkipStep(i) \/ RunGate(i)
      PROVE  StepsAreSteps'
  <2>1. /\ pipeline' = pipeline /\ had' = had \cup {i}
        /\ starved' \subseteq starved \cup {i} /\ unapproved' = unapproved
    BY <1>5 DEF SkipStep, RunGate, TakeTurn
  <2> QED
    BY <1>1, <2>1 DEF StepsAreSteps
<1> QED
  BY <1>2, <1>3, <1>4, <1>5 DEF PipelineNext

\* A pipeline that was refused or is over has nothing left to run, and a step
\* runs, waits or is blamed only if it is one of the pipeline's.
THEOREM PipelineIsTyped == PipelineSpec => []PipelineTypeOK
<1>1. PipelineInit => ChecksInv /\ StepsAreSteps
  BY ChecksStart DEF PipelineInit, StepsAreSteps
<1>2. ChecksInv /\ StepsAreSteps /\ [PipelineNext]_pipelineVars => (ChecksInv /\ StepsAreSteps)'
  BY ChecksStep, StepsStay
<1>3. ChecksInv /\ StepsAreSteps => PipelineTypeOK
  BY DEF ChecksInv, StepsAreSteps, PipelineTypeOK, PhaseSteps
<1> QED
  BY <1>1, <1>2, <1>3, PTL DEF PipelineSpec

=============================================================================
