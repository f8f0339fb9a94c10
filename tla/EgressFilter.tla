---------------------------- MODULE EgressFilter ----------------------------
(***************************************************************************)
(* The proxy through which a sandboxed plugin reaches the network          *)
(* (internal/plugin/egress.go): who may be asked for, which address is     *)
(* dialled while names change under the proxy, and what stop does to the   *)
(* tunnels that are being set up or are open at that moment.               *)
(*                                                                         *)
(* A host is a sequence of labels, the most special first. A tunnel has    *)
(* two ends, the client's and the upstream's.                              *)
(***************************************************************************)
EXTENDS Naturals, Sequences, SequencesExt

CONSTANTS
    Asks,      \* requests to consider: connect or forward, host, port
    Allow,     \* permissions.network: any_host, pattern, port (0 for any)
    HostNames, \* hosts of Asks
    MaxAnswers \* bound on changes of the name server's answers

Kinds == {"public", "private", "carrier", "loopback", "link local", "multicast", "unique local"}
TLSPorts == {443, 8443}

ASSUME EgressAssumption ==
    /\ \A a \in Asks : a.connect \in BOOLEAN /\ a.host \in HostNames /\ a.port \in Nat
    /\ \A p \in Allow : p.anyHost \in BOOLEAN /\ p.pattern \in Seq(STRING) /\ p.port \in Nat

VARIABLES
    dns,      \* addresses a name stands for now
    answers,  \* changes of dns so far
    filter,   \* "open", "closing" once stop has set closed, "stopped"
    doomed,   \* connections stop found
    step,     \* where the handler of each request is
    checked,  \* address that resolveChecked returned
    dialled,  \* address dialled
    tracked,  \* egress.conns
    shut      \* connections closed

egressVars == <<dns, answers, filter, doomed, step, checked, dialled, tracked, shut>>

Steps == {"new", "refused", "resolve", "hijack", "dial", "reply", "relay", "half", "over"}
Ends(a) == {<<a, "client">>, <<a, "upstream">>}

\* denyNetwork: everything that is not public.
DenyNetwork(address) == address # "public"

\* matchHost: "*" is good for every name, "*.name" for those below name.
MatchHost(pattern, host) ==
    \/ pattern = host /\ pattern # <<>>
    \/ /\ pattern # <<>> /\ Head(pattern) = "*"
       /\ IsSuffix(Tail(pattern), host) /\ Len(host) > Len(Tail(pattern))

HostIsAllowed(host, port) ==
    \E p \in Allow : p.port \in {0, port} /\ (p.anyHost \/ MatchHost(p.pattern, host))

\* splitHostPort leaves 0 where there is no port.
Port(a) == IF a.port # 0 THEN a.port ELSE IF a.connect THEN 443 ELSE 80

Admitted(a) == HostIsAllowed(a.host, Port(a)) /\ (a.connect => Port(a) \in TLSPorts)

EgressInit ==
    /\ dns \in [HostNames -> {{"public"}, {"private"}}]
    /\ answers = 0
    /\ filter = "open"
    /\ doomed = {}
    /\ step = [a \in Asks |-> "new"]
    /\ checked = [a \in Asks |-> "none"]
    /\ dialled = [a \in Asks |-> "none"]
    /\ tracked = {}
    /\ shut = {}

StepFrom(a, from, to) == step[a] = from /\ step' = [step EXCEPT ![a] = to]

AskFilter(a) ==
    /\ filter = "open"
    /\ StepFrom(a, "new", IF Admitted(a) THEN "resolve" ELSE "refused")
    /\ UNCHANGED <<dns, answers, filter, doomed, checked, dialled, tracked, shut>>

\* Every address of the name is checked; the first is used.
ResolveChecked(a) ==
    /\ \/ /\ \E address \in dns[a.host] : DenyNetwork(address)
          /\ StepFrom(a, "resolve", "refused")
          /\ UNCHANGED checked
       \/ \E address \in dns[a.host] :
              /\ \A other \in dns[a.host] : ~DenyNetwork(other)
              /\ StepFrom(a, "resolve", IF a.connect THEN "hijack" ELSE "dial")
              /\ checked' = [checked EXCEPT ![a] = address]
    /\ UNCHANGED <<dns, answers, filter, doomed, dialled, tracked, shut>>

\* Mutant: a connection is tracked although stop has been through.
TrackAlways(c) == tracked' = tracked \cup {c} /\ shut' = shut

\* Once the filter is closed a connection is closed instead of tracked.
Track(c) ==
    IF filter = "open" THEN tracked' = tracked \cup {c} /\ shut' = shut
                       ELSE tracked' = tracked /\ shut' = shut \cup {c}

HijackClient(a) ==
    /\ StepFrom(a, "hijack", "dial")
    /\ Track(<<a, "client">>)
    /\ UNCHANGED <<dns, answers, filter, doomed, checked, dialled>>

\* The literal address that was checked.
DialTarget(a) == {checked[a]}

\* A forwarded request is over with its answer; a tunnel tracks its other end.
Dial(a) ==
    /\ \/ /\ StepFrom(a, "dial", "over") /\ a.connect
          /\ tracked' = tracked \ Ends(a)
          /\ shut' = shut \cup {<<a, "client">>}
          /\ UNCHANGED dialled
       \/ \E address \in DialTarget(a) :
             /\ dialled' = [dialled EXCEPT ![a] = address]
             /\ IF a.connect THEN StepFrom(a, "dial", "reply") /\ Track(<<a, "upstream">>)
                             ELSE StepFrom(a, "dial", "over") /\ UNCHANGED <<tracked, shut>>
    /\ UNCHANGED <<dns, answers, filter, doomed, checked>>

\* "200 Connection Established" cannot be written to a closed client.
Reply(a) ==
    /\ IF <<a, "client">> \in shut
       THEN /\ StepFrom(a, "reply", "over")
            /\ shut' = shut \cup {<<a, "upstream">>}
            /\ tracked' = tracked \ Ends(a)
       ELSE StepFrom(a, "reply", "relay") /\ UNCHANGED <<tracked, shut>>
    /\ UNCHANGED <<dns, answers, filter, doomed, checked, dialled>>

\* relay returns with the first direction that ends; the handler untracks
\* both connections, and the other direction goes on to its deadline.
RelayReturns(a) ==
    /\ StepFrom(a, "relay", "half")
    /\ tracked' = tracked \ Ends(a)
    /\ UNCHANGED <<dns, answers, filter, doomed, checked, dialled, shut>>

RelayDeadline(a) ==
    /\ StepFrom(a, "half", "over")
    /\ UNCHANGED <<dns, answers, filter, doomed, checked, dialled, tracked, shut>>

\* stop: the connections of this moment are copied under the lock ...
StopFilter ==
    /\ filter = "open"
    /\ filter' = "closing"
    /\ doomed' = tracked
    /\ UNCHANGED <<dns, answers, step, checked, dialled, tracked, shut>>

\* ... and closed after Shutdown.
CloseDoomed ==
    /\ filter = "closing"
    /\ filter' = "stopped"
    /\ shut' = shut \cup doomed
    /\ UNCHANGED <<dns, answers, doomed, step, checked, dialled, tracked>>

NameChanges(h) ==
    /\ answers < MaxAnswers
    /\ answers' = answers + 1
    /\ dns' \in {[dns EXCEPT ![h] = some] : some \in {{"public"}, {"private"}, {"public", "private"}} \ {dns[h]}}
    /\ UNCHANGED <<filter, doomed, step, checked, dialled, tracked, shut>>

EgressNext ==
    \/ \E a \in Asks :
          \/ AskFilter(a) \/ ResolveChecked(a) \/ HijackClient(a) \/ Dial(a)
          \/ Reply(a) \/ RelayReturns(a) \/ RelayDeadline(a)
    \/ StopFilter \/ CloseDoomed
    \/ \E h \in HostNames : NameChanges(h)

EgressSpec == EgressInit /\ [][EgressNext]_egressVars

-----------------------------------------------------------------------------
\* Type correctness.
EgressTypeOK ==
    /\ dns \in [HostNames -> SUBSET Kinds]
    /\ filter \in {"open", "closing", "stopped"}
    /\ step \in [Asks -> Steps]
    /\ checked \in [Asks -> Kinds \cup {"none"}] /\ dialled \in [Asks -> Kinds \cup {"none"}]
    /\ tracked \subseteq UNION {Ends(a) : a \in Asks}

\* Whatever the name server answers between the check and the dialling, only
\* addresses that are not denied are dialled, for hosts that are listed
\* (egress.go:28-33), and whenever a connection comes up, during a stop or
\* after it, the filter that has stopped leaves no tracked one open (140-171).
NothingSlipsThrough ==
    /\ \A a \in Asks : dialled[a] # "none" => ~DenyNetwork(dialled[a]) /\ Admitted(a)
    /\ filter = "stopped" => tracked \subseteq shut
=============================================================================
