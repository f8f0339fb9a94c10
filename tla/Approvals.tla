----------------------------- MODULE Approvals ------------------------------
(***************************************************************************)
(* Signed links that decide a gate (internal/gate/approver.go, link.go) of *)
(* one run of the web server, whose gates come one after the other and may *)
(* belong to the same step again, for another item. Asking for the waiting *)
(* gate (handleRunGate, approveLink) reads which step waits and then       *)
(* registers the run's gate and makes a link; a POST of the link's page    *)
(* finds the gate, burns the link and sends the decision, all in separate  *)
(* steps, so that a link may be registered for the gate of another step.   *)
(*                                                                         *)
(* Links are numbered as they are made. The terminal (fidespipe approve    *)
(* --link) signs with the same key and registers nothing.                  *)
(***************************************************************************)
EXTENDS Naturals, FiniteSets, Sequences

CONSTANTS
    GateSteps, \* steps with a gate
    Posters,   \* requests that post a link
    LinkTTL,   \* how long a link is good, an hour in the code
    MaxGates,  \* bound on the gates of the run
    MaxLinks,  \* bound on links
    MaxClock   \* bound on the clock

NoStep == "no step"

ASSUME ApprovalsAssumption == NoStep \notin GateSteps /\ LinkTTL \in Nat /\ MaxGates \in Nat /\ MaxLinks \in Nat

VARIABLES
    stepOf,    \* the steps of the gates so far; the last is the current one
    waiting,   \* the run waits at the current gate
    gateUI,    \* channel of each gate: "idle" or "decided"
    asked,     \* step of the waiting gate that a GET read from the journal
    pending,   \* Approver.pending: gate registered for a step, 0 for none
    links,     \* links made, with step and expiry
    burned,    \* Approver.burned
    poster,    \* what each request has got so far
    clock,
    delivered  \* history: how each link reached a gate

approvalVars == <<stepOf, waiting, gateUI, asked, pending, links, burned, poster, clock, delivered>>
gateVars == <<stepOf, waiting>>
linkVars == <<asked, pending, links>>

Resting == [at |-> "idle", link |-> 0, gate |-> 0, action |-> "accept"]
Latest == Len(stepOf)
Verified(l) == l \in DOMAIN links /\ clock <= links[l].expires

\* allowedAction: the gate's own list, or accept and reject.
AllowedAction(action) == action # "unknown"

ApprovalsInit ==
    /\ stepOf = <<>>
    /\ waiting = FALSE
    /\ gateUI = [g \in 1 .. MaxGates |-> "idle"]
    /\ asked = NoStep
    /\ pending = [s \in GateSteps |-> 0]
    /\ links = <<>>
    /\ burned = {}
    /\ poster = [p \in Posters |-> Resting]
    /\ clock = 0
    /\ delivered = {}

-----------------------------------------------------------------------------
(* The run: it comes to a gate, and WaitDecision returns                   *)

ComeToGate(s) ==
    /\ ~waiting
    /\ Latest < MaxGates
    /\ stepOf' = Append(stepOf, s)
    /\ waiting' = TRUE
    /\ UNCHANGED <<gateUI, linkVars, burned, poster, clock, delivered>>

HearDecision ==
    /\ waiting
    /\ gateUI[Latest] = "decided"
    /\ waiting' = FALSE
    /\ gateUI' = [gateUI EXCEPT ![Latest] = "idle"]
    /\ UNCHANGED <<stepOf, linkVars, burned, poster, clock, delivered>>

\* The POST of handleRunGate, with a session instead of a link.
DecideOnPage ==
    /\ waiting
    /\ gateUI[Latest] = "idle"
    /\ gateUI' = [gateUI EXCEPT ![Latest] = "decided"]
    /\ UNCHANGED <<gateVars, linkVars, burned, poster, clock, delivered>>

-----------------------------------------------------------------------------
(* Links                                                                   *)

MakeLink(s) == links' = Append(links, [step |-> s, expires |-> clock + LinkTTL])

\* The GET of handleRunGate finds in the journal that a step waits ...
ReadWait ==
    /\ waiting
    /\ asked = NoStep
    /\ asked' = stepOf[Latest]
    /\ UNCHANGED <<gateVars, gateUI, pending, links, burned, poster, clock, delivered>>

\* ... and registers for that step the gate the run has by now; Register
\* overwrites what is there for the step.
Register ==
    /\ asked # NoStep
    /\ asked' = NoStep
    /\ Len(links) < MaxLinks
    /\ MakeLink(asked)
    /\ pending' = [pending EXCEPT ![asked] = Latest]
    /\ UNCHANGED <<gateVars, gateUI, burned, poster, clock, delivered>>

\* SignLink for the terminal.
SignLink(s) ==
    /\ Len(links) < MaxLinks
    /\ MakeLink(s)
    /\ UNCHANGED <<gateVars, gateUI, asked, pending, burned, poster, clock, delivered>>

\* handleApprove: without a registered gate the page says it is closed.
HandleApprove(p, l, action) ==
    /\ poster[p] = Resting
    /\ Verified(l)
    /\ pending[links[l].step] # 0
    /\ poster' = [poster EXCEPT ![p] = [at |-> "deliver", link |-> l, gate |-> 0, action |-> action]]
    /\ UNCHANGED <<gateVars, gateUI, linkVars, burned, clock, delivered>>

\* Mutant: the link stays good.
NeverBurn(l) == burned

\* Under the lock: the link is burned before its decision is sent.
Burn(l) == burned \cup {l}

\* Deliver, up to where it gives the lock back. A gate that is no longer
\* registered is looked up by the run alone (Resolver), and burns nothing.
Deliver(p) ==
    LET l == poster[p].link
        g == pending[links[l].step]
    IN
    /\ poster[p].at = "deliver"
    /\ \/ /\ ~Verified(l) \/ l \in burned \/ (g = 0 /\ Latest = 0)
          /\ poster' = [poster EXCEPT ![p] = Resting]
          /\ UNCHANGED burned
       \/ /\ Verified(l) /\ l \notin burned /\ g # 0
          /\ burned' = Burn(l)
          /\ poster' = [poster EXCEPT ![p].at = "send", ![p].gate = g]
       \/ /\ Verified(l) /\ l \notin burned /\ g = 0 /\ Latest # 0
          /\ poster' = [poster EXCEPT ![p].at = "resolved", ![p].gate = Latest]
          /\ UNCHANGED burned
    /\ UNCHANGED <<gateVars, gateUI, linkVars, clock, delivered>>

\* allowedAction and SendDecision; only a delivered decision unregisters.
SendDecision(p) ==
    LET q == poster[p]
        sent == AllowedAction(q.action) /\ gateUI[q.gate] = "idle"
    IN
    /\ q.at \in {"send", "resolved"}
    /\ gateUI' = IF sent THEN [gateUI EXCEPT ![q.gate] = "decided"] ELSE gateUI
    /\ poster' = [poster EXCEPT ![p] = IF sent THEN [q EXCEPT !.at = "unregister"] ELSE Resting]
    /\ delivered' = IF sent
                    THEN delivered \cup {[link |-> q.link, gate |-> q.gate, way |-> q.at, by |-> p, n |-> Cardinality(delivered)]}
                    ELSE delivered
    /\ UNCHANGED <<gateVars, linkVars, burned, clock>>

Unregister(p) ==
    /\ poster[p].at = "unregister"
    /\ pending' = [pending EXCEPT ![links[poster[p].link].step] = 0]
    /\ poster' = [poster EXCEPT ![p] = Resting]
    /\ UNCHANGED <<gateVars, gateUI, asked, links, burned, clock, delivered>>

PassTime ==
    /\ clock < MaxClock
    /\ clock' = clock + 1
    /\ UNCHANGED <<gateVars, gateUI, linkVars, burned, poster, delivered>>

ApprovalsNext ==
    \/ \E s \in GateSteps : ComeToGate(s) \/ SignLink(s)
    \/ HearDecision \/ DecideOnPage \/ ReadWait \/ Register
    \/ \E p \in Posters, l \in 1 .. MaxLinks, action \in {"accept", "unknown"} :
           HandleApprove(p, l, action)
    \/ \E p \in Posters : Deliver(p) \/ SendDecision(p) \/ Unregister(p)
    \/ PassTime

ApprovalsSpec == ApprovalsInit /\ [][ApprovalsNext]_approvalVars

-----------------------------------------------------------------------------
\* Type correctness.
ApprovalsTypeOK ==
    /\ stepOf \in Seq(GateSteps) /\ Latest <= MaxGates
    /\ waiting \in BOOLEAN
    /\ asked \in GateSteps \cup {NoStep}
    /\ pending \in [GateSteps -> 0 .. Latest]
    /\ burned \subseteq DOMAIN links
    /\ \A p \in Posters : poster[p].at \in {"idle", "deliver", "send", "resolved", "unregister"}

\* However its requests interleave with each other, with the run and with new
\* registrations for the same step, a link found in the register decides at
\* most one gate (Deliver, approver.go:141-148).
LinkDecidesOnce ==
    \A a, b \in delivered : (a.way = "send" /\ b.way = "send" /\ a.link = b.link) => a = b
=============================================================================
