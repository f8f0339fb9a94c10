---------------------------- MODULE GateChannel -----------------------------
(***************************************************************************)
(* A human gate waiting for its decision (internal/gate): the ChannelUI    *)
(* that HTTP handlers and cancelled runs signal through a compare-and-swap *)
(* and a one-place channel, the TimeoutUI around it with its abandoned     *)
(* waiting goroutines, and the retry loop of Service.runStructured.        *)
(*                                                                         *)
(* A decision is only its action: "junk" is any word that is neither       *)
(* accept nor reject, as the web handler passes on whatever it is sent.    *)
(***************************************************************************)
EXTENDS Naturals, Sequences

CONSTANTS
    Senders,      \* HTTP handlers that call SendDecision
    Closers,      \* what calls Close once: run cancelled, run over, server stop
    Configs,      \* gates to consider, see GateConfig
    MaxAttempts,  \* attempts of runStructured (5 in the code)
    MaxSends      \* bound on calls of SendDecision

Words == {"accept", "reject", "junk"}
EOF == "eof"
NoSignal == "none"

GateConfig ==
    [declared : SUBSET Words,                         \* step.actions
     stopOnReject : BOOLEAN,                          \* on_reject is "" or stop
     onTimeout : {"wait", "abort", "auto_approve"}]   \* wait: no TimeoutUI

ASSUME GateAssumption ==
    /\ Senders \cap Closers = {}
    /\ Configs \subseteq GateConfig
    /\ MaxAttempts \in Nat \ {0}
    /\ MaxSends \in Nat

VARIABLES
    config,     \* the gate's step and schedule
    state,      \* ChannelUI.state: 1 when a signal is queued or the end reached
    chan,       \* ChannelUI.ch
    pc,         \* senders and closers: "idle", "push" (CAS won), "done"
    signal,     \* what each of them is about to push
    waiter,     \* the goroutine of each attempt inside WaitDecision
    held,       \* what it has received
    attempt,    \* attempt of runStructured
    closing,    \* the timer fired and its Close has won the CAS
    outcome,    \* what the gate returned: "pending", "ok" or "abort_item"
    heard,      \* history: the last human decision the service has seen
    closed,     \* history: closers whose Close returned true
    sends       \* calls of SendDecision so far

Actors == Senders \cup Closers
Attempts == 1 .. MaxAttempts

channelVars == <<state, chan>>
actorVars == <<pc, signal, closed, sends>>
serviceVars == <<attempt, outcome, heard>>
vars == <<config, state, chan, pc, signal, waiter, held, attempt, closing,
          outcome, heard, closed, sends>>

WaiterStates == {"none", "reading", "storing", "done"}

\* gateActions: the declared accept and reject, or both.
Allowed ==
    LET declared == config.declared \cap {"accept", "reject"}
    IN  IF declared = {} THEN {"accept", "reject"} ELSE declared

Timed == config.onTimeout # "wait"

Init ==
    /\ config \in Configs
    /\ state = 0
    /\ chan = <<>>
    /\ pc = [a \in Actors |-> "idle"]
    /\ signal = [a \in Actors |-> NoSignal]
    /\ waiter = [i \in Attempts |-> IF i = 1 THEN "reading" ELSE "none"]
    /\ held = [i \in Attempts |-> NoSignal]
    /\ attempt = 1
    /\ closing = FALSE
    /\ outcome = "pending"
    /\ heard = NoSignal
    /\ closed = {}
    /\ sends = 0

-----------------------------------------------------------------------------
(* SendDecision and Close                                                  *)

\* Mutant: a store where the compare-and-swap should be.
StoresState == state' = 1

\* The compare-and-swap from 0 to 1 is won.
WinsCAS == state = 0 /\ state' = 1

Send(s, word) ==
    /\ pc[s] = "idle"
    /\ sends < MaxSends
    /\ sends' = sends + 1
    /\ WinsCAS
    /\ pc' = [pc EXCEPT ![s] = "push"]
    /\ signal' = [signal EXCEPT ![s] = word]
    /\ UNCHANGED <<config, chan, waiter, held, closing, serviceVars, closed>>

\* SendDecision returns false: a signal is queued, or the end was reached.
SendRefused(s) ==
    /\ pc[s] = "idle"
    /\ sends < MaxSends
    /\ sends' = sends + 1
    /\ state = 1
    /\ UNCHANGED <<config, channelVars, pc, signal, waiter, held, closing,
                   serviceVars, closed>>

Close(c) ==
    /\ pc[c] = "idle"
    /\ WinsCAS
    /\ pc' = [pc EXCEPT ![c] = "push"]
    /\ signal' = [signal EXCEPT ![c] = EOF]
    /\ closed' = closed \cup {c}
    /\ UNCHANGED <<config, chan, waiter, held, closing, serviceVars, sends>>

\* Close returns false, and nobody calls it again.
CloseRefused(c) ==
    /\ pc[c] = "idle"
    /\ state = 1
    /\ pc' = [pc EXCEPT ![c] = "done"]
    /\ UNCHANGED <<config, channelVars, signal, waiter, held, closing,
                   serviceVars, closed, sends>>

\* The send on the channel, which has room for one signal.
Push(a) ==
    /\ pc[a] = "push"
    /\ Len(chan) < 1
    /\ chan' = Append(chan, signal[a])
    /\ pc' = [pc EXCEPT ![a] = IF a \in Senders THEN "idle" ELSE "done"]
    /\ signal' = [signal EXCEPT ![a] = NoSignal]
    /\ UNCHANGED <<config, state, waiter, held, closing, serviceVars, closed, sends>>

-----------------------------------------------------------------------------
(* ChannelUI.WaitDecision, one call per attempt                            *)

\* The goroutines of earlier attempts that ran out of time still wait on the
\* channel, which serves them in the order they came.
Receiver(i) ==
    /\ waiter[i] = "reading"
    /\ \A j \in Attempts : j < i => waiter[j] # "reading"

\* Mutant: also an end of input lets the channel take signals again.
ReceiveReopening(i) ==
    /\ Receiver(i)
    /\ chan # <<>>
    /\ chan' = Tail(chan)
    /\ held' = [held EXCEPT ![i] = Head(chan)]
    /\ waiter' = [waiter EXCEPT ![i] = "storing"]
    /\ UNCHANGED <<config, state, actorVars, closing, serviceVars>>

\* An end of input stays the last signal: state is not reset.
Receive(i) ==
    /\ Receiver(i)
    /\ chan # <<>>
    /\ chan' = Tail(chan)
    /\ held' = [held EXCEPT ![i] = Head(chan)]
    /\ waiter' = [waiter EXCEPT ![i] =
                     IF Head(chan) = EOF THEN "done" ELSE "storing"]
    /\ UNCHANGED <<config, state, actorVars, closing, serviceVars>>

Reopen(i) ==
    /\ waiter[i] = "storing"
    /\ waiter' = [waiter EXCEPT ![i] = "done"]
    /\ state' = 0
    /\ UNCHANGED <<config, chan, actorVars, held, closing, serviceVars>>

-----------------------------------------------------------------------------
(* Service.runStructured and TimeoutUI.WaitDecision                        *)

\* Mutant: one attempt too many.
RetryOnceMore ==
    IF attempt > MaxAttempts
    THEN outcome' = "abort_item" /\ UNCHANGED <<attempt, waiter>>
    ELSE /\ attempt' = attempt + 1
         /\ waiter' = [waiter EXCEPT ![attempt + 1] = "reading"]
         /\ UNCHANGED outcome

\* A word that is not among the actions starts the next attempt, or ends the
\* gate after the last one.
Retry ==
    IF attempt = MaxAttempts
    THEN outcome' = "abort_item" /\ UNCHANGED <<attempt, waiter>>
    ELSE /\ attempt' = attempt + 1
         /\ waiter' = [waiter EXCEPT ![attempt + 1] = "reading"]
         /\ UNCHANGED outcome

Verdict(word) ==
    IF word = "reject" /\ config.stopOnReject THEN "abort_item" ELSE "ok"

Conclude(word) ==
    IF word \in Allowed
    THEN outcome' = Verdict(word) /\ UNCHANGED <<attempt, waiter>>
    ELSE Retry

\* Mutant: a closed input counts as an approval, as it did before v0.23.
AnswerApprovingEOF ==
    /\ outcome = "pending"
    /\ ~closing
    /\ waiter[attempt] = "done"
    /\ IF held[attempt] = EOF
       THEN outcome' = "ok" /\ UNCHANGED <<attempt, waiter, heard>>
       ELSE heard' = held[attempt] /\ Conclude(held[attempt])
    /\ UNCHANGED <<config, channelVars, actorVars, held, closing>>

\* Mutant: a closed input is one more unknown word.
AnswerRetryingEOF ==
    /\ outcome = "pending"
    /\ ~closing
    /\ waiter[attempt] = "done"
    /\ IF held[attempt] = EOF
       THEN Retry /\ UNCHANGED heard
       ELSE heard' = held[attempt] /\ Conclude(held[attempt])
    /\ UNCHANGED <<config, channelVars, actorVars, held, closing>>

\* The attempt's own goroutine has answered.
Answer ==
    /\ outcome = "pending"
    /\ ~closing
    /\ waiter[attempt] = "done"
    /\ IF held[attempt] = EOF
       THEN outcome' = "abort_item" /\ UNCHANGED <<attempt, waiter, heard>>
       ELSE heard' = held[attempt] /\ Conclude(held[attempt])
    /\ UNCHANGED <<config, channelVars, actorVars, held, closing>>

\* What the wait returns when the time is over: an error, which the service
\* takes for a closed input, or the word "approve".
TimeIsUp ==
    IF config.onTimeout = "auto_approve"
    THEN Conclude("approve")
    ELSE outcome' = "abort_item" /\ UNCHANGED <<attempt, waiter>>

\* Mutant: the timer gives way to a signal that is already queued.
TimerYields ==
    /\ outcome = "pending"
    /\ Timed
    /\ ~closing
    /\ WinsCAS
    /\ closing' = TRUE
    /\ UNCHANGED <<config, chan, actorVars, held, serviceVars, waiter>>

\* The timer may also win against an answer that is already there.
TimerFires ==
    /\ outcome = "pending"
    /\ Timed
    /\ ~closing
    /\ IF state = 0
       THEN /\ WinsCAS
            /\ closing' = TRUE
            /\ UNCHANGED <<attempt, waiter, outcome>>
       ELSE TimeIsUp /\ UNCHANGED <<state, closing>>
    /\ UNCHANGED <<config, chan, actorVars, held, heard>>

TimerCloses ==
    /\ closing
    /\ Len(chan) < 1
    /\ chan' = Append(chan, EOF)
    /\ closing' = FALSE
    /\ TimeIsUp
    /\ UNCHANGED <<config, state, actorVars, held, heard>>

Next ==
    \/ \E s \in Senders : SendRefused(s) \/ \E word \in Words : Send(s, word)
    \/ \E c \in Closers : Close(c) \/ CloseRefused(c)
    \/ \E a \in Actors : Push(a)
    \/ \E i \in Attempts : Receive(i) \/ Reopen(i)
    \/ Answer
    \/ TimerFires
    \/ TimerCloses

\* Goroutines are scheduled, timers fire and a cancelled context is seen; a
\* human need not come.
Fairness ==
    /\ \A c \in Closers : WF_vars(Close(c) \/ CloseRefused(c))
    /\ \A a \in Actors : WF_vars(Push(a))
    /\ \A i \in Attempts : WF_vars(Receive(i)) /\ WF_vars(Reopen(i))
    /\ WF_vars(Answer)
    /\ WF_vars(TimerFires) /\ WF_vars(TimerCloses)

Spec == Init /\ [][Next]_vars
FairSpec == Spec /\ Fairness

-----------------------------------------------------------------------------
TypeOK ==
    /\ config \in Configs
    /\ state \in {0, 1}
    /\ chan \in Seq(Words \cup {EOF})
    /\ pc \in [Actors -> {"idle", "push", "done"}]
    /\ signal \in [Actors -> Words \cup {EOF, NoSignal}]
    /\ waiter \in [Attempts -> WaiterStates]
    /\ held \in [Attempts -> Words \cup {EOF, NoSignal}]
    /\ attempt \in Attempts
    /\ closing \in BOOLEAN
    /\ outcome \in {"pending", "ok", "abort_item"}
    /\ heard \in Words \cup {NoSignal}
    /\ closed \subseteq Closers
    /\ sends \in 0 .. MaxSends

\* channel.go: "a send is impossible without the CAS, so the buffer is never
\* full": whoever has won it finds the channel empty.
NeverBlocks ==
    /\ \A a \in Actors : pc[a] = "push" => chan = <<>>
    /\ closing => chan = <<>>

\* service.go (v0.23): an end of input, a timeout or a run of unknown words is
\* never an approval; the gate passes only on a word of a human, one that the
\* step offers and that does not stop it.
PassesOnlyOnWord ==
    outcome = "ok" =>
        /\ heard \in Allowed
        /\ heard = "reject" => ~config.stopOnReject

\* channel.go: the end of input is terminal, no decision is taken after it.
EndIsTerminal ==
    [][\A c \in Closers : c \in closed =>
          state' = 1 /\ \A s \in Senders : signal'[s] = NoSignal]_vars

\* The answer that was accepted and not yet received: in the channel or on its
\* way there.
Underway ==
    CASE chan # <<>> -> Head(chan)
      [] chan = <<>> /\ closing -> EOF
      [] chan = <<>> /\ ~closing /\ (\E a \in Actors : pc[a] = "push") ->
             signal[CHOOSE a \in Actors : pc[a] = "push"]
      [] OTHER -> NoSignal

\* The answers accepted so far: each is received by the goroutine of one turn.
Received(i) == i \in Attempts /\ held[i] # NoSignal
Said ==
    [i \in 1 .. MaxAttempts + 1 |->
        CASE Received(i) -> held[i]
          [] ~Received(i) /\ (\A j \in Attempts : j < i => Received(j)) -> Underway
          [] OTHER -> NoSignal]
Rules ==
    [offered |-> Allowed, stops |-> IF config.stopOnReject THEN {"reject"} ELSE {}, deadline |-> Timed]

Ledger == INSTANCE GateLedger WITH rules <- Rules, said <- Said, turn <- attempt, verdict <- outcome

\* What a gate promises, whoever races with whom: answers are accepted until
\* the end of input is, the first offered word among them decides, and without
\* a deadline nothing else does.
GateKeepsLedger == Ledger!LedgerSpec

\* timeout.go: a gate with a deadline does not hang, whoever comes or not.
TimedGateEnds == Timed ~> outcome # "pending"

\* A Close that returned true ends the gate.
AcceptedCloseEnds == closed # {} ~> outcome # "pending"

\* handlers_runs.go: cancelling the run closes the waiting gate, which would
\* otherwise wait forever.
CancelEndsGate ==
    (\A c \in Closers : pc[c] = "done") ~> outcome # "pending"

\* model.go, on_timeout: auto_approve answers for the human who did not come.
TimeoutApproves ==
    config.onTimeout = "auto_approve" /\ sends = 0 /\ closed = {}
        => outcome # "abort_item"
=============================================================================
