------------------------- MODULE GateChannelProofs --------------------------
(***************************************************************************)
(* Proofs about GateChannel: for any number of handlers, closers and       *)
(* attempts, and for every kind of gate, nobody blocks on the channel, the *)
(* end of input is final, and only a word of a human passes the gate.      *)
(***************************************************************************)
EXTENDS GateChannel, WellFoundedInduction, TLAPS

Pushing(a) == pc[a] = "push"
Full == chan # <<>>
Storing(i) == waiter[i] = "storing"
Over(i) == waiter[i] = "done" /\ held[i] = EOF
AtWaiter(i) == Storing(i) \/ Over(i)

\* There is one token: it is with the winner of the compare-and-swap, in the
\* channel, or with the goroutine that took it from there.  An end of input
\* keeps it for good, and 0 in `state' says that nobody has it.
OneToken ==
    /\ \A a, b \in Actors : Pushing(a) /\ Pushing(b) => a = b
    /\ \A a \in Actors : Pushing(a) => ~closing /\ ~Full
    /\ \A a \in Actors, i \in Attempts : Pushing(a) => ~AtWaiter(i)
    /\ closing => ~Full
    /\ \A i \in Attempts : AtWaiter(i) => ~closing /\ ~Full
    /\ \A i, j \in Attempts : AtWaiter(i) /\ AtWaiter(j) => i = j
    /\ Len(chan) <= 1

TokenTaken ==
    /\ \A a \in Actors : Pushing(a) => state = 1
    /\ closing \/ Full => state = 1
    /\ \A i \in Attempts : AtWaiter(i) => state = 1

\* What is pushed and received: closers push the end of input, senders never.
Signals ==
    /\ \A a \in Actors : signal[a] = NoSignal <=> ~Pushing(a)
    /\ \A c \in Closers : signal[c] \in {EOF, NoSignal}
    /\ \A s \in Senders : signal[s] # EOF
    /\ \A i \in Attempts :
          /\ Storing(i) => held[i] \in Words
          /\ waiter[i] = "done" => held[i] \in Words \cup {EOF}

\* Attempts to come have not begun.
Ahead == \A i \in Attempts : i > attempt => waiter[i] = "none"

\* A Close that returned true is on its way, queued or received.
ClosePending ==
    closed # {} => \/ \E c \in Closers : Pushing(c)
                   \/ chan = <<EOF>>
                   \/ \E i \in Attempts : Over(i)

IInv ==
    /\ TypeOK
    /\ OneToken
    /\ TokenTaken
    /\ Signals
    /\ Ahead
    /\ ClosePending
    /\ PassesOnlyOnWord

-----------------------------------------------------------------------------
(* The type invariant                                                      *)

\* The gate starts with the service reading its first attempt, no signal yet.
LEMMA InitInv == Init => IInv
<1> SUFFICES ASSUME Init PROVE IInv
  OBVIOUS
<1>1. TypeOK
  <2>1. /\ config \in Configs
        /\ state \in {0, 1}
        /\ closing \in BOOLEAN
        /\ outcome \in {"pending", "ok", "abort_item"}
        /\ heard \in Words \cup {NoSignal}
        /\ closed \subseteq Closers
    BY DEF Init
  <2>2. chan \in Seq(Words \cup {EOF})
    <3> DEFINE S == Words \cup {EOF}
    <3> HIDE DEF S
    <3>1. chan \in Seq(S)
      BY DEF Init
    <3> QED
      BY <3>1 DEF S
  <2>3. attempt \in Attempts /\ sends \in 0 .. MaxSends
    BY GateAssumption DEF Init, Attempts
  <2>4. /\ pc \in [Actors -> {"idle", "push", "done"}]
        /\ signal \in [Actors -> Words \cup {EOF, NoSignal}]
    BY DEF Init
  <2>5. /\ waiter \in [Attempts -> WaiterStates]
        /\ held \in [Attempts -> Words \cup {EOF, NoSignal}]
    BY DEF Init, WaiterStates
  <2> QED
    BY <2>1, <2>2, <2>3, <2>4, <2>5 DEF TypeOK
<1>2. OneToken /\ TokenTaken
  BY DEF Init, OneToken, TokenTaken, Pushing, Full, AtWaiter, Storing, Over
<1>3. Signals
  BY DEF Init, Signals, Pushing, Storing, Actors, NoSignal, EOF
<1>4. Ahead /\ ClosePending /\ PassesOnlyOnWord
  BY GateAssumption DEF Init, Ahead, ClosePending, PassesOnlyOnWord, Attempts
<1> QED
  BY <1>1, <1>2, <1>3, <1>4 DEF IInv

\* However a wait ends, the gate ends or its next attempt begins.
LEMMA ConcludeType ==
    ASSUME TypeOK, NEW word, Conclude(word)
    PROVE  /\ attempt' \in Attempts
           /\ waiter' \in [Attempts -> WaiterStates]
           /\ outcome' \in {"pending", "ok", "abort_item"}
<1>1. CASE word \in Allowed
  BY <1>1 DEF TypeOK, Conclude, Verdict
<1>2. CASE word \notin Allowed
  BY <1>2, GateAssumption DEF TypeOK, Conclude, Retry, Attempts, WaiterStates
<1> QED
  BY <1>1, <1>2

\* Conclude leaves the goroutines of the attempts begun alone.
LEMMA ConcludeWaiters ==
    ASSUME TypeOK, Ahead, NEW word, Conclude(word), NEW i \in Attempts
    PROVE  /\ waiter'[i] = waiter[i] \/ (waiter[i] = "none" /\ waiter'[i] = "reading")
           /\ i > attempt' => waiter'[i] = "none"
<1>1. CASE word \in Allowed
  BY <1>1 DEF Ahead, Conclude
<1>2. CASE word \notin Allowed
  BY <1>2, GateAssumption DEF TypeOK, Ahead, Conclude, Retry, Attempts
<1> QED
  BY <1>1, <1>2

\* The gate passes only on the word that it concludes from.
LEMMA ConcludeOk ==
    ASSUME NEW word, Conclude(word), outcome = "pending", outcome' = "ok"
    PROVE  word \in Allowed /\ (word = "reject" => ~config.stopOnReject)
  BY DEF Conclude, Verdict, Retry

\* What the service does with an answer or a timeout: it concludes from a word
\* or gives up.
LEMMA TimeIsUpCases ==
    ASSUME TimeIsUp
    PROVE  \/ Conclude("approve")
           \/ outcome' = "abort_item" /\ UNCHANGED <<attempt, waiter>>
  BY DEF TimeIsUp

\* A winner of the compare-and-swap has a signal to push, so nothing but
\* signals is ever in the channel.
LEMMA TypeStep ==
    ASSUME TypeOK, Signals, [Next]_vars
    PROVE  TypeOK'
<1> USE DEF Words, EOF, NoSignal, WaiterStates
<1>1. ASSUME NEW s \in Senders, SendRefused(s)
      PROVE  TypeOK'
  BY <1>1, GateAssumption DEF SendRefused, TypeOK, channelVars, serviceVars
<1>2. ASSUME NEW s \in Senders, NEW word \in Words, Send(s, word)
      PROVE  TypeOK'
  BY <1>2, GateAssumption DEF Send, WinsCAS, TypeOK, Actors, serviceVars
<1>3. ASSUME NEW c \in Closers, Close(c)
      PROVE  TypeOK'
  BY <1>3 DEF Close, WinsCAS, TypeOK, Actors, serviceVars
<1>4. ASSUME NEW c \in Closers, CloseRefused(c)
      PROVE  TypeOK'
  BY <1>4 DEF CloseRefused, TypeOK, Actors, channelVars, serviceVars
<1>5. ASSUME NEW a \in Actors, Push(a)
      PROVE  TypeOK'
  <2>1. signal[a] \in Words \cup {EOF}
    BY <1>5 DEF Push, TypeOK, Signals, Pushing
  <2> QED
    BY <1>5, <2>1 DEF Push, TypeOK, serviceVars
<1>6. ASSUME NEW i \in Attempts, Receive(i)
      PROVE  TypeOK'
  BY <1>6 DEF Receive, TypeOK, actorVars, serviceVars
<1>7. ASSUME NEW i \in Attempts, Reopen(i)
      PROVE  TypeOK'
  BY <1>7 DEF Reopen, TypeOK, actorVars, serviceVars
<1>8. CASE Answer
  BY <1>8, ConcludeType DEF Answer, TypeOK, channelVars, actorVars
<1>9. CASE TimerFires
  BY <1>9, ConcludeType, TimeIsUpCases DEF TimerFires, WinsCAS, TypeOK, actorVars
<1>10. CASE TimerCloses
  <2>1. /\ attempt' \in Attempts
        /\ waiter' \in [Attempts -> WaiterStates]
        /\ outcome' \in {"pending", "ok", "abort_item"}
    BY <1>10, ConcludeType, TimeIsUpCases DEF TimerCloses, TypeOK
  <2>2. chan' \in Seq(Words \cup {EOF})
    BY <1>10 DEF TimerCloses, TypeOK
  <2> QED
    BY <1>10, <2>1, <2>2 DEF TimerCloses, TypeOK, actorVars
<1>11. CASE UNCHANGED vars
  BY <1>11 DEF vars, TypeOK
<1> QED
  BY <1>1, <1>2, <1>3, <1>4, <1>5, <1>6, <1>7, <1>8, <1>9, <1>10, <1>11 DEF Next

-----------------------------------------------------------------------------
(* The token                                                               *)

\* The service may begin an attempt, and leaves those that have begun alone.
LEMMA ServiceWaiters ==
    ASSUME TypeOK, Ahead, Answer \/ TimerFires \/ TimerCloses, NEW i \in Attempts
    PROVE  /\ Storing(i)' <=> Storing(i)
           /\ Over(i)' <=> Over(i)
           /\ waiter'[i] = "done" => waiter[i] = "done"
           /\ i > attempt' => waiter'[i] = "none"
<1>1. held' = held
  BY DEF Answer, TimerFires, TimerCloses
<1>2. \/ \E word : Conclude(word)
      \/ UNCHANGED <<attempt, waiter>>
  BY TimeIsUpCases DEF Answer, TimerFires, TimerCloses
<1>3. /\ waiter'[i] = waiter[i] \/ (waiter[i] = "none" /\ waiter'[i] = "reading")
      /\ i > attempt' => waiter'[i] = "none"
  BY <1>2, ConcludeWaiters DEF Ahead
<1> QED
  BY <1>1, <1>3 DEF Storing, Over

\* The token passes from hand to hand: Send, Close and the timer take it where
\* it is free, Push and Receive hand it on, and only Reopen gives it back.
LEMMA TokenStep ==
    ASSUME TypeOK, OneToken, TokenTaken, Signals, Ahead, [Next]_vars
    PROVE  OneToken' /\ TokenTaken'
<1> USE DEF OneToken, TokenTaken
<1>1. ASSUME NEW s \in Senders, SendRefused(s)
      PROVE  OneToken' /\ TokenTaken'
  BY <1>1 DEF SendRefused, Pushing, Full, AtWaiter, Storing, Over, channelVars
<1>2. ASSUME NEW s \in Senders, NEW word \in Words, Send(s, word)
      PROVE  OneToken' /\ TokenTaken'
  BY <1>2 DEF Send, WinsCAS, TypeOK, Pushing, Full, AtWaiter, Storing, Over
<1>3. ASSUME NEW c \in Closers, Close(c)
      PROVE  OneToken' /\ TokenTaken'
  BY <1>3 DEF Close, WinsCAS, TypeOK, Pushing, Full, AtWaiter, Storing, Over
<1>4. ASSUME NEW c \in Closers, CloseRefused(c)
      PROVE  OneToken' /\ TokenTaken'
  BY <1>4 DEF CloseRefused, TypeOK, Pushing, Full, AtWaiter, Storing, Over, channelVars
<1>5. ASSUME NEW a \in Actors, Push(a)
      PROVE  OneToken' /\ TokenTaken'
  <2>1. /\ Pushing(a)
        /\ \A b \in Actors : ~Pushing(b)'
    BY <1>5 DEF Push, TypeOK, Pushing
  <2>2. Full' /\ Len(chan') = 1
    BY <1>5 DEF Push, TypeOK, Full
  <2> QED
    BY <1>5, <2>1, <2>2 DEF Push, Pushing, Full, AtWaiter, Storing, Over
<1>6. ASSUME NEW i \in Attempts, Receive(i)
      PROVE  OneToken' /\ TokenTaken'
  <2>1. Full /\ chan' = <<>>
    BY <1>6 DEF Receive, Full, TypeOK
  <2>2. \A j \in Attempts : AtWaiter(j)' => j = i
    BY <1>6, <2>1 DEF Receive, TypeOK, AtWaiter, Storing, Over
  <2> QED
    BY <1>6, <2>1, <2>2 DEF Receive, Pushing, Full, actorVars
<1>7. ASSUME NEW i \in Attempts, Reopen(i)
      PROVE  OneToken' /\ TokenTaken'
  <2>1. AtWaiter(i) /\ \A j \in Attempts : ~AtWaiter(j)'
    BY <1>7 DEF Reopen, TypeOK, Signals, AtWaiter, Storing, Over, Words, EOF
  <2> QED
    BY <1>7, <2>1 DEF Reopen, Pushing, Full, actorVars
<1>8. CASE Answer
  BY <1>8, ServiceWaiters DEF Answer, Pushing, Full, AtWaiter, channelVars, actorVars
<1>9. CASE TimerFires
  <2>1. /\ chan' = chan
        /\ \A a \in Actors : Pushing(a)' <=> Pushing(a)
        /\ \A i \in Attempts : AtWaiter(i)' <=> AtWaiter(i)
    BY <1>9, ServiceWaiters DEF TimerFires, Pushing, AtWaiter, actorVars
  <2>2. \/ state = 0 /\ state' = 1
        \/ UNCHANGED <<state, closing>>
    BY <1>9 DEF TimerFires, WinsCAS
  <2> QED
    BY <2>1, <2>2 DEF Full
<1>10. CASE TimerCloses
  <2>1. /\ state = 1 /\ state' = state
        /\ \A a \in Actors : ~Pushing(a)'
        /\ \A i \in Attempts : ~AtWaiter(i)'
    BY <1>10, ServiceWaiters DEF TimerCloses, Pushing, AtWaiter, actorVars
  <2>2. Len(chan') = 1 /\ ~closing'
    BY <1>10 DEF TimerCloses, TypeOK, Full
  <2> QED
    BY <2>1, <2>2
<1>11. CASE UNCHANGED vars
  BY <1>11 DEF vars, Pushing, Full, AtWaiter, Storing, Over
<1> QED
  BY <1>1, <1>2, <1>3, <1>4, <1>5, <1>6, <1>7, <1>8, <1>9, <1>10, <1>11 DEF Next

-----------------------------------------------------------------------------
(* The rest of the invariant                                               *)

\* A closer pushes only the end of input and a sender never does.
LEMMA SignalsStep ==
    ASSUME TypeOK, OneToken, Signals, Ahead, [Next]_vars
    PROVE  Signals'
<1> USE DEF Signals
<1>1. ASSUME NEW s \in Senders, SendRefused(s)
      PROVE  Signals'
  BY <1>1 DEF SendRefused, Pushing, Storing
<1>2. ASSUME NEW s \in Senders, NEW word \in Words, Send(s, word)
      PROVE  Signals'
  <2>1. s \notin Closers /\ word # EOF /\ word # NoSignal
    BY <1>2, GateAssumption DEF Words, EOF, NoSignal
  <2> QED
    BY <1>2, <2>1 DEF Send, TypeOK, Actors, Pushing, Storing
<1>3. ASSUME NEW c \in Closers, Close(c)
      PROVE  Signals'
  <2>1. c \notin Senders /\ EOF # NoSignal
    BY <1>3, GateAssumption DEF EOF, NoSignal
  <2> QED
    BY <1>3, <2>1 DEF Close, TypeOK, Actors, Pushing, Storing
<1>4. ASSUME NEW c \in Closers, CloseRefused(c)
      PROVE  Signals'
  BY <1>4 DEF CloseRefused, TypeOK, Actors, Pushing, Storing
<1>5. ASSUME NEW a \in Actors, Push(a)
      PROVE  Signals'
  BY <1>5 DEF Push, TypeOK, Actors, Pushing, Storing, NoSignal, EOF
<1>6. ASSUME NEW i \in Attempts, Receive(i)
      PROVE  Signals'
  <2>1. Head(chan) \in Words \cup {EOF}
    BY <1>6 DEF Receive, TypeOK
  <2> QED
    BY <1>6, <2>1 DEF Receive, TypeOK, Pushing, Storing, actorVars
<1>7. ASSUME NEW i \in Attempts, Reopen(i)
      PROVE  Signals'
  BY <1>7 DEF Reopen, TypeOK, Pushing, Storing, actorVars
<1>8. CASE Answer \/ TimerFires \/ TimerCloses
  <2>1. UNCHANGED <<actorVars, held>>
    BY <1>8 DEF Answer, TimerFires, TimerCloses
  <2> QED
    BY <1>8, <2>1, ServiceWaiters DEF Pushing, actorVars
<1>9. CASE UNCHANGED vars
  BY <1>9 DEF vars, Pushing, Storing
<1> QED
  BY <1>1, <1>2, <1>3, <1>4, <1>5, <1>6, <1>7, <1>8, <1>9 DEF Next

\* Only the service begins an attempt.
LEMMA AheadStep ==
    ASSUME TypeOK, Ahead, [Next]_vars
    PROVE  Ahead'
<1>1. ASSUME NEW i \in Attempts, Receive(i) \/ Reopen(i)
      PROVE  Ahead'
  BY <1>1 DEF Receive, Receiver, Reopen, Ahead, TypeOK, serviceVars
<1>2. CASE Answer \/ TimerFires \/ TimerCloses
  BY <1>2, ServiceWaiters DEF Ahead
<1>3. CASE \/ \E s \in Senders : SendRefused(s) \/ \E word \in Words : Send(s, word)
           \/ \E c \in Closers : Close(c) \/ CloseRefused(c)
           \/ \E a \in Actors : Push(a)
           \/ UNCHANGED vars
  BY <1>3 DEF SendRefused, Send, Close, CloseRefused, Push, vars, serviceVars, Ahead
<1> QED
  BY <1>1, <1>2, <1>3 DEF Next

\* The end of input that a Close promised goes from the closer through the
\* channel to a goroutine, and nothing takes it away.
LEMMA CloseStep ==
    ASSUME TypeOK, OneToken, TokenTaken, Signals, Ahead, ClosePending, [Next]_vars
    PROVE  ClosePending'
<1> USE DEF ClosePending
<1>1. ASSUME NEW s \in Senders, SendRefused(s)
      PROVE  ClosePending'
  BY <1>1 DEF SendRefused, channelVars, Pushing, Over
<1>2. ASSUME NEW s \in Senders, NEW word \in Words, Send(s, word)
      PROVE  ClosePending'
  BY <1>2, GateAssumption DEF Send, TypeOK, Actors, Pushing, Over
<1>3. ASSUME NEW c \in Closers, Close(c)
      PROVE  ClosePending'
  BY <1>3 DEF Close, TypeOK, Actors, Pushing
<1>4. ASSUME NEW c \in Closers, CloseRefused(c)
      PROVE  ClosePending'
  BY <1>4 DEF CloseRefused, channelVars, TypeOK, Actors, Pushing, Over
<1>5. ASSUME NEW a \in Actors, Push(a), closed # {}
      PROVE  ClosePending'
  <2>1. Pushing(a) /\ chan = <<>>
    BY <1>5 DEF Push, OneToken, Pushing, Full
  <2>2. CASE \E c \in Closers : Pushing(c)
    <3>1. a \in Closers /\ signal[a] = EOF
      BY <2>1, <2>2 DEF OneToken, Signals, Actors
    <3> QED
      BY <1>5, <2>1, <3>1 DEF Push
  <2>3. CASE \E i \in Attempts : Over(i)
    BY <1>5, <2>1, <2>3 DEF OneToken, AtWaiter
  <2> QED
    BY <1>5, <2>1, <2>2, <2>3
<1>6. ASSUME NEW i \in Attempts, Receive(i), closed # {}
      PROVE  ClosePending'
  <2>1. chan = <<EOF>>
    BY <1>6 DEF Receive, OneToken, Full, AtWaiter, Actors
  <2> QED
    BY <1>6, <2>1 DEF Receive, TypeOK, Over
<1>7. ASSUME NEW i \in Attempts, Reopen(i)
      PROVE  ClosePending'
  BY <1>7 DEF Reopen, TypeOK, Pushing, Over, actorVars
<1>8. CASE Answer \/ TimerFires
  <2>1. UNCHANGED <<chan, actorVars>>
    BY <1>8 DEF Answer, TimerFires, channelVars
  <2> QED
    BY <1>8, <2>1, ServiceWaiters DEF Pushing, actorVars
<1>9. CASE TimerCloses
  <2>1. closed = {}
    BY <1>9 DEF TimerCloses, OneToken, AtWaiter, Full, Actors
  <2> QED
    BY <1>9, <2>1 DEF TimerCloses, actorVars
<1>10. CASE UNCHANGED vars
  BY <1>10 DEF vars, Pushing, Over
<1> QED
  BY <1>1, <1>2, <1>3, <1>4, <1>5, <1>6, <1>7, <1>8, <1>9, <1>10
     DEF Next, Push, Receive, actorVars, serviceVars

\* The service concludes from what a human said or from "approve", a word that
\* no gate offers.
LEMMA PassStep ==
    ASSUME TypeOK, PassesOnlyOnWord, [Next]_vars
    PROVE  PassesOnlyOnWord'
<1>1. "approve" \notin Allowed
  BY DEF Allowed
<1>2. config' = config /\ Allowed' = Allowed
  BY DEF Next, SendRefused, Send, Close, CloseRefused, Push, Receive, Reopen,
         Answer, TimerFires, TimerCloses, vars, Allowed
<1>3. CASE Answer /\ outcome' = "ok"
  <2>1. Conclude(held[attempt]) /\ heard' = held[attempt]
    BY <1>3 DEF Answer
  <2> QED
    BY <1>2, <1>3, <2>1, ConcludeOk DEF Answer, PassesOnlyOnWord
<1>4. CASE (TimerFires \/ TimerCloses) /\ outcome' = "ok"
  <2>1. UNCHANGED <<outcome, heard>>
    BY <1>1, <1>4 DEF TimerFires, TimerCloses, TimeIsUp, Conclude, Retry
  <2> QED
    BY <1>2, <2>1 DEF PassesOnlyOnWord
<1>5. CASE ~(Answer \/ TimerFires \/ TimerCloses)
  <2>1. UNCHANGED <<outcome, heard>>
    BY <1>5 DEF Next, SendRefused, Send, Close, CloseRefused, Push, Receive,
                Reopen, serviceVars, vars
  <2> QED
    BY <1>2, <2>1 DEF PassesOnlyOnWord
<1> QED
  BY <1>3, <1>4, <1>5 DEF PassesOnlyOnWord

-----------------------------------------------------------------------------
(* The theorems                                                            *)

\* The invariant is inductive.
LEMMA StepInv == IInv /\ [Next]_vars => IInv'
  BY TypeStep, TokenStep, SignalsStep, AheadStep, CloseStep, PassStep DEF IInv

\* The inductive invariant of a gate, which the theorems below draw on.
THEOREM GateInvariant == Spec => []IInv
<1>1. Init => IInv
  BY InitInv
<1>2. IInv /\ [Next]_vars => IInv'
  BY StepInv
<1> QED
  BY <1>1, <1>2, PTL DEF Spec

\* Every variable of a gate keeps its type, whatever is sent to it: only words
\* and the end of input are ever queued.
THEOREM GateTypeCorrect == Spec => []TypeOK
<1>1. IInv => TypeOK
  BY DEF IInv
<1> QED
  BY <1>1, GateInvariant, PTL

\* channel.go: who has won the compare-and-swap finds room in the channel, so
\* SendDecision and Close never block their callers.
THEOREM ChannelNeverBlocks == Spec => []NeverBlocks
<1>1. IInv => NeverBlocks
  BY DEF IInv, OneToken, NeverBlocks, Pushing, Full
<1> QED
  BY <1>1, GateInvariant, PTL

\* service.go: neither a deadline nor a closed input nor an unknown word makes
\* the gate pass.
THEOREM PassesOnlyOnAWord == Spec => []PassesOnlyOnWord
<1>1. IInv => PassesOnlyOnWord
  BY DEF IInv
<1> QED
  BY <1>1, GateInvariant, PTL

\* After a Close that returned true the channel is never open again, and no
\* handler has a decision to push.
LEMMA EndStep ==
    ASSUME IInv, IInv', [Next]_vars, closed # {}
    PROVE  state' = 1 /\ \A s \in Senders : signal'[s] = NoSignal
<1>1. closed' # {}
  BY DEF Next, SendRefused, Send, Close, CloseRefused, Push, Receive, Reopen,
         Answer, TimerFires, TimerCloses, vars, actorVars
<1>2. \/ \E c \in Closers : Pushing(c)'
      \/ chan' = <<EOF>>
      \/ \E i \in Attempts : Over(i)'
  BY <1>1 DEF IInv, ClosePending
<1>3. state' = 1
  BY <1>2 DEF IInv, TokenTaken, Full, AtWaiter, Actors
<1>4. ASSUME NEW s \in Senders
      PROVE  ~Pushing(s)'
  <2>1. s \in Actors /\ s \notin Closers
    BY GateAssumption DEF Actors
  <2> QED
    BY <1>2, <2>1 DEF IInv, OneToken, Full, AtWaiter, Actors
<1> QED
  BY <1>3, <1>4 DEF IInv, Signals, Actors

\* channel.go: the end of input is terminal, for any number of closers racing
\* with any number of handlers and with the deadline.
THEOREM EndStaysTerminal == Spec => EndIsTerminal
<1>1. IInv /\ IInv' /\ [Next]_vars =>
          [\A c \in Closers : c \in closed =>
              state' = 1 /\ \A s \in Senders : signal'[s] = NoSignal]_vars
  BY EndStep
<1> QED
  BY <1>1, GateInvariant, PTL DEF Spec, EndIsTerminal

-----------------------------------------------------------------------------
(* The gate keeps its ledger                                               *)

\* Each turn that began has a goroutine; those that have received come first.
\* While the timer closes, the gate waits for it.
Turns ==
    /\ closing => Timed /\ outcome = "pending"
    /\ \A i \in Attempts : waiter[i] \in {"storing", "done"} <=> Received(i)
    /\ \A i \in Attempts : i <= attempt => waiter[i] # "none"
    /\ \A i, j \in Attempts : j < i /\ Received(i) => Received(j)

\* At the start only the first turn's goroutine is there.
LEMMA TurnsBegin == Init => Turns
BY GateAssumption DEF Init, Turns, Received, Attempts

\* A turn that the service begins gets a goroutine.
LEMMA ServiceTurns ==
    ASSUME TypeOK, Answer \/ TimerFires \/ TimerCloses
    PROVE  \/ attempt' = attempt /\ waiter' = waiter
           \/ /\ attempt < MaxAttempts
              /\ attempt' = attempt + 1
              /\ waiter' = [waiter EXCEPT ![attempt + 1] = "reading"]
<1>1. \/ \E word : Conclude(word)
      \/ UNCHANGED <<attempt, waiter>>
  BY TimeIsUpCases DEF Answer, TimerFires, TimerCloses
<1>2. \/ attempt' = attempt /\ waiter' = waiter
      \/ /\ attempt # MaxAttempts
         /\ attempt' = attempt + 1
         /\ waiter' = [waiter EXCEPT ![attempt + 1] = "reading"]
  BY <1>1 DEF Conclude, Retry
<1>3. attempt \in 1 .. MaxAttempts
  BY DEF TypeOK, Attempts
<1>4. attempt # MaxAttempts => attempt < MaxAttempts
  BY <1>3, GateAssumption
<1> QED
  BY <1>2, <1>4 DEF TypeOK

\* The channel serves the goroutines in the order of their turns.
LEMMA TurnsStep ==
    ASSUME IInv, Turns, [Next]_vars
    PROVE  Turns'
<1> USE DEF Turns
<1>0. (closing => Timed /\ outcome = "pending")'
  <2>1. CASE Answer \/ TimerFires \/ TimerCloses
    BY <2>1, TimeIsUpCases DEF Answer, TimerFires, TimerCloses, Timed
  <2>2. CASE ~(Answer \/ TimerFires \/ TimerCloses)
    <3>1. UNCHANGED <<closing, config, outcome>>
      BY <2>2 DEF Next, SendRefused, Send, Close, CloseRefused, Push, Receive, Reopen, vars, serviceVars
    <3> QED
      BY <3>1 DEF Timed
  <2> QED
    BY <2>1, <2>2
<1>1. ASSUME NEW i \in Attempts, Receive(i)
      PROVE  Turns'
  <2>1. /\ Head(chan) \in Words \cup {EOF}
        /\ held \in [Attempts -> Words \cup {EOF, NoSignal}]
        /\ waiter \in [Attempts -> WaiterStates]
        /\ attempt \in Attempts
    BY <1>1 DEF Receive, IInv, TypeOK
  <2>2. /\ held' = [held EXCEPT ![i] = Head(chan)]
        /\ attempt' = attempt
        /\ waiter'[i] \in {"storing", "done"}
        /\ \A j \in Attempts : j # i => waiter'[j] = waiter[j]
    BY <1>1, <2>1 DEF Receive, serviceVars
  <2>3. Received(i)' /\ \A j \in Attempts : j # i => (Received(j)' <=> Received(j))
    BY <2>1, <2>2 DEF Received, Words, EOF, NoSignal
  <2>4. i <= attempt
    BY <1>1, <2>1 DEF Receive, Receiver, IInv, Ahead, Attempts
  <2>5. \A j \in Attempts : j < i => Received(j)
    BY <1>1, <2>1, <2>4 DEF Receive, Receiver, WaiterStates, Attempts
  <2> QED
    BY <1>0, <2>2, <2>3, <2>5
<1>2. ASSUME NEW i \in Attempts, Reopen(i)
      PROVE  Turns'
  BY <1>0, <1>2 DEF Reopen, Received, IInv, TypeOK, serviceVars
<1>3. CASE Answer \/ TimerFires \/ TimerCloses
  <2>1. held' = held
    BY <1>3 DEF Answer, TimerFires, TimerCloses
  <2>2. \A i \in Attempts : Received(i)' <=> Received(i)
    BY <2>1 DEF Received
  <2>3. CASE attempt' = attempt /\ waiter' = waiter
    BY <1>0, <2>2, <2>3
  <2>4. CASE /\ attempt < MaxAttempts
             /\ attempt' = attempt + 1
             /\ waiter' = [waiter EXCEPT ![attempt + 1] = "reading"]
    <3>1. attempt \in Attempts /\ attempt + 1 \in Attempts /\ waiter[attempt + 1] = "none"
      BY <2>4, GateAssumption DEF IInv, TypeOK, Ahead, Attempts
    <3>2. ~Received(attempt + 1)
      BY <3>1
    <3>3. /\ waiter'[attempt + 1] = "reading"
          /\ \A i \in Attempts : i # attempt + 1 => waiter'[i] = waiter[i]
      BY <2>4, <3>1 DEF IInv, TypeOK
    <3>4. \A i \in Attempts : i <= attempt + 1 => i <= attempt \/ i = attempt + 1
      BY <3>1 DEF Attempts
    <3> QED
      BY <1>0, <2>2, <2>4, <3>2, <3>3, <3>4
  <2> QED
    BY <1>3, <2>3, <2>4, ServiceTurns DEF IInv
<1>4. CASE \/ \E s \in Senders : SendRefused(s) \/ \E word \in Words : Send(s, word)
           \/ \E c \in Closers : Close(c) \/ CloseRefused(c)
           \/ \E a \in Actors : Push(a)
           \/ UNCHANGED vars
  <2>1. UNCHANGED <<held, waiter, attempt>>
    BY <1>4 DEF SendRefused, Send, Close, CloseRefused, Push, vars, serviceVars
  <2> QED
    BY <1>0, <2>1 DEF Received
<1> QED
  BY <1>1, <1>2, <1>3, <1>4 DEF Next

\* Where the token is tells which answer is under way.
LEMMA UnderwayIs ==
    OneToken => /\ \A a \in Actors : Pushing(a) => Underway = signal[a]
                /\ Full => Underway = Head(chan)
                /\ closing => Underway = EOF
                /\ ~Full /\ ~closing /\ (\A a \in Actors : ~Pushing(a)) => Underway = NoSignal
<1> SUFFICES ASSUME OneToken
             PROVE  /\ \A a \in Actors : Pushing(a) => Underway = signal[a]
                    /\ Full => Underway = Head(chan)
                    /\ closing => Underway = EOF
                    /\ ~Full /\ ~closing /\ (\A a \in Actors : ~Pushing(a)) => Underway = NoSignal
  OBVIOUS
<1>1. ASSUME NEW a \in Actors, Pushing(a)
      PROVE  Underway = signal[a]
  <2>1. chan = <<>> /\ ~closing
    BY <1>1 DEF OneToken, Full
  <2>2. (CHOOSE b \in Actors : pc[b] = "push") = a
    BY <1>1 DEF OneToken, Pushing
  <2> QED
    BY <1>1, <2>1, <2>2 DEF Underway, Pushing
<1>2. Full => Underway = Head(chan)
  BY DEF Underway, Full
<1>3. closing => Underway = EOF
  BY DEF Underway, OneToken, Full
<1>4. ~Full /\ ~closing /\ (\A a \in Actors : ~Pushing(a)) => Underway = NoSignal
  BY DEF Underway, Full, Pushing
<1> QED
  BY <1>1, <1>2, <1>3, <1>4

Places == 1 .. MaxAttempts + 1
FirstOpen(i) == ~Received(i) /\ \A j \in Attempts : j < i => Received(j)

\* Every nonempty set of numbers has a least one.
LEMMA LeastTurn ==
    ASSUME NEW S \in SUBSET Nat, S # {}
    PROVE  \E n \in S : \A m \in S : n <= m
<1> DEFINE Less == {p \in Nat \X Nat : p[1] < p[2]}
<1>1. IsWellFoundedOn(Less, Nat)
  BY NatLessThanWellFounded, Zenon DEF OpToRel
<1> HIDE DEF Less
<1>2. PICK n \in S : \A m \in S : ~(<<m, n>> \in Less)
  BY <1>1, WFMin
<1>3. ASSUME NEW m \in S
      PROVE  n <= m
  <2>1. m < n => <<m, n>> \in Less
    BY DEF Less
  <2> QED
    BY <1>2, <2>1
<1> QED
  BY <1>3

\* There is one place for the next answer.
LEMMA OpenPlace ==
    \E i \in Places : FirstOpen(i) /\ \A j \in Places : FirstOpen(j) => j = i
<1> DEFINE S == {i \in Places : ~Received(i)}
<1>1. MaxAttempts + 1 \in S /\ S \in SUBSET Nat
  BY GateAssumption DEF Places, Received, Attempts
<1>2. PICK n \in S : \A m \in S : n <= m
  BY <1>1, LeastTurn
<1>3. FirstOpen(n)
  BY <1>2, GateAssumption DEF FirstOpen, Places, Attempts
<1>4. ASSUME NEW j \in Places, FirstOpen(j)
      PROVE  j = n
  <2>1. j \in S /\ n <= j
    BY <1>2, <1>4 DEF FirstOpen
  <2>2. CASE n < j
    <3>1. n \in Attempts
      BY <2>2, GateAssumption DEF Places, Attempts
    <3> QED
      BY <1>2, <1>4, <2>2, <3>1 DEF FirstOpen
  <2> QED
    BY <2>1, <2>2, GateAssumption DEF Places
<1> QED
  BY <1>3, <1>4

\* What the ledger holds at each place.
LEMMA SaidIs ==
    /\ DOMAIN Said = Places
    /\ \A i \in Places :
          /\ Received(i) => Said[i] = held[i]
          /\ FirstOpen(i) => Said[i] = Underway
          /\ ~Received(i) /\ ~FirstOpen(i) => Said[i] = NoSignal
BY DEF Said, Places, FirstOpen

\* An answer is accepted where the token is free, and goes to the open place.
LEMMA AnswerAccepted ==
    ASSUME IInv, Turns, state = 0, NEW answer, Underway' = answer, held' = held, config' = config,
           UNCHANGED <<attempt, outcome>>
    PROVE  Ledger!Accept(answer)
<1>1. PICK p \in Places : FirstOpen(p) /\ \A j \in Places : FirstOpen(j) => j = p
  BY OpenPlace
<1>2. Underway = NoSignal
  BY UnderwayIs DEF IInv, TokenTaken
<1>3. \A i \in Places : (Received(i)' <=> Received(i)) /\ (FirstOpen(i)' <=> FirstOpen(i))
  BY DEF Received, FirstOpen
<1>4. Said' = [Said EXCEPT ![p] = answer]
  <2>1. DOMAIN Said' = Places /\ Said' = [i \in Places |-> Said'[i]]
    BY DEF Said, Places
  <2>2. /\ Said'[p] = answer
        /\ \A i \in Places : i # p => Said'[i] = Said[i]
    BY <1>1, <1>3 DEF Said, Places, FirstOpen
  <2>3. Said = [i \in Places |-> Said[i]]
    BY DEF Said, Places
  <2> QED
    BY <2>1, <2>2, <2>3
<1>5. Said[p] = NoSignal
  BY <1>1, <1>2, SaidIs
<1>6. \A j \in Places : j < p => Said[j] \notin {NoSignal, EOF}
  <2>1. ASSUME NEW j \in Places, j < p
        PROVE  Said[j] \notin {NoSignal, EOF}
    <3>1. j \in Attempts
      BY <2>1, GateAssumption DEF Places, Attempts
    <3>2. Received(j) /\ Said[j] = held[j]
      BY <1>1, <2>1, <3>1, SaidIs DEF FirstOpen
    <3>3. ~AtWaiter(j)
      BY <3>1 DEF IInv, TokenTaken
    <3>4. waiter[j] = "done"
      BY <3>1, <3>2, <3>3 DEF Turns, AtWaiter, Storing
    <3> QED
      BY <3>2, <3>3, <3>4 DEF AtWaiter, Over, Received
  <2> QED
    BY <2>1
<1>7. Rules' = Rules
  BY DEF Rules, Allowed, Timed
<1> QED
  BY <1>4, <1>5, <1>6, <1>7 DEF Ledger!Accept, Ledger!Places, Places

\* As long as the same answers are received and under way, the ledger stays.
LEMMA SaidStays ==
    ASSUME Underway' = Underway, held' = held
    PROVE  Said' = Said
BY DEF Said, Received

\* Whoever signals the gate accepts an answer, or the ledger does not see it.
LEMMA SignalsKeep ==
    ASSUME IInv, IInv', Turns,
           \/ \E s \in Senders : SendRefused(s) \/ \E word \in Words : Send(s, word)
           \/ \E c \in Closers : Close(c) \/ CloseRefused(c)
           \/ \E a \in Actors : Push(a)
           \/ UNCHANGED vars
    PROVE  \/ \E answer \in Words \cup {EOF} : Ledger!Accept(answer)
           \/ UNCHANGED <<Rules, Said, attempt, outcome>>
<1>1. UNCHANGED <<held, config, attempt, outcome>>
  BY DEF SendRefused, Send, Close, CloseRefused, Push, vars, serviceVars
<1>2. Rules' = Rules
  BY <1>1 DEF Rules, Allowed, Timed
<1> DEFINE U == /\ \A a \in Actors : Pushing(a) => Underway = signal[a]
                /\ Full => Underway = Head(chan)
                /\ closing => Underway = EOF
                /\ ~Full /\ ~closing /\ (\A a \in Actors : ~Pushing(a)) => Underway = NoSignal
<1>3. U
  BY UnderwayIs DEF IInv
<1>4. U'
  <2>1. (OneToken => U)'
    BY UnderwayIs, PTL
  <2> QED
    BY <2>1 DEF IInv
<1>5. ASSUME NEW s \in Senders, NEW word \in Words, Send(s, word)
      PROVE  Ledger!Accept(word)
  <2>1. Pushing(s)' /\ signal'[s] = word /\ s \in Actors /\ state = 0
    BY <1>5 DEF Send, WinsCAS, Pushing, IInv, TypeOK, Actors
  <2> QED
    BY <1>1, <1>4, <2>1, AnswerAccepted
<1>6. ASSUME NEW c \in Closers, Close(c)
      PROVE  Ledger!Accept(EOF)
  <2>1. Pushing(c)' /\ signal'[c] = EOF /\ c \in Actors /\ state = 0
    BY <1>6 DEF Close, WinsCAS, Pushing, IInv, TypeOK, Actors
  <2> QED
    BY <1>1, <1>4, <2>1, AnswerAccepted
<1>7. ASSUME NEW a \in Actors, Push(a)
      PROVE  Underway' = Underway
  <2>1. Pushing(a) /\ Underway = signal[a]
    BY <1>3, <1>7 DEF Push, Pushing
  <2>2. chan = <<>>
    BY <2>1 DEF IInv, OneToken, Full
  <2>3. Full' /\ Head(chan') = signal[a]
    BY <1>7, <2>2 DEF Push, Full
  <2> QED
    BY <1>4, <2>1, <2>3
<1>8. CASE (\E s \in Senders : SendRefused(s)) \/ (\E c \in Closers : CloseRefused(c)) \/ UNCHANGED vars
  <2>1. /\ UNCHANGED <<chan, closing, signal>>
        /\ \A a \in Actors : Pushing(a)' <=> Pushing(a)
    BY <1>8 DEF SendRefused, CloseRefused, channelVars, vars, Pushing, IInv, TypeOK, Actors
  <2>2. Underway' = Underway
    <3>1. CASE \E a \in Actors : Pushing(a)
      BY <1>3, <1>4, <2>1, <3>1
    <3>2. CASE ~(\E a \in Actors : Pushing(a)) /\ Full
      BY <1>3, <1>4, <2>1, <3>2 DEF Full
    <3>3. CASE ~(\E a \in Actors : Pushing(a)) /\ ~Full
      BY <1>3, <1>4, <2>1, <3>3 DEF Full
    <3> QED
      BY <3>1, <3>2, <3>3
  <2> QED
    BY <1>1, <1>2, <2>2, SaidStays
<1> QED
  BY <1>1, <1>2, <1>5, <1>6, <1>7, <1>8, SaidStays

\* A goroutine that receives moves an answer from its way to its turn.
LEMMA ReceiversKeep ==
    ASSUME IInv, IInv', Turns, Turns', NEW i \in Attempts, Receive(i) \/ Reopen(i)
    PROVE  UNCHANGED <<Rules, Said, attempt, outcome>>
<1>1. UNCHANGED <<config, attempt, outcome, pc, signal, closing>>
  BY DEF Receive, Reopen, actorVars, serviceVars
<1>2. Rules' = Rules
  BY <1>1 DEF Rules, Allowed, Timed
<1>3. CASE Reopen(i)
  <2>1. held' = held /\ chan' = chan
    BY <1>3 DEF Reopen
  <2>2. Underway' = Underway
    BY <1>1, <2>1 DEF Underway
  <2> QED
    BY <1>1, <1>2, <2>1, <2>2, SaidStays
<1>4. CASE Receive(i)
  <2>1. Full /\ Underway = Head(chan)
    BY <1>4, UnderwayIs DEF Receive, Full, IInv
  <2>2. chan' = <<>> /\ ~closing' /\ \A a \in Actors : ~Pushing(a)'
    BY <1>1, <1>4, <2>1 DEF Receive, Full, Pushing, IInv, OneToken, TypeOK
  <2>3. Underway' = NoSignal
    BY <2>2 DEF Underway, Pushing
  <2>4. Head(chan) # NoSignal /\ held' = [held EXCEPT ![i] = Head(chan)]
    BY <1>4 DEF Receive, IInv, TypeOK, Words, EOF, NoSignal
  <2>5. /\ held'[i] = Head(chan)
        /\ \A j \in Attempts : j # i => held'[j] = held[j]
    BY <2>4 DEF IInv, TypeOK
  <2>6. ~Received(i) /\ Received(i)' /\ \A j \in Places : j # i => (Received(j)' <=> Received(j))
    BY <1>4, <2>4, <2>5 DEF Receive, Receiver, Turns, Received
  <2>7. i \in Places /\ FirstOpen(i)
    <3>1. i <= attempt
      BY <1>4, GateAssumption DEF Receive, Receiver, IInv, Ahead, TypeOK, Attempts
    <3>2. \A j \in Attempts : j < i => waiter[j] \in WaiterStates \ {"none", "reading"}
      BY <1>4, <3>1 DEF Receive, Receiver, Turns, IInv, TypeOK, Attempts
    <3> QED
      BY <2>6, <3>2, GateAssumption DEF FirstOpen, Turns, WaiterStates, Attempts, Places
  <2>8. \A j \in Places : j # i => ~FirstOpen(j)
    BY <2>7, OpenPlace
  <2>9. \A j \in Places : Said'[j] = Said[j]
    <3>1. Said'[i] = Said[i]
      BY <2>1, <2>5, <2>6, <2>7 DEF Said, Places, FirstOpen
    <3>2. ASSUME NEW j \in Places, j # i, Received(j)
          PROVE  Said'[j] = Said[j]
      BY <2>5, <2>6, <3>2 DEF Said, Places, Received
    <3>3. ASSUME NEW j \in Places, j # i, ~Received(j)
          PROVE  Said'[j] = Said[j]
      <4>1. Said'[j] = NoSignal
        BY <2>3, <2>6, <3>3 DEF Said, Places
      <4> QED
        BY <2>8, <3>3, <4>1, SaidIs
    <3> QED
      BY <3>1, <3>2, <3>3
  <2>10. Said' = Said
    <3>1. Said' = [j \in Places |-> Said'[j]] /\ Said = [j \in Places |-> Said[j]]
      BY DEF Said, Places
    <3> QED
      BY <2>9, <3>1
  <2> QED
    BY <1>1, <1>2, <2>10
<1> QED
  BY <1>3, <1>4

\* A word that is not offered, and a deadline, take the next turn or end it.
LEMMA RetryIsNextTurn ==
    ASSUME TypeOK, Retry
    PROVE  Ledger!NextTurn
<1>1. attempt \in Nat /\ MaxAttempts \in Nat /\ attempt <= MaxAttempts
  BY GateAssumption DEF TypeOK, Attempts
<1> QED
  BY <1>1 DEF Retry, Ledger!NextTurn, Ledger!End

\* "approve" is no word of a gate: the automatic answer is one more retry.
LEMMA TimeIsUpExpires ==
    ASSUME TypeOK, TimeIsUp, Timed, outcome = "pending", Rules' = Rules, Said' = Said
    PROVE  Ledger!Expire
<1>1. "approve" \notin Allowed
  BY DEF Allowed
<1>2. Ledger!NextTurn \/ Ledger!End("abort_item")
  BY <1>1, RetryIsNextTurn DEF TimeIsUp, Conclude, Ledger!End
<1> QED
  BY <1>2 DEF Ledger!Expire, Rules

\* The service hears the answer of its turn, or its time is up.
LEMMA ServiceKeeps ==
    ASSUME IInv, IInv', Turns, Answer \/ TimerFires \/ TimerCloses
    PROVE  \/ Ledger!Hear
           \/ Ledger!Expire
           \/ Ledger!Accept(EOF)
<1>1. UNCHANGED <<config, held, pc, signal>>
  BY DEF Answer, TimerFires, TimerCloses, actorVars
<1>2. Rules' = Rules
  BY <1>1 DEF Rules, Allowed, Timed
<1>3. CASE Answer
  <2>1. Said' = Said
    <3>1. Underway' = Underway
      BY <1>1, <1>3 DEF Answer, channelVars, Underway
    <3> QED
      BY <1>1, <3>1, SaidStays
  <2>2. attempt \in Attempts /\ attempt \in Places
    BY GateAssumption DEF IInv, TypeOK, Attempts, Places
  <2>3. Received(attempt) /\ Said[attempt] = held[attempt] /\ held[attempt] \in Words \cup {EOF}
    BY <1>3, <2>2, SaidIs DEF Answer, Turns, IInv, Signals
  <2>4. Said[attempt] # NoSignal
    BY <2>3 DEF Received
  <2>5. CASE held[attempt] = EOF
    BY <1>2, <1>3, <2>1, <2>3, <2>4, <2>5 DEF Answer, Ledger!Hear, Ledger!End
  <2>6. CASE held[attempt] # EOF /\ held[attempt] \in Allowed
    <3>1. outcome' = Verdict(held[attempt]) /\ UNCHANGED attempt
      BY <1>3, <2>6 DEF Answer, Conclude
    <3>2. \/ held[attempt] \in Rules.offered \ Rules.stops /\ outcome' = "ok"
          \/ held[attempt] \in Rules.offered \cap Rules.stops /\ outcome' = "abort_item"
      BY <2>6, <3>1 DEF Rules, Verdict
    <3> QED
      BY <1>2, <1>3, <2>1, <2>3, <2>4, <3>1, <3>2 DEF Answer, Ledger!Hear, Ledger!End
  <2>7. CASE held[attempt] # EOF /\ held[attempt] \notin Allowed
    <3>1. Ledger!NextTurn
      BY <1>3, <2>7, RetryIsNextTurn DEF Answer, Conclude, IInv
    <3>2. held[attempt] \in Words \ Rules.offered
      BY <2>3, <2>7 DEF Rules
    <3> QED
      BY <1>2, <1>3, <2>1, <2>3, <2>4, <3>1, <3>2 DEF Answer, Ledger!Hear
  <2> QED
    BY <2>5, <2>6, <2>7
<1>4. CASE TimerFires /\ state = 0
  <2>1. closing' /\ ~Full' /\ UNCHANGED <<attempt, outcome>>
    BY <1>4 DEF TimerFires, WinsCAS, Full, IInv, TokenTaken
  <2>2. Underway' = EOF
    BY <2>1 DEF Underway, Full
  <2> QED
    BY <1>1, <1>4, <2>1, <2>2, AnswerAccepted
<1>5. CASE TimerFires /\ state # 0
  <2>1. UNCHANGED <<chan, closing>> /\ TimeIsUp /\ Timed /\ outcome = "pending"
    BY <1>5 DEF TimerFires
  <2>2. Said' = Said
    <3>1. Underway' = Underway
      BY <1>1, <2>1 DEF Underway
    <3> QED
      BY <1>1, <3>1, SaidStays
  <2> QED
    BY <1>2, <2>1, <2>2, TimeIsUpExpires DEF IInv
<1>6. CASE TimerCloses
  <2>1. TimeIsUp /\ closing /\ ~Full /\ chan = <<>>
    BY <1>6 DEF TimerCloses, IInv, OneToken, Full
  <2>2. chan' = <<EOF>>
    BY <1>6, <2>1 DEF TimerCloses
  <2>3. Said' = Said
    <3>1. Underway = EOF /\ Underway' = EOF
      BY <2>1, <2>2 DEF Underway
    <3> QED
      BY <1>1, <3>1, SaidStays
  <2>4. Timed /\ outcome = "pending"
    BY <2>1 DEF Turns
  <2> QED
    BY <1>2, <2>1, <2>3, <2>4, TimeIsUpExpires DEF IInv
<1> QED
  BY <1>3, <1>4, <1>5, <1>6

\* At the start nothing was said.
LEMMA GateLedgerOpens == Init => Ledger!LedgerInit
<1> SUFFICES ASSUME Init PROVE Ledger!LedgerInit
  OBVIOUS
<1>1. Rules \in Ledger!Rules
  BY DEF Rules, Allowed, Timed, Ledger!Rules, Words
<1>2. Said = [i \in Places |-> NoSignal]
  <2>1. Underway = NoSignal
    BY DEF Init, Underway
  <2>2. \A i \in Places : ~Received(i)
    BY DEF Init, Received
  <2>3. \A i \in Places : Said[i] = NoSignal
    BY <2>1, <2>2, SaidIs
  <2>4. Said = [i \in Places |-> Said[i]]
    BY DEF Said, Places
  <2> QED
    BY <2>3, <2>4
<1> QED
  BY <1>1, <1>2 DEF Init, Ledger!LedgerInit, Ledger!Places, Places

\* The ledger follows the gate step by step.
LEMMA GateLedgerStep ==
    ASSUME IInv, IInv', Turns, Turns', [Next]_vars
    PROVE  [Ledger!LedgerNext]_<<Rules, Said, attempt, outcome>>
BY SignalsKeep, ReceiversKeep, ServiceKeeps DEF Next, Ledger!LedgerNext

\* A gate keeps its ledger: whoever races with the deadline, with a closer or
\* with one another, answers are accepted until the end of input is, each is
\* heard by its own turn or by none, and the first offered word decides.
THEOREM GateKeepsItsLedger == Spec => GateKeepsLedger
<1>1. Init => Turns
  BY TurnsBegin
<1>2. IInv /\ Turns /\ [Next]_vars => Turns'
  BY TurnsStep
<1>3. Init => Ledger!LedgerInit
  BY GateLedgerOpens
<1>4. IInv /\ IInv' /\ Turns /\ Turns' /\ [Next]_vars => [Ledger!LedgerNext]_<<Rules, Said, attempt, outcome>>
  BY GateLedgerStep
<1> QED
  BY <1>1, <1>2, <1>3, <1>4, GateInvariant, PTL DEF Spec, GateKeepsLedger, Ledger!LedgerSpec
=============================================================================
