----------------------------- MODULE GateLedger -----------------------------
(***************************************************************************)
(* What a waiting gate promises to those who answer it (the comments of    *)
(* gate/channel.go, timeout.go and Service.runStructured): answers are     *)
(* accepted one after the other until the end of input is; the turns of    *)
(* the gate hear them in that order, each its own; the first word that the *)
(* step offers decides; and without a deadline nothing but a word or the   *)
(* end of input moves the gate. A turn whose deadline passes hears nothing *)
(* any more, and the answer that would have been its own is lost.          *)
(***************************************************************************)
EXTENDS Naturals

CONSTANTS
    Words,        \* what can be sent
    EOF,          \* the end of input
    NoSignal,     \* that nothing was sent
    MaxAttempts   \* turns

VARIABLES
    rules,     \* offered: the actions of the step, stops: those that end the
               \* item, deadline: whether turns run out of time
    said,      \* the answers accepted, in order
    turn,      \* the turn at hand
    verdict    \* "pending", "ok" or "abort_item"

Places == 1 .. MaxAttempts + 1
Rules == [offered : SUBSET Words, stops : SUBSET Words, deadline : BOOLEAN]

LedgerInit ==
    /\ rules \in Rules
    /\ said = [i \in Places |-> NoSignal]
    /\ turn = 1
    /\ verdict = "pending"

Accept(answer) ==
    /\ \E i \in Places :
          /\ said[i] = NoSignal
          /\ \A j \in Places : j < i => said[j] \notin {NoSignal, EOF}
          /\ said' = [said EXCEPT ![i] = answer]
    /\ UNCHANGED <<rules, turn, verdict>>

End(result) == verdict' = result /\ UNCHANGED turn

NextTurn ==
    \/ turn = MaxAttempts /\ End("abort_item")
    \/ turn < MaxAttempts /\ turn' = turn + 1 /\ UNCHANGED verdict

\* The turn hears the answer in its place.
Hear ==
    /\ verdict = "pending"
    /\ said[turn] # NoSignal
    /\ \/ said[turn] = EOF /\ End("abort_item")
       \/ said[turn] \in rules.offered \ rules.stops /\ End("ok")
       \/ said[turn] \in rules.offered \cap rules.stops /\ End("abort_item")
       \/ said[turn] \in Words \ rules.offered /\ NextTurn
    /\ UNCHANGED <<rules, said>>

Expire ==
    /\ verdict = "pending"
    /\ rules.deadline
    /\ NextTurn \/ End("abort_item")
    /\ UNCHANGED <<rules, said>>

LedgerNext ==
    \/ \E answer \in Words \cup {EOF} : Accept(answer)
    \/ Hear
    \/ Expire

LedgerSpec == LedgerInit /\ [][LedgerNext]_<<rules, said, turn, verdict>>
=============================================================================
