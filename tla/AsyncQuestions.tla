---- MODULE AsyncQuestions ----
(*
Questions an agent leaves in the history without waiting for an answer
(async-question-reply.ts, AsyncQuestionDock.tsx, AsyncQuestionCard.tsx).
Nothing records that one was answered: the page finds out from the
replies it formats itself, in the history, in the messages on their way
and in the draft, where a reply names the titles of its questions.
*)
EXTENDS Naturals, Sequences, FiniteSets, SequencesExt

CONSTANTS
    Titles,         \* titles of questions
    MaxItems        \* bound: items of the history

VARIABLES
    history,        \* the items: what each asks or answers
    draft,          \* titles the draft's replies answer
    sending,        \* the draft of the submission under way, a set of at most one
    onItsWay,       \* the message shown before the history has it, NoMessage
    arrived,        \* does the history have it
    running         \* is a Turn in progress

vars == <<history, draft, sending, onItsWay, arrived, running>>

\* since: the items there were when it was sent
NoMessage == [titles |-> {}, since |-> 0]
Entry(kind, titles) == [kind |-> kind, titles |-> titles]

Init ==
    /\ history = <<>> /\ draft = {}
    /\ sending = {} /\ onItsWay = NoMessage /\ arrived = FALSE /\ running = TRUE

----
(* pendingAsyncQuestionItems: from the newest item to the oldest. *)

\* mutant: a title that was answered once is answered for ever.
LeftAll(answered, asked) == answered
Left(answered, asked) == answered \ asked

Step(i, state) ==
    LET item == history[i]
    IN  IF item.kind = "replies"
        THEN [state EXCEPT !.answered = @ \cup item.titles]
        ELSE [answered |-> Left(state.answered, item.titles),
              pending |-> state.pending \cup {<<i, t>> : t \in item.titles \ state.answered}]

Seeds == draft \cup onItsWay.titles
PendingItems ==
    FoldRight(Step, [i \in 1..Len(history) |-> i], [answered |-> Seeds, pending |-> {}]).pending
PendingOf(i) == {t \in Titles : <<i, t>> \in PendingItems}

----
Ask(titles) ==
    /\ running /\ Len(history) < MaxItems
    /\ history' = Append(history, Entry("asks", titles))
    /\ UNCHANGED <<draft, sending, onItsWay, arrived, running>>

\* The card of an item, whose every question has an answer.
AddReply(i) ==
    /\ PendingOf(i) # {}
    /\ draft' = draft \cup PendingOf(i)
    /\ UNCHANGED <<history, sending, onItsWay, arrived, running>>

Edit ==
    /\ \E t \in draft : draft' = draft \ {t}
    /\ UNCHANGED <<history, sending, onItsWay, arrived, running>>

BeginSubmission ==
    /\ draft # {} /\ sending = {} /\ onItsWay = NoMessage
    /\ sending' = {draft}
    /\ onItsWay' = [titles |-> draft, since |-> Len(history)] /\ arrived' = FALSE
    /\ UNCHANGED <<history, draft, running>>

\* mutant: an accepted message is not shown any more.
ShownUntilAccepted == NoMessage
ShownOnceAccepted == onItsWay

AcceptSubmission ==
    /\ sending # {}
    /\ sending' = {}
    /\ draft' = IF draft \in sending THEN {} ELSE draft
    /\ onItsWay' = ShownOnceAccepted
    /\ UNCHANGED <<history, arrived, running>>

FinishSubmission ==
    /\ sending # {} /\ ~arrived
    /\ sending' = {} /\ onItsWay' = NoMessage
    /\ UNCHANGED <<history, draft, arrived, running>>

Arrive ==
    /\ onItsWay # NoMessage /\ ~arrived /\ Len(history) < MaxItems
    /\ history' = Append(history, Entry("replies", onItsWay.titles))
    /\ arrived' = TRUE /\ running' = TRUE
    /\ UNCHANGED <<draft, sending, onItsWay>>

\* mutant: the message goes before the history has it.
ConfirmedAnyhow == TRUE
Confirmed == arrived /\ ~running

Reconcile ==
    /\ onItsWay # NoMessage /\ sending = {} /\ Confirmed
    /\ onItsWay' = NoMessage /\ arrived' = FALSE
    /\ UNCHANGED <<history, draft, sending, running>>

TurnEnds ==
    /\ running /\ running' = FALSE
    /\ UNCHANGED <<history, draft, sending, onItsWay, arrived>>

Submits == BeginSubmission \/ AcceptSubmission \/ Arrive \/ Reconcile

Next ==
    \/ \E titles \in SUBSET Titles \ {{}} : Ask(titles)
    \/ \E i \in 1..Len(history) : AddReply(i)
    \/ Edit \/ TurnEnds \/ FinishSubmission \/ Submits

Spec == Init /\ [][Next]_vars

----
TypeOK ==
    /\ history \in Seq([kind : {"asks", "replies"}, titles : SUBSET Titles]) /\ Len(history) \in 0..MaxItems
    /\ draft \subseteq Titles
    /\ sending \subseteq SUBSET Titles /\ Cardinality(sending) <= 1
    /\ onItsWay \in [titles : SUBSET Titles, since : 0..MaxItems] /\ {arrived, running} \subseteq BOOLEAN

\* A reply answers the last question of its title before it and no later one: a
\* question is pending exactly if what comes next under its title, the draft and
\* the message on its way coming last, is another question, or nothing.
Answered(i, t) ==
    LET later == {k \in i + 1..Len(history) : t \in history[k].titles}
    IN  IF later = {} THEN t \in Seeds
        ELSE history[CHOOSE k \in later : \A m \in later : k <= m].kind = "replies"
PendingIsUnanswered ==
    PendingItems = {q \in (1..Len(history)) \X Titles :
                       /\ history[q[1]].kind = "asks" /\ q[2] \in history[q[1]].titles
                       /\ ~Answered(q[1], q[2])}

\* While the reply that answers it is sent, confirmed and found again in the
\* history, a question does not come back.
AnswersHoldStep ==
    Submits =>
    \A i \in 1..(IF onItsWay = NoMessage THEN Len(history) ELSE onItsWay.since) :
        PendingOf(i)' \subseteq PendingOf(i)
AnswersHold == [][AnswersHoldStep]_vars

\* Not true: an older reply does not dismiss a newly asked question with the same title
\* (async-question-reply.ts:18).  The message on its way is dropped from the page only
\* when no Turn runs (timeline-presentation.ts:68), and the Dock passes it as a reply
\* that comes last although the history has it already.
NewQuestionsShow == \A i \in 1..Len(history) : history[i].kind = "asks" =>
    \A t \in history[i].titles :
        \/ t \in draft \/ (t \in onItsWay.titles /\ ~arrived)
        \/ \E k \in i + 1..Len(history) : t \in history[k].titles
        \/ t \in PendingOf(i)

\* Not true when a title is asked twice before it is answered: as many replies as
\* there were questions leave none of them
\* ("Draft/queued replies hide their
\* forms; persisted user replies survive reloads", async-question-reply.ts:13).
EachReplyCounts == \A t \in Titles :
    LET Of(kind) == {i \in 1..Len(history) : history[i].kind = kind /\ t \in history[i].titles}
    IN  Seeds = {} /\ Of("asks") # {} /\ Cardinality(Of("replies")) >= Cardinality(Of("asks"))
            /\ (\A a \in Of("asks"), r \in Of("replies") : a < r)
        => \A i \in Of("asks") : t \notin PendingOf(i)
====
