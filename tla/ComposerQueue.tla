---- MODULE ComposerQueue ----
(*
The queue of a browser's Composer: prompts and commands entered while a
Turn runs, sent one by one when the Turns before them have ended
(Composer.tsx, store.ts, queued-turn-barrier.ts), against the server's
remembered answers (session-service.ts, request-deduplicator.ts) and a
Codex that may lose an answer.

The page knows the session through two things that do not arrive
together, the runtime and the timeline, both events of "wire"; answers
of its requests come beside them, sooner or later.  Each commit of the
page runs its effects (Effects) before the next event, answer or click.

An item is a number, in the order of entry.  Turns are numbered by their
place in the thread; 0 is no Turn, no item.
*)
EXTENDS Naturals, Sequences, SequencesExt, FiniteSets

CONSTANTS
    Items,          \* 1..n: what the user may enter
    Compacts,       \* the items that are the command /compact, not a message
    Outlives,       \* a Turn goes on when its App Server's connection is lost
    MaxOthers,      \* bound on the Turns the queue does not start
    MaxLosses,      \* bound on lost answers and lost connections
    MaxRemounts     \* bound on reloads, on remounts and on reconnections of a page

ASSUME QueueConstants ==
    /\ IsFiniteSet(Items) /\ Items = 1 .. Cardinality(Items)
    /\ Compacts \subseteq Items
    /\ MaxOthers \in Nat /\ MaxLosses \in Nat /\ MaxRemounts \in Nat

VARIABLES
    turns,          \* Codex: the thread's Turns
    srv,            \* the server's runtime of the thread, and the connection's gate
    op,             \* the item whose turn/start holds the thread's lock
    results,        \* per item: the promise the server remembers for it
    asked,          \* items whose request has not been handled
    answer,         \* the answer on its way to the page
    wire,           \* events on their way to the page
    queue,          \* the stored queue
    barrier,        \* the stored barrier
    page,           \* the page's memory
    taken,          \* items the user cancelled or got back as a draft
    dropped,        \* history: messages taken for another, settled or applied, prompt
    budget

stored == <<queue, barrier>>
server == <<srv, op, results, asked>>
vars == <<turns, server, answer, wire, stored, page, taken, dropped, budget>>

----
(* The page. *)

Messages == Items \ Compacts

NoBarrier == [prev |-> 0, turn |-> 0, on |-> FALSE]
Barrier(prev, turn) == [prev |-> prev, turn |-> turn, on |-> TRUE]

\* What the Composer shows of the runtime: nothing of it while the connection
\* is not the connected one.
Shown == IF page.gate THEN page.state ELSE "disconnected"
Running == Shown = "running"
Blocked == Shown = "disconnected"

Head0 == IF queue = << >> THEN 0 ELSE queue[1]
Terminal == page.latest # 0 /\ page.done

\* The Turn a barrier waits for: the one it names, or the first new one seen.
Observed(b) ==
    IF b.turn # 0 THEN b.turn
    ELSE IF page.active # 0 /\ page.active # b.prev THEN page.active
    ELSE IF page.latest # b.prev THEN page.latest ELSE 0

AdvancedEarly(b) == IF Shown # "running" THEN NoBarrier ELSE b          \* mutant
AdvancedByName(b) ==                                                     \* mutant
    IF Terminal /\ page.latest = b.turn THEN NoBarrier ELSE b
Advanced(b) ==
    IF Shown = "disconnected" THEN NoBarrier
    ELSE IF Observed(b) = 0 THEN b
    ELSE IF Terminal /\ (page.latest = Observed(b) \/ page.latest # b.prev) THEN NoBarrier
    ELSE [b EXCEPT !.turn = Observed(b)]

\* The barrier an item gets when it enters behind an active Turn, and the one
\* the first effect gives the queue.
BarrierOf == IF page.active = 0 THEN NoBarrier ELSE Barrier(page.latest, page.active)

Sends == /\ Head0 # 0 /\ ~Running /\ ~Blocked
         /\ page.pending = 0 /\ ~barrier.on
         /\ page.sending = 0 /\ page.last # Head0
         /\ (page.latest # 0 => page.done)

Awaited == Head0 # 0 /\ page.active # 0 /\ ~barrier.on
Moves == barrier.on /\ Advanced(barrier) # barrier
Settled == ~Awaited /\ ~Moves /\ ~Sends

\* One commit: the three effects, on what the commit saw.
Effects ==
    /\ Awaited \/ Moves \/ Sends
    /\ barrier' = IF barrier.on THEN Advanced(barrier) ELSE IF Awaited THEN BarrierOf ELSE barrier
    /\ \/ ~Sends /\ UNCHANGED <<page, asked>>
       \/ /\ Sends
          /\ asked' = asked \cup {Head0}
          /\ page' = [page EXCEPT !.last = Head0, !.sending = Head0, !.prev = page.latest,
                          !.pending = IF Head0 \in Compacts THEN @ ELSE Head0]
    /\ UNCHANGED <<turns, srv, op, results, answer, wire, queue, taken, dropped, budget>>

\* Messages and commands queue up behind a running Turn.
Enqueue(i) ==
    /\ Running /\ i \notin taken
    /\ \A j \in Items : j < i => \/ j \in taken \/ Contains(queue, j) \/ page.entered >= j
    /\ page.entered = i - 1
    /\ queue' = Append(queue, i)
    /\ barrier' = IF barrier.on THEN barrier ELSE BarrierOf
    /\ page' = [page EXCEPT !.entered = i]
    /\ UNCHANGED <<turns, server, answer, wire, taken, dropped, budget>>

\* The queue without item i, which is in it once at most.
Without(i) == IF Contains(queue, i) THEN RemoveAt(queue, CHOOSE k \in DOMAIN queue : queue[k] = i) ELSE queue

\* An item leaves the queue; the last one takes the barrier with it.
Leaves(i, b) ==
    /\ queue' = Without(i)
    /\ barrier' = IF Contains(queue, i) /\ Without(i) = << >> THEN NoBarrier ELSE b

Cancel(i) ==
    /\ Contains(queue, i) /\ ~(i = Head0 /\ page.sending = i)
    /\ Leaves(i, barrier)
    /\ taken' = taken \cup {i} /\ UNCHANGED dropped
    /\ page' = [page EXCEPT !.last = IF i = Head0 THEN 0 ELSE @]
    /\ UNCHANGED <<turns, server, answer, wire, budget>>

Retry ==
    /\ Head0 # 0 /\ page.last = Head0 /\ ~Running /\ page.sending = 0 /\ ~barrier.on
    /\ page' = [page EXCEPT !.last = 0]
    /\ UNCHANGED <<turns, server, answer, wire, stored, taken, dropped, budget>>

----
(* The server and Codex. *)

Runtime(state, active, flag) == [kind |-> "runtime", state |-> state, active |-> active, flag |-> flag]
TurnEvent(n, done) == [kind |-> "turn", turn |-> n, done |-> done]
Gate(open) == [kind |-> "gate", open |-> open]
Applied == [kind |-> "applied"]

Live(ts) == {n \in DOMAIN ts : ~ts[n].done}
NewTurn(i) == Append(turns, [item |-> i, done |-> FALSE])
AllDone(ts) == [n \in DOMAIN ts |-> [ts[n] EXCEPT !.done = TRUE]]

\* An answer may overtake the events of its own step, not those sent before it:
\* "behind" counts these.
NoAnswer == [to |-> 0, what |-> "none", turn |-> 0, behind |-> 0]
Reply(i, what, turn) ==
    IF page.sending = i THEN [to |-> i, what |-> what, turn |-> turn, behind |-> Len(wire)] ELSE answer

\* A request is answered at once: the gate is closed, or the thread is busy, or
\* its message has an answer that is remembered, a refusal too.
Refusal(i) ==
    CASE ~srv.gate -> "closed"
      [] srv.gate /\ results[i].what # "none" -> results[i].what
      [] OTHER -> "refused"
HandleAnswered(i) ==
    /\ i \in asked /\ answer = NoAnswer
    /\ results[i].what # "pending"
    /\ ~srv.gate \/ results[i].what # "none" \/ (op = 0 /\ srv.state # "idle")
    /\ asked' = asked \ {i}
    /\ answer' = Reply(i, Refusal(i), IF srv.gate THEN results[i].turn ELSE 0)
    /\ results' = IF srv.gate /\ results[i].what = "none" /\ i \notin Compacts
                  THEN [results EXCEPT ![i] = [what |-> "refused", turn |-> 0]] ELSE results
    /\ UNCHANGED <<turns, srv, op, wire, stored, page, taken, dropped, budget>>

\* A message's turn/start, or the start of a compaction, whose Turn follows.
HandleStart(i) ==
    /\ i \in asked /\ srv.gate /\ results[i].what = "none"
    /\ op = 0 /\ srv.state = "idle"
    /\ op' = i
    /\ results' = [results EXCEPT ![i] = [what |-> "pending", turn |-> 0]]
    /\ UNCHANGED <<turns, srv, asked, answer, wire, stored, page, taken, dropped, budget>>

\* Codex answers: the Turn is the thread's.
Starts ==
    /\ op # 0 /\ answer = NoAnswer
    /\ LET n == Len(turns) + 1 IN
        /\ turns' = NewTurn(op)
        /\ srv' = [srv EXCEPT !.state = "running", !.active = n]
        /\ wire' = wire \o <<Runtime("running", n, FALSE), TurnEvent(n, FALSE)>>
        /\ results' = [results EXCEPT ![op] =
                          [what |-> "started", turn |-> IF op \in Compacts THEN 0 ELSE n]]
        /\ answer' = Reply(op, "started", IF op \in Compacts THEN 0 ELSE n)
    /\ asked' = asked \ {op} /\ op' = 0
    /\ UNCHANGED <<stored, page, taken, dropped, budget>>

\* Codex refuses; a message's refusal is remembered, a command's is not.
Fails ==
    /\ op # 0 /\ answer = NoAnswer /\ budget.losses < MaxLosses
    /\ budget' = [budget EXCEPT !.losses = @ + 1]
    /\ results' = [results EXCEPT ![op].what = IF op \in Compacts THEN "none" ELSE "refused"]
    /\ answer' = Reply(op, "refused", 0)
    /\ asked' = asked \ {op} /\ op' = 0
    /\ UNCHANGED <<turns, srv, wire, stored, page, taken, dropped>>

\* A rejected promise is remembered like a kept one.
Unknown == [what |-> "uncertain", turn |-> 0]

\* The answer of a turn/start is lost with the connection: Codex has started
\* the Turn or not, the server does not know, the thread is disconnected.
IsUncertain ==
    /\ op # 0 /\ op \notin Compacts /\ answer = NoAnswer /\ budget.losses < MaxLosses
    /\ budget' = [budget EXCEPT !.losses = @ + 1]
    /\ \/ turns' = IF Outlives THEN NewTurn(op) ELSE AllDone(NewTurn(op))
       \/ UNCHANGED turns
    /\ srv' = [state |-> "disconnected", active |-> 0, unsure |-> op, base |-> Len(turns), gate |-> FALSE]
    /\ wire' = wire \o <<Runtime("disconnected", 0, TRUE), Gate(FALSE)>>
    /\ results' = [results EXCEPT ![op] = Unknown]
    /\ answer' = Reply(op, "uncertain", 0)
    /\ asked' = asked \ {op} /\ op' = 0
    /\ UNCHANGED <<stored, page, taken, dropped>>

\* The connection is lost between operations.
GateCloses ==
    /\ op = 0 /\ srv.gate /\ budget.losses < MaxLosses
    /\ budget' = [budget EXCEPT !.losses = @ + 1]
    /\ turns' = IF Outlives THEN turns ELSE AllDone(turns)
    /\ srv' = [srv EXCEPT !.gate = FALSE, !.active = 0,
                          !.state = IF @ = "running" THEN "disconnected" ELSE @]
    /\ wire' = wire \o (IF srv.state = "running" THEN <<Runtime("disconnected", 0, FALSE)>> ELSE << >>)
                    \o <<Gate(FALSE)>>
    /\ UNCHANGED <<op, results, asked, answer, stored, page, taken, dropped>>

Steering == Len(turns) + Cardinality(Items) + 1    \* srv.unsure of a steer

\* The runtime a snapshot of the thread gives.
Snapshot == IF Live(turns) = {} THEN [state |-> "idle", active |-> 0]
            ELSE [state |-> "running", active |-> Len(turns)]

\* Reconnected: the runtime is set right first, and then the gate is opened.
\* An uncertain start stays so until its Turn is seen, a steer until the user asks.
Reconcile ==
    /\ ~srv.gate
    /\ LET seen == srv.unsure \in Items /\ Len(turns) > srv.base
           stays == srv.unsure # 0 /\ ~seen
           to == IF stays THEN [state |-> "disconnected", active |-> 0] ELSE Snapshot
       IN /\ srv' = [srv EXCEPT !.gate = TRUE, !.state = to.state, !.active = to.active,
                                !.unsure = IF stays THEN @ ELSE 0]
          /\ wire' = wire \o <<Runtime(to.state, to.active, stays)>>
                          \o (IF seen THEN <<Applied>> ELSE << >>) \o <<Gate(TRUE)>>
    /\ UNCHANGED <<turns, op, results, asked, answer, stored, page, taken, dropped, budget>>

TurnEnds ==
    /\ srv.gate /\ srv.active # 0
    /\ turns' = AllDone(turns)
    /\ srv' = [srv EXCEPT !.state = "idle", !.active = 0]
    /\ wire' = wire \o <<Runtime("idle", 0, FALSE), TurnEvent(srv.active, TRUE)>>
    /\ UNCHANGED <<op, results, asked, answer, stored, page, taken, dropped, budget>>

\* Another tab, the schedule or the user's own typed prompt starts a Turn.
OtherStarts ==
    /\ srv.gate /\ op = 0 /\ srv.state = "idle"
    /\ Cardinality({n \in DOMAIN turns : turns[n].item = 0}) < MaxOthers
    /\ turns' = NewTurn(0)
    /\ srv' = [srv EXCEPT !.state = "running", !.active = Len(turns) + 1]
    /\ wire' = wire \o <<Runtime("running", Len(turns) + 1, FALSE), TurnEvent(Len(turns) + 1, FALSE)>>
    /\ UNCHANGED <<op, results, asked, answer, stored, page, taken, dropped, budget>>

----
(* What comes back to the page. *)

\* An item that failed keeps its place; a message that left comes back.
KeptLast(i) == Append(Without(i), i)                              \* mutant
Kept(i) == IF Contains(queue, i) \/ i \in Compacts THEN queue ELSE Append(queue, i)

\* The request's answer: a started message leaves the queue behind a barrier
\* that names its Turn, a compaction behind one that waits for the next; an
\* unknown result keeps the submission; any other error keeps the item.
AnswerArrives ==
    /\ answer # NoAnswer /\ answer.behind = 0
    /\ LET i == answer.to
           ended == [page EXCEPT !.sending = 0]
       IN \/ /\ answer.what = "started"
             /\ Leaves(i, Barrier(IF i \in Compacts THEN page.prev ELSE page.latest, answer.turn))
             /\ page' = [ended EXCEPT !.pending = IF i \in Compacts THEN @ ELSE 0,
                                        !.last = IF Without(i) = << >> THEN 0 ELSE @,
                                        !.told = @ \cup ({i} \ Compacts)]
          \/ /\ answer.what = "uncertain"
             /\ page' = ended
             /\ UNCHANGED stored
          \/ /\ answer.what \in {"refused", "closed"}
             /\ page' = [ended EXCEPT !.pending = IF i \in Compacts THEN @ ELSE 0]
             /\ queue' = Kept(i)
             /\ UNCHANGED barrier
    /\ answer' = NoAnswer
    /\ UNCHANGED <<turns, server, wire, taken, dropped, budget>>

\* An event: the runtime, a Turn of the timeline, the connection, or the news
\* that an uncertain prompt was applied, which ends the submission.
Receive ==
    /\ wire # << >> /\ wire' = Tail(wire)
    /\ answer' = [answer EXCEPT !.behind = IF @ = 0 THEN 0 ELSE @ - 1]
    /\ LET e == wire[1] IN
        \/ e.kind = "runtime" /\ page' = [page EXCEPT !.state = e.state, !.active = e.active, !.flag = e.flag]
        \/ e.kind = "turn" /\ page' = [page EXCEPT !.latest = e.turn, !.done = e.done]
        \/ e.kind = "gate" /\ page' = [page EXCEPT !.gate = e.open]
        \/ e.kind = "applied" /\ page' = [page EXCEPT !.pending = 0]
    /\ UNCHANGED <<turns, server, stored, taken, dropped, budget>>

\* Reading the session again, or all of it with a new bootstrap snapshot.
Refetched(p) == [p EXCEPT !.latest = Len(turns), !.done = Live(turns) = {}]
Refreshed(p) == [Refetched(p) EXCEPT !.state = srv.state, !.active = srv.active,
                                     !.flag = srv.unsure # 0, !.gate = srv.gate]
Refetch ==
    /\ wire = << >> /\ Refetched(page) # page
    /\ page' = Refetched(page)
    /\ UNCHANGED <<turns, server, answer, wire, stored, taken, dropped, budget>>

\* The page's socket is replaced, the session's pane is mounted again, or the
\* page is loaded again: less and less of its memory is left.  A page that goes
\* takes its request with it, unless the server has begun with it.  (A command
\* asked for again by a new pane is the same request: left out.)
Remount ==
    /\ budget.remounts < MaxRemounts
    /\ budget' = [budget EXCEPT !.remounts = @ + 1]
    /\ \/ /\ page' = Refreshed(page)
          /\ wire' = << >> /\ answer' = [answer EXCEPT !.behind = 0] /\ UNCHANGED asked
       \/ /\ page' = [page EXCEPT !.last = 0] /\ page.sending \notin Compacts
          /\ UNCHANGED <<wire, answer, asked>>
       \/ /\ page' = [Refreshed(page) EXCEPT !.last = 0, !.sending = 0, !.pending = 0]
          /\ wire' = << >> /\ answer' = NoAnswer /\ asked' = asked \cap {op}
    /\ UNCHANGED <<turns, srv, op, results, stored, taken, dropped>>

\* The user steers the active Turn and the result is unknown.  (A steer whose
\* answer arrives changes nothing here.)
Steer ==
    /\ Running /\ page.active # 0 /\ page.pending = 0
    /\ op = 0 /\ srv.gate /\ srv.active = page.active /\ budget.losses < MaxLosses
    /\ budget' = [budget EXCEPT !.losses = @ + 1]
    /\ turns' = IF Outlives THEN turns ELSE AllDone(turns)
    /\ srv' = [state |-> "disconnected", active |-> 0, unsure |-> Steering, base |-> srv.active, gate |-> FALSE]
    /\ wire' = wire \o <<Runtime("disconnected", 0, TRUE), Gate(FALSE)>>
    /\ page' = [page EXCEPT !.pending = Steering]
    /\ UNCHANGED <<op, results, asked, answer, stored, taken, dropped>>

\* The user asks whether the uncertain prompt was applied.  It was: the page
\* drops the submission.  It was not: the text goes back to the input.  It is
\* settled already: nothing to do.  In each case the head of the queue, when it
\* is a message, is taken for the prompt in question.
HeadMessage == IF Head0 \in Items \ Compacts THEN Head0 ELSE 0
DropsHead(back) ==
    /\ IF HeadMessage = 0 THEN UNCHANGED stored ELSE Leaves(HeadMessage, barrier)
    /\ taken' = IF back THEN taken \cup ({HeadMessage} \ {0}) ELSE taken
    /\ dropped' = IF back THEN dropped ELSE dropped \cup ({HeadMessage} \ {0})
Resolve ==
    /\ page.flag /\ srv.gate /\ op = 0
    /\ LET settled == srv.unsure = 0
           own == srv.unsure \in Items
           start == own /\ Len(turns) > srv.base
       IN \E applied \in IF own THEN {start} ELSE BOOLEAN :
            /\ settled => ~applied
            /\ page' = [page EXCEPT !.pending = IF applied THEN 0 ELSE @]
            /\ DropsHead(~settled /\ ~applied /\ own)
            /\ results' = IF own /\ ~applied
                          THEN [results EXCEPT ![srv.unsure] = [what |-> "none", turn |-> 0]] ELSE results
            /\ IF settled THEN UNCHANGED <<srv, wire>>
               ELSE /\ srv' = [srv EXCEPT !.unsure = 0, !.state = Snapshot.state, !.active = Snapshot.active]
                    /\ wire' = wire \o <<Runtime(Snapshot.state, Snapshot.active, FALSE)>>
                                    \o (IF applied THEN <<Applied>> ELSE << >>)
    /\ UNCHANGED <<turns, op, asked, answer, budget>>

\* The user sends the text that was given back, under its first message id (one
\* step, with its answer).
SendAgain ==
    /\ page.pending \in taken /\ ~Running /\ ~Blocked /\ ~page.flag
    /\ srv.gate /\ op = 0
    /\ page' = [page EXCEPT !.pending = 0]
    /\ LET i == page.pending
           n == Len(turns) + 1
       IN \/ /\ results[i].what # "none" \/ srv.state # "idle"
             /\ UNCHANGED <<turns, srv, results, wire>>
          \/ /\ results[i].what = "none" /\ srv.state = "idle"
             /\ turns' = NewTurn(i)
             /\ srv' = [srv EXCEPT !.state = "running", !.active = n]
             /\ results' = [results EXCEPT ![i] = [what |-> "started", turn |-> n]]
             /\ wire' = wire \o <<Runtime("running", n, FALSE), TurnEvent(n, FALSE)>>
    /\ UNCHANGED <<op, asked, answer, stored, taken, dropped, budget>>

----

Init ==
    /\ turns = <<[item |-> 0, done |-> FALSE]>>
    /\ srv = [state |-> "running", active |-> 1, unsure |-> 0, base |-> 0, gate |-> TRUE]
    /\ op = 0 /\ asked = {} /\ answer = NoAnswer /\ wire = << >>
    /\ results = [i \in Items |-> [what |-> "none", turn |-> 0]]
    /\ queue = << >> /\ barrier = NoBarrier /\ taken = {} /\ dropped = {}
    /\ page = [state |-> "running", active |-> 1, flag |-> FALSE, gate |-> TRUE, latest |-> 1,
               done |-> FALSE, pending |-> 0, last |-> 0, sending |-> 0,
               prev |-> 0, entered |-> 0, told |-> {}]
    /\ budget = [losses |-> 0, remounts |-> 0]

User == Retry \/ (\E i \in Items : Enqueue(i) \/ Cancel(i)) \/ Steer \/ Resolve \/ SendAgain \/ Remount
Arrives == Receive \/ AnswerArrives \/ Refetch
Server ==
    \/ \E i \in Items : HandleAnswered(i) \/ HandleStart(i)
    \/ Starts \/ Fails \/ IsUncertain \/ GateCloses \/ Reconcile \/ TurnEnds \/ OtherStarts

Next == Effects \/ (Settled /\ (User \/ Arrives)) \/ Server

\* The browser runs its effects and its events, the server its requests; the
\* connection comes back and a Turn ends.
Fairness ==
    /\ WF_vars(Effects)
    /\ WF_vars(Settled /\ Receive) /\ WF_vars(Settled /\ AnswerArrives) /\ WF_vars(Settled /\ Refetch)
    /\ WF_vars(\E i \in Items : HandleAnswered(i) \/ HandleStart(i))
    /\ WF_vars(Starts) /\ WF_vars(Reconcile) /\ WF_vars(TurnEnds)

Spec == Init /\ [][Next]_vars /\ Fairness

----

QueuedOnce ==
    \A m, n \in DOMAIN turns :
        turns[m].item \in Messages /\ turns[m].item = turns[n].item => m = n

\* Items the user leaves to the queue: neither cancelled nor given back nor taken
\* for another prompt by a resolution, which may put them behind later ones.
Untouched == Items \ (taken \cup dropped)

FirstInFirstOut ==
    \A m, n \in DOMAIN turns :
        m < n /\ {turns[m].item, turns[n].item} \subseteq Untouched => turns[m].item <= turns[n].item

\* A queued message becomes one Turn at most, and the Turns of the items that were
\* left to the queue come in the order of entry, however answers are lost and the
\* page is loaded again (within the five minutes of the server's memory).
EachOnceInOrder == QueuedOnce /\ FirstInFirstOut

\* What was entered is still queued, has had its Turn, or is back with the user.
NothingDropped ==
    \A i \in 1..page.entered :
        Contains(queue, i) \/ i \in taken \/ \E n \in DOMAIN turns : turns[n].item = i

\* The queue never runs into its own Turns: no item is asked for while a Turn
\* goes on of which the page was told that a message before started it.
OneAfterAnother ==
    \A i \in asked, n \in Live(turns) :
        page.sending = i /\ results[i].what = "none" /\ srv.gate => turns[n].item \notin page.told

\* The user is needed: the head failed, or the result of a prompt is unknown.
NeedsUser == page.last = Head0 \/ page.pending # 0 \/ page.flag

\* The answer was so late that the page had seen a later Turn, or the Turn of its
\* compaction: its barrier waits for a Turn that need not come.
Overtaken == barrier.on /\ barrier.prev = page.latest /\ barrier.turn < barrier.prev

\* A queue moves on as long as nothing failed.
QueueMoves == []<>(queue = << >> \/ NeedsUser \/ Overtaken)

----
(* The strengthening that makes QueuedOnce inductive. *)

\* What the argument needs of the types.
QueueTypes ==
    /\ turns \in Seq([item : Items \cup {0}, done : BOOLEAN])
    /\ srv \in [state : {"idle", "running", "disconnected"}, active : 0 .. Len(turns),
               unsure : Nat, base : 0 .. Len(turns), gate : BOOLEAN]
    /\ op \in Items \cup {0} /\ taken \subseteq Items
    /\ results \in [Items -> [what : {"none", "pending", "started", "refused", "uncertain"}, turn : Nat]]

\* A message that the server remembers nothing of, or begins with, has no Turn.
FreshHasNoTurn ==
    \A i \in Messages : results[i].what = "none" \/ op = i => \A n \in DOMAIN turns : turns[n].item # i

\* Neither has an uncertain message, as long as no Turn was added since.
UnsureHasNoTurn ==
    srv.unsure \in Messages /\ Len(turns) <= srv.base => \A n \in DOMAIN turns : turns[n].item # srv.unsure

OnceInvariant == QueueTypes /\ FreshHasNoTurn /\ UnsureHasNoTurn /\ QueuedOnce

----
(* The same for FirstInFirstOut. *)

PageFields == {"state", "active", "flag", "gate", "latest", "done", "pending", "last", "sending",
               "prev", "entered", "told"}
AnswerFields == {"to", "what", "turn", "behind"}

OrderTypes ==
    /\ queue \in Seq(Items) /\ asked \subseteq Items /\ dropped \subseteq Items
    /\ DOMAIN page = PageFields /\ page.sending \in Items \cup {0} /\ page.entered \in Nat
    /\ DOMAIN answer = AnswerFields /\ answer.to \in Items \cup {0}

\* The queue has what was entered, each once, the items left to it in order.
QueueInOrder ==
    /\ \A a \in DOMAIN queue : queue[a] <= page.entered
    /\ \A n \in DOMAIN turns : turns[n].item \in Untouched => turns[n].item <= page.entered
    /\ page.sending <= page.entered
    /\ \A a, b \in DOMAIN queue : queue[a] = queue[b] => a = b
    /\ \A a, b \in DOMAIN queue : a < b /\ {queue[a], queue[b]} \subseteq Untouched => queue[a] < queue[b]

\* What is asked for, begun or answered is the head, or was touched.
Sought == asked \cup {op, page.sending, answer.to}
AsksForHead == \A i \in Sought : i \in Untouched => queue # << >> /\ queue[1] = i

\* An answer ends its request.
AnswerIsLast ==
    /\ op # 0 => results[op].what = "pending"
    /\ answer.to # 0 => answer.to = page.sending /\ answer.to \notin asked /\ answer.to # op
    /\ answer.to = 0 => answer = NoAnswer

\* What has had its Turn is not after what has still to come.
BeforeTheQueue ==
    \A n \in DOMAIN turns : \A a \in DOMAIN queue :
        {turns[n].item, queue[a]} \subseteq Untouched => turns[n].item <= queue[a]

OrderInvariant ==
    OrderTypes /\ QueueInOrder /\ AsksForHead /\ AnswerIsLast /\ BeforeTheQueue /\ FirstInFirstOut

====
