---- MODULE Interrupts ----
(*
Stopping a Turn (SessionService.interrupt, activeTurnIdForInterrupt):
the request names no Turn; the service names the one it knows, or finds
its id in the history, or waits for it.  Turns come from prompts, from
Review, and from the App Server itself.  What the App Server says comes
in its order, and an answer is acted on before the next line is read.
*)
EXTENDS Naturals, Sequences

CONSTANTS
    MaxTurns,    \* bound: Turns
    MaxPresses,  \* bound: interrupts
    MaxLosses    \* bound: connections lost

VARIABLES
    run,         \* App Server: the Turn in progress; 0: none
    stored,      \* App Server: what its history has of each Turn
    lines,       \* events, and the answers to requests, in order
    up,          \* the connection
    state, active,  \* the session's runtime; 0: the Turn's id is not known
    announced,   \* ghost: the Turn it was last told of
    cached,      \* sessionSnapshots: what it has of each Turn
    op,          \* the operation in the session's lock
    pressed,     \* interrupts that wait for the lock: the Turn that was shown
    stopped,     \* ghost: Turns the App Server was asked to stop
    lied,        \* ghost: a stop succeeded that stopped nothing
    named,       \* ghost: Turns named in a request after their end was known
    lost         \* ghost: connections lost

server == <<run, stored>>
runtime == <<state, active, announced>>
vars == <<server, lines, up, runtime, cached, op, pressed, stopped, lied, named, lost>>

Turns == 1..MaxTurns
Statuses == {"none", "inProgress", "ended"}
NoOp == [at |-> "none", shown |-> [turn |-> 0, lost |-> 0], turn |-> 0]
Line(kind, turn) == [kind |-> kind, turn |-> turn, read |-> IF kind = "read" THEN stored ELSE <<>>]
Say(said) == lines' = IF up THEN lines \o said ELSE lines

Init ==
    /\ run = 0 /\ stored = [t \in Turns |-> "none"] /\ lines = <<>> /\ up = TRUE
    /\ state = "idle" /\ active = 0 /\ announced = 0 /\ cached = stored /\ op = NoOp /\ pressed = <<>>
    /\ stopped = {} /\ lied = FALSE /\ named = {} /\ lost = 0

Running == state = "running"

----
(* The App Server *)

NextTurn == CHOOSE t \in Turns : stored[t] = "none" /\ \A u \in Turns : stored[u] = "none" => t <= u
CanStart == run = 0 /\ \E t \in Turns : stored[t] = "none"
\* The history has the Turn only after a while: run goes before stored.
TurnStarts ==
    /\ run = 0 /\ \E t \in Turns : stored[t] = "none"
    /\ run' = NextTurn /\ Say(<<Line("active", run')>>)
    /\ UNCHANGED <<stored, up, runtime, cached, op, pressed, stopped, lied, named, lost>>
Materializes ==
    /\ run # 0 /\ stored[run] = "none" /\ stored' = [stored EXCEPT ![run] = "inProgress"]
    /\ Say(<<Line("started", run)>>)
    /\ UNCHANGED <<run, up, runtime, cached, op, pressed, stopped, lied, named, lost>>
TurnEnds ==
    /\ run # 0 /\ stored[run] = "inProgress"
    /\ run' = 0 /\ stored' = [stored EXCEPT ![run] = "ended"]
    /\ Say(<<Line("completed", run), Line("idle", 0)>>)
    /\ UNCHANGED <<up, runtime, cached, op, pressed, stopped, lied, named, lost>>
\* thread/read, decided when it is asked or later.
Reads ==
    /\ up /\ op.at = "reads" /\ op' = [op EXCEPT !.at = "read"]
    /\ Say(<<Line("read", 0)>>)
    /\ UNCHANGED <<server, up, runtime, cached, pressed, stopped, lied, named, lost>>

----
(* The runtime *)

SetRuntime(s, t) == state' = s /\ active' = t /\ announced' = IF t = 0 THEN announced ELSE t
Known(t, status) == cached' = [cached EXCEPT ![t] = status]

\* waitForActiveTurnId is answered as soon as there is an id, or no Turn.
Waited ==
    IF op.at = "waits" /\ (active' # 0 \/ state' # "running")
    THEN op' = [op EXCEPT !.at = "waited", !.turn = active'] ELSE UNCHANGED op

\* A continuation runs before the next line.
Idle == op.at \notin {"waited", "nothing"}
Event ==
    /\ Idle /\ lines # <<>> /\ Head(lines).kind \notin {"read", "answer"} /\ lines' = Tail(lines)
    /\ LET l == Head(lines)
       IN  CASE l.kind = "active" -> state' = "running" /\ announced' = l.turn /\ UNCHANGED <<active, cached>>
             [] l.kind = "started" -> SetRuntime("running", l.turn) /\ Known(l.turn, "inProgress")
             [] l.kind = "completed" -> SetRuntime("finished", 0) /\ Known(l.turn, "ended")
             [] l.kind = "idle" -> SetRuntime(IF state = "finished" THEN state ELSE "idle", 0) /\ UNCHANGED cached
    /\ Waited
    /\ UNCHANGED <<server, up, pressed, stopped, lied, named, lost>>

Lose ==
    /\ Idle /\ up /\ lost < MaxLosses /\ lost' = lost + 1 /\ up' = FALSE /\ lines' = <<>>
    /\ IF Running THEN SetRuntime("disconnected", 0) ELSE UNCHANGED runtime
    /\ op' = IF op.at \in {"reads", "read", "asks", "reviews", "reviewed"} THEN NoOp
             ELSE IF op.at = "waits" THEN [op EXCEPT !.at = "waited", !.turn = 0] ELSE op
    /\ UNCHANGED <<server, cached, pressed, stopped, lied, named>>
\* The reconciliation reads the history; it is StateReconciliation of
\* TurnLifecycle, here in one step.
Reconcile ==
    /\ ~up /\ Idle /\ up' = TRUE /\ cached' = stored
    /\ state' = IF run = 0 THEN "idle" ELSE "running"
    /\ announced' = run /\ active' = IF run # 0 /\ stored[run] # "none" THEN run ELSE 0
    /\ UNCHANGED <<server, lines, op, pressed, stopped, lied, named, lost>>

----
(* The operations *)

\* The button stops if the session runs; the id of its Turn may not be known yet.
Press ==
    /\ Running /\ Len(pressed) < MaxPresses
    /\ pressed' = Append(pressed, [turn |-> announced, lost |-> lost])
    /\ UNCHANGED <<server, lines, up, runtime, cached, op, stopped, lied, named, lost>>

\* What the user is told now is not so.
Lie(stops) == op.shown.turn # 0 /\ op.shown.turn = run /\ run \notin stops /\ op.shown.lost = lost
Succeeds(stops) == op' = NoOp /\ lied' = (lied \/ Lie(stops))
Fails == op' = NoOp /\ UNCHANGED lied
Asks(t) == op' = [op EXCEPT !.at = "asks", !.turn = t] /\ named' = IF cached'[t] = "ended" THEN named \cup {t} ELSE named

\* interrupt has the lock.
Interrupt ==
    /\ op.at = "none" /\ pressed # <<>> /\ pressed' = Tail(pressed)
    /\ op' = [at |-> IF active # 0 THEN "asks" ELSE IF Running THEN "reads" ELSE "nothing",
              shown |-> Head(pressed), turn |-> active]
    /\ UNCHANGED <<server, lines, up, runtime, cached, stopped, lied, named, lost>>
Nothing ==
    /\ op.at = "nothing" /\ Succeeds(stopped)
    /\ UNCHANGED <<server, lines, up, runtime, cached, pressed, stopped, named, lost>>

\* mergeSessionSnapshot: the history's status counts, a Turn it lacks is kept.
Merged(read) == [t \in Turns |-> IF read[t] = "none" THEN cached[t] ELSE read[t]]
LastOf(turns) == IF turns = {} THEN 0 ELSE CHOOSE t \in turns : \A u \in turns : u <= t
\* mutant: the last Turn, whatever has become of it.
LastTurn(turns) == LastOf({t \in Turns : turns[t] # "none"})
InProgress(turns) == LastOf({t \in Turns : turns[t] = "inProgress"})
\* activeTurnIdForInterrupt goes on; without an id interrupt waits for one.
ReadCame ==
    /\ lines # <<>> /\ Head(lines).kind = "read" /\ lines' = Tail(lines) /\ op.at = "read"
    /\ cached' = Merged(Head(lines).read)
    /\ LET t == InProgress(cached')
       IN  IF t # 0
           THEN SetRuntime("running", t) /\ Asks(t)
           ELSE /\ UNCHANGED <<runtime, named>>
                /\ op' = IF active # 0 \/ ~Running THEN [op EXCEPT !.at = "waited", !.turn = active]
                         ELSE [op EXCEPT !.at = "waits"]
    /\ UNCHANGED <<server, up, pressed, stopped, lied, lost>>
ReadFails ==
    /\ up /\ op.at = "reads" /\ Fails
    /\ UNCHANGED <<server, lines, up, runtime, cached, pressed, stopped, named, lost>>
NotMaterialized ==
    /\ up /\ op.at = "reads" /\ \A t \in Turns : stored[t] = "none"
    /\ op' = IF active # 0 \/ ~Running THEN [op EXCEPT !.at = "waited", !.turn = active]
             ELSE [op EXCEPT !.at = "waits"]
    /\ UNCHANGED <<server, lines, up, runtime, cached, pressed, stopped, lied, named, lost>>
WaitEnds ==
    /\ op.at = "waits" /\ op' = [op EXCEPT !.at = "waited", !.turn = 0]
    /\ UNCHANGED <<server, lines, up, runtime, cached, pressed, stopped, lied, named, lost>>

\* mutant: no id is as good as no Turn.
RefusesNot == FALSE
StillRuns == Running
Waits ==
    /\ op.at = "waited" /\ UNCHANGED cached
    /\ LET t == IF op.turn # 0 THEN op.turn ELSE active
       IN  IF t # 0 THEN Asks(t) /\ UNCHANGED lied
           ELSE (IF StillRuns THEN Fails ELSE Succeeds(stopped)) /\ UNCHANGED named
    /\ UNCHANGED <<server, lines, up, runtime, pressed, stopped, lost>>

\* turn/interrupt; a Turn that is over is refused.
Interrupted ==
    /\ op.at = "asks" /\ up
    /\ IF op.turn = run THEN stopped' = stopped \cup {run} /\ Succeeds(stopped')
       ELSE Fails /\ UNCHANGED stopped
    /\ UNCHANGED <<server, lines, up, runtime, cached, pressed, named, lost>>

\* startReview: in the lock, if no Turn is known.
Review ==
    /\ op.at = "none" /\ up /\ state \in {"idle", "finished"} /\ active = 0
    /\ op' = [NoOp EXCEPT !.at = "reviews"]
    /\ UNCHANGED <<server, lines, up, runtime, cached, pressed, stopped, lied, named, lost>>
ReviewStarts ==
    /\ up /\ op.at = "reviews"
    /\ IF CanStart
       THEN /\ run' = NextTurn /\ stored' = [stored EXCEPT ![run'] = "inProgress"]
            /\ Say(<<Line("active", run'), Line("answer", run'), Line("started", run')>>)
            /\ op' = [op EXCEPT !.at = "reviewed"]
       ELSE UNCHANGED <<server, lines>> /\ op' = NoOp
    /\ UNCHANGED <<up, runtime, cached, pressed, stopped, lied, named, lost>>
ReviewCame ==
    /\ lines # <<>> /\ Head(lines).kind = "answer" /\ lines' = Tail(lines) /\ op' = NoOp
    /\ SetRuntime("running", Head(lines).turn) /\ Known(Head(lines).turn, "inProgress")
    /\ UNCHANGED <<server, up, pressed, stopped, lied, named, lost>>

Next ==
    \/ TurnStarts \/ Materializes \/ TurnEnds \/ Reads \/ Event \/ Lose \/ Reconcile
    \/ Press \/ Interrupt \/ Nothing \/ ReadCame \/ ReadFails \/ NotMaterialized \/ WaitEnds \/ Waits
    \/ Interrupted \/ Review \/ ReviewStarts \/ ReviewCame

Spec == Init /\ [][Next]_vars

----
TypeOK ==
    /\ run \in 0..MaxTurns /\ stored \in [Turns -> Statuses] /\ cached \in [Turns -> Statuses]
    /\ up \in BOOLEAN /\ state \in {"idle", "running", "finished", "disconnected"} /\ active \in 0..MaxTurns
    /\ lied \in BOOLEAN /\ op.at \in {"none", "reads", "read", "waits", "waited", "asks", "nothing", "reviews", "reviewed"}
    /\ stopped \subseteq Turns /\ named \subseteq Turns

\* Who is told that the stop succeeded has the Turn stopped that was shown when
\* the button was pressed, or it has ended; unless the connection was lost.
StopIsHonest == ~lied

\* No Turn is named to the App Server that the service has known to be over.
NamesNoEndedTurn == named = {}
====
