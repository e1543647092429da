---- MODULE TurnLifecycle ----
(*
One persistent Codex session, from the prompts of its browsers to the
Turns of the App Server, through disconnections of the App Server.

  SessionService   the operations that take the thread's lock, the
                   session snapshot it caches, the operations whose
                   result it does not know
  RuntimeRegistry  the runtime state every browser shows
  JsonRpcTransport one outstanding request, lines in order
  App Server       external: modelled from the requests src/ sends and
                   the notifications it handles

A Turn is its number.  Its items are the client user messages in it; of
its terminal statuses only "ended" is left.  "running" stands for
running and waitingForInput, "finished" for justFinished, interrupted
and failed.  A step of the web server is what runs between two awaits.
*)
EXTENDS Integers, Sequences, TLC

CONSTANTS
    Msgs,          \* client user messages
    NoMsg,         \* no message
    MaxTurns,      \* bound: Turns of the session
    MaxLosses,     \* bound: losses of the connection
    MaxTimeouts,   \* bound: read requests that time out
    Attempts,      \* UNCERTAIN_TURN_RECONCILIATION_ATTEMPTS
    Paginated,     \* the thread's history is paginated: resume omits Turns
    SharedServer,  \* CODEX_WEB_CODEX_SOCKET: the App Server outlives a connection
    SlowServer,    \* a mutation's response may take longer than its timeout
    ColdSend,      \* a prompt may come before anybody has read the session
    BatchedLines,  \* lines of one chunk are handled before a continuation runs
    Announces      \* thread/resume may announce the thread's status

ASSUME ConstantsAssumption ==
    /\ NoMsg \notin Msgs
    /\ MaxTurns \in Nat \ {0} /\ MaxLosses \in Nat /\ MaxTimeouts \in Nat
    /\ Attempts \in Nat \ {0}
    /\ {Paginated, SharedServer, SlowServer, ColdSend, BatchedLines, Announces} \subseteq BOOLEAN

VARIABLES
    turns,       \* App Server: the Turns of the thread
    alive,       \* App Server: its process runs
    subscribed,  \* App Server: thread loaded, its notifications go to this connection
    req,         \* the request the App Server has yet to serve
    link,        \* transport: "up", "closing" (dying process still talks), "down"
    wire,        \* lines on their way to the web server, oldest first
    strays,      \* requests of replaced connections a shared App Server may yet serve
    op,          \* the operation that holds the thread's lock
    cache,       \* sessionSnapshots: Turn number -> Turn
    loaded,      \* the snapshot is "absent", only "resumed", or "read"
    uTurn,       \* uncertainTurnBaselines and uncertainTurnMessageIds
    uSteer,      \* uncertainSteers
    submitted,   \* userMessageResults: messages a retry would not send again
    waiting,     \* accepted calls that wait for the lock
    reg,         \* the thread in RuntimeRegistry
    recovery,    \* reconcileAfterReconnect: "closed", "due", "waiting", "open"
    queued,      \* reconciliations of the thread that wait for its lock
    verdict,     \* history: what the browsers were told of a message
    lateMsgs,    \* history: messages the App Server applied by a stray request
    overtaken,   \* history: Turns whose end was handled before startTurn went on
    losses,      \* history: disconnections so far
    timeouts     \* history: read requests that timed out

server == <<turns, alive, subscribed, req>>
transport == <<link, wire, strays>>
session == <<op, cache, loaded, uTurn, uSteer, submitted, waiting>>
recovering == <<recovery, queued>>
history == <<verdict, lateMsgs, overtaken, losses, timeouts>>
vars == <<server, transport, session, reg, recovering, history>>

----
Numbers == 1 .. MaxTurns
MaybeNumber == 0 .. MaxTurns   \* 0: null or undefined where a Turn id could be
Absent == -1                   \* a key the Map does not have
Unknown == 0                   \* interrupted by the connection, Turn id unknown

Turn == [status : {"inProgress", "ended"}, msgs : SUBSET Msgs, late : BOOLEAN]
View == UNION {[D -> Turn] : D \in SUBSET Numbers}
NoTurns == << >>
EndedTurn == [status |-> "ended", msgs |-> {}, late |-> FALSE]

Running(turn) == turn.status = "inProgress"
LastOf(view) ==
    IF DOMAIN view = {} THEN 0
    ELSE CHOOSE t \in DOMAIN view : \A s \in DOMAIN view : s <= t
LiveAt(view, t) == t \in DOMAIN view /\ Running(view[t])

ContainsWhileLive(view, t, m) == LiveAt(view, t) /\ m \in view[t].msgs       \* mutant

\* snapshotHasClientUserMessage.
Contains(view, t, m) == t \in DOMAIN view /\ m \in view[t].msgs

AppliedIfUnchanged(view, base) == LastOf(view) = base                        \* mutant
AppliedIfAnyTurn(view, base) == LastOf(view) # 0                             \* mutant

\* An uncertain start is in a snapshot whose last Turn is not its baseline.
StartApplied(view, base) == LastOf(view) \notin {0, base}

\* mergeSessionSnapshot: history has the status, items are those of both, and
\* Turns only the live snapshot has are kept.
Merge(primary, live) ==
    [t \in DOMAIN primary \cup DOMAIN live |->
        IF t \notin DOMAIN primary THEN live[t]
        ELSE IF t \notin DOMAIN live THEN primary[t]
        ELSE [primary[t] EXCEPT !.msgs = @ \cup live[t].msgs]]

\* upsertSnapshotTurn.
Upsert(view, t, turn) == Merge([s \in {t} |-> turn], view)

Line(kind) == [kind |-> kind, turn |-> 0, rec |-> EndedTurn,
               ok |-> TRUE, view |-> NoTurns]
TurnLine(kind, t, turn) == [Line(kind) EXCEPT !.turn = t, !.rec = turn]
Reply(ok, t, view) == [Line("reply") EXCEPT !.ok = ok, !.turn = t, !.view = view]
NoReply == Line("none")
Refused == Reply(FALSE, 0, NoTurns)   \* the promise rejects, nothing is uncertain

NoReq == [kind |-> "none", msg |-> NoMsg, turn |-> 0, orphan |-> FALSE]
Request(kind, m, t) == [NoReq EXCEPT !.kind = kind, !.msg = m, !.turn = t]

\* phase: what the holder of the lock awaits; reply: what has come of it.
NoOp == [kind |-> "none", phase |-> "none", reply |-> NoReply, msg |-> NoMsg, turn |-> 0,
         base |-> 0, tries |-> 0, view |-> NoTurns]
Operation(kind, phase) == [NoOp EXCEPT !.kind = kind, !.phase = phase]

NoUncertainTurn == [msg |-> NoMsg, base |-> 0]
NoUncertainSteer == [msg |-> NoMsg, turn |-> 0]

----
(* RuntimeRegistry: state, activeTurnId, connectionInterruptedTurns, *)
(* uncertainTurnBaselines and uncertainTurnStart of the thread. *)

Idle == [state |-> "idle", active |-> 0, interrupted |-> Absent, baseline |-> Absent, flag |-> FALSE]

SetActiveTurn(t) == [Idle EXCEPT !.state = "running", !.active = t]
Finished == [Idle EXCEPT !.state = "finished"]

UncertainWithoutFlag(base) ==                                                \* mutant
    [state |-> "disconnected", active |-> 0, interrupted |-> Unknown, baseline |-> base, flag |-> FALSE]
UncertainWhileRunning(base) ==                                               \* mutant
    [state |-> "running", active |-> 0, interrupted |-> Unknown, baseline |-> base, flag |-> TRUE]

MarkOperationUncertain(base) ==
    [state |-> "disconnected", active |-> 0, interrupted |-> Unknown, baseline |-> base, flag |-> TRUE]

StaysRunning(r) == r                                                         \* mutant
KeepsActiveTurn(r) ==                                                        \* mutant
    IF r.state = "running" THEN [r EXCEPT !.state = "disconnected", !.interrupted = r.active] ELSE r

\* handleConnection("disconnected"); an active Turn without an id leaves Unknown.
Disconnected(r) ==
    IF r.state = "running"
    THEN [r EXCEPT !.state = "disconnected", !.active = 0, !.interrupted = r.active]
    ELSE r

StatusActive(r) == [r EXCEPT !.state = "running"]
StatusIdle(r) == [r EXCEPT !.state = IF @ = "finished" THEN @ ELSE "idle", !.active = 0]

\* reconcileSnapshot; accept is acceptUnchangedUncertainTurn, and published says
\* that the browsers get uncertainTurn.applied.
ReconcileSnapshot(r, view, accept) ==
    LET last == LastOf(view)
        uncertain == r.interrupted = Unknown /\ r.baseline # Absent
        unchanged == uncertain /\ last \in {0, r.baseline}
        unsettled == r.interrupted > 0 /\ ~(r.interrupted \in DOMAIN view /\ ~LiveAt(view, r.interrupted))
        unresolved == \/ last = 0 /\ ~(unchanged /\ accept)
                      \/ LiveAt(view, last)
                      \/ unsettled
                      \/ unchanged /\ ~accept
    IN  [published |-> ~unresolved /\ uncertain /\ ~unchanged,
         outcome |-> CASE ~unresolved -> "reconciled"
                       [] unresolved /\ unchanged /\ ~accept -> "unchanged"
                       [] OTHER -> "unresolved",
         reg |-> CASE unresolved -> [r EXCEPT !.state = "disconnected", !.active = 0, !.flag = uncertain]
                   [] ~unresolved /\ last = 0 -> Idle
                   [] OTHER -> Finished]

ConfirmApplied(r, view, active) ==
    IF active # 0 THEN SetActiveTurn(active)
    ELSE ReconcileSnapshot([r EXCEPT !.baseline = Absent, !.flag = FALSE], view, FALSE).reg

ConfirmNotApplied(r, view, active) ==
    IF active # 0 THEN SetActiveTurn(active) ELSE ReconcileSnapshot(r, view, TRUE).reg

----
Init ==
    /\ turns \in {<< >>, <<EndedTurn>>}
    /\ alive = TRUE /\ subscribed = FALSE /\ req = NoReq
    /\ link = "up" /\ wire = << >> /\ strays = {}
    /\ op = NoOp
    /\ cache = NoTurns /\ loaded = "absent"
    /\ uTurn = NoUncertainTurn /\ uSteer = NoUncertainSteer
    /\ submitted = {} /\ waiting = {}
    /\ reg = Idle
    /\ recovery = "open" /\ queued = 0
    /\ verdict = [m \in Msgs |-> "none"] /\ lateMsgs = {} /\ overtaken = {}
    /\ losses = 0 /\ timeouts = 0

\* A continuation that awaits runs before the next timer, socket or process
\* event.  Only readSession awaits two requests, so a line may come in between.
ReadsTwice == op.kind = "read" /\ op.phase = "read" /\ op.tries = 0
NextEvent == op.reply = NoReply \/ ReadsTwice
NextLine == NextEvent \/ BatchedLines

\* Ask the App Server, or have the promise reject because there is no connection.
Ask(o, phase, m, t) ==
    IF link = "up"
    THEN /\ op' = [o EXCEPT !.phase = phase, !.reply = NoReply]
         /\ req' = Request(IF phase = "mutate" THEN o.kind ELSE phase, m, t)
    ELSE /\ op' = [o EXCEPT !.phase = phase, !.reply = Refused]
         /\ UNCHANGED req

OpensWhenConnected(kind) ==                                                  \* mutant
    /\ op' = NoOp
    /\ recovery' = IF kind = "reconcile" /\ recovery = "waiting" /\ queued = 0 /\ reg.state # "disconnected"
                   THEN "open" ELSE recovery

\* The operation ends; the last reconciliation of the newest connection opens
\* the server to mutations.
Release(kind) ==
    /\ op' = NoOp
    /\ recovery' = IF kind = "reconcile" /\ recovery = "waiting" /\ queued = 0 THEN "open" ELSE recovery

----
(* Operations take the lock. *)

LockFree == op.kind = "none"

IgnoringConnection(r, u) == u.msg = NoMsg /\ r.active = 0 /\ r.state # "running" \* mutant

\* assertNoActiveTurn.
NoActiveTurn(r, u) ==
    /\ u.msg = NoMsg
    /\ r.state # "disconnected"
    /\ r.active = 0 /\ r.state # "running"

\* A route or the scheduler accepts a message: the server is reconciled and the
\* message has no result yet.  It then waits for the lock.
Accept(kind, m, t) ==
    /\ recovery = "open"
    /\ m \notin submitted
    /\ submitted' = submitted \cup {m}
    /\ waiting' = waiting \cup {[kind |-> kind, msg |-> m, turn |-> t]}
    /\ verdict' = [verdict EXCEPT ![m] = "none"]
    /\ UNCHANGED <<server, transport, op, cache, loaded, uTurn, uSteer, reg, recovering, lateMsgs, overtaken, losses, timeouts>>

MayPrompt == ColdSend \/ loaded = "read"

AcceptStart(m) == MayPrompt /\ Accept("start", m, 0)
AcceptScheduled(m) == MayPrompt /\ Accept("scheduled", m, 0)

\* The browser names the Turn it shows as active.
AcceptSteer(m) == reg.active # 0 /\ Accept("steer", m, reg.active)

\* The button a browser shows while the runtime carries the flag.
Resolution == [kind |-> "resolve", msg |-> NoMsg, turn |-> 0]

AcceptResolve ==
    /\ recovery = "open" /\ reg.flag
    /\ waiting' = waiting \cup {Resolution}
    /\ UNCHANGED <<server, transport, op, cache, loaded, uTurn, uSteer, submitted, reg, recovering, history>>

\* A waiting call gets the lock.
Take(kind, m) ==
    /\ LockFree
    /\ m.kind = kind
    /\ waiting' = waiting \ {m}

\* startTurn of a browser's prompt.  Without settings it resumes first.
BeginStart(m) ==
    /\ Take("start", m) /\ Len(turns) < MaxTurns
    /\ CASE ~NoActiveTurn(reg, uTurn) -> UNCHANGED <<op, req>>
         [] NoActiveTurn(reg, uTurn) /\ loaded = "absent" ->
              Ask([Operation("start", "resume") EXCEPT !.msg = m.msg], "resume", NoMsg, 0)
         [] OTHER -> op' = [Operation("start", "ready") EXCEPT !.msg = m.msg] /\ UNCHANGED req
    /\ UNCHANGED <<turns, alive, subscribed, transport, cache, loaded, uTurn, uSteer, submitted,
                   reg, recovering, history>>

\* startTurn of a scheduled prompt: resume, read and reconcile before the guard.
BeginScheduled(m) ==
    /\ Take("scheduled", m) /\ Len(turns) < MaxTurns
    /\ IF reg.active = 0 /\ reg.state # "running"
       THEN Ask([Operation("scheduled", "resume") EXCEPT !.msg = m.msg], "resume", NoMsg, 0)
       ELSE UNCHANGED <<op, req>>
    /\ UNCHANGED <<turns, alive, subscribed, transport, cache, loaded, uTurn, uSteer, submitted,
                   reg, recovering, history>>

\* steer.
BeginSteer(m) ==
    /\ Take("steer", m)
    /\ op' = IF uSteer.msg = NoMsg /\ reg.active = m.turn
             THEN [Operation("steer", "ready") EXCEPT !.msg = m.msg, !.turn = m.turn] ELSE op
    /\ UNCHANGED <<server, transport, cache, loaded, uTurn, uSteer, submitted, reg, recovering, history>>

BeginRead ==
    /\ LockFree
    /\ Ask(Operation("read", "resume"), "resume", NoMsg, 0)
    /\ UNCHANGED <<turns, alive, subscribed, transport, cache, loaded, uTurn, uSteer, submitted, waiting,
                   reg, recovering, history>>

BeginReconcile ==
    /\ LockFree
    /\ queued > 0
    /\ queued' = queued - 1
    /\ Ask(Operation("reconcile", "resume"), "resume", NoMsg, 0)
    /\ UNCHANGED <<turns, alive, subscribed, transport, cache, loaded, uTurn, uSteer, submitted, waiting,
                   reg, recovery, history>>

\* resolveUncertainTurn keeps the steer and the baseline it found.
BeginResolve ==
    /\ Take("resolve", Resolution) /\ Resolution \in waiting
    /\ IF uSteer.msg # NoMsg \/ uTurn.msg # NoMsg
       THEN Ask([Operation("resolve", "read") EXCEPT !.msg = uSteer.msg, !.turn = uSteer.turn, !.base = uTurn.base],
                "read", NoMsg, 0)
       ELSE UNCHANGED <<op, req>>
    /\ UNCHANGED <<turns, alive, subscribed, transport, cache, loaded, uTurn, uSteer, submitted,
                   reg, recovering, history>>

----
(* Operations continue when what they await has settled. *)

Settled(phase) == op.phase = phase /\ op.reply # NoReply

\* uncertainTurn.applied: a browser drops the prompt it holds as uncertain.
TellApplied(published) ==
    [m \in Msgs |-> IF published /\ m \in {uTurn.msg, uSteer.msg} THEN "applied" ELSE verdict[m]]

\* What follows a read and its reconciliation: a scheduled prompt meets the
\* guard that a browser's prompt met first, the others are done.
Proceed(r, u) ==
    IF op.kind = "scheduled" /\ NoActiveTurn(r, u)
    THEN /\ op' = [Operation("start", "ready") EXCEPT !.msg = op.msg]
         /\ UNCHANGED recovery
    ELSE Release(op.kind)

Retry(view) ==
    IF op.tries + 1 = Attempts THEN Proceed(reg', uTurn')
    ELSE /\ op' = [op EXCEPT !.phase = "delay", !.reply = NoReply, !.tries = @ + 1, !.view = view]
         /\ UNCHANGED recovery

\* One turn of the loop of reconcileRuntimeSnapshot.
ReconcileRuntime(view) ==
    LET r == ReconcileSnapshot(reg, view, FALSE)
        applied == uTurn.msg # NoMsg /\ StartApplied(view, uTurn.base)
        steered == IF LiveAt(view, uSteer.turn) THEN uSteer.turn ELSE 0
    IN
    /\ cache' = view /\ loaded' = "read"
    /\ CASE uSteer.msg # NoMsg /\ Contains(view, uSteer.turn, uSteer.msg) ->
              /\ uSteer' = NoUncertainSteer
              /\ verdict' = TellApplied(TRUE)
              /\ reg' = ConfirmApplied(reg, view, steered)
              /\ UNCHANGED uTurn
              /\ Proceed(reg', uTurn')
         [] uSteer.msg # NoMsg /\ ~Contains(view, uSteer.turn, uSteer.msg) ->
              /\ UNCHANGED <<uSteer, uTurn, reg, verdict>>
              /\ Retry(view)
         [] uSteer.msg = NoMsg /\ r.outcome = "unchanged" ->
              /\ reg' = r.reg
              /\ UNCHANGED <<uSteer, uTurn, verdict>>
              /\ Retry(view)
         [] OTHER ->
              /\ reg' = IF applied /\ r.outcome = "unresolved" THEN ConfirmApplied(r.reg, view, 0) ELSE r.reg
              /\ uTurn' = IF applied THEN NoUncertainTurn ELSE uTurn
              /\ verdict' = TellApplied(r.published \/ (applied /\ r.outcome = "unresolved"))
              /\ UNCHANGED uSteer
              /\ Proceed(reg', uTurn')

\* resumeWithPreferredSettings has its answer.
Resumed ==
    /\ Settled("resume")
    /\ IF ~op.reply.ok THEN Release(op.kind) /\ UNCHANGED <<req, cache, loaded>>
       ELSE /\ cache' = Merge(op.reply.view, cache)
            /\ loaded' = IF loaded = "absent" THEN "resumed" ELSE loaded
            /\ IF op.kind = "start"
               THEN op' = [op EXCEPT !.phase = "ready", !.reply = NoReply] /\ UNCHANGED req
               ELSE Ask(op, "read", NoMsg, 0)
            /\ UNCHANGED recovery
    /\ UNCHANGED <<turns, alive, subscribed, transport, uTurn, uSteer, submitted, waiting, reg, queued, history>>

\* adapter.readSession has its answer; readSessionUnlocked, startTurn and
\* reconcileAfterReconnect go on with it, or with one more try.
ReadDone ==
    /\ Settled("read") /\ op.kind # "resolve"
    /\ LET view == IF op.tries > 0 THEN Merge(op.reply.view, op.view)
                   ELSE IF op.kind = "read" THEN Merge(op.reply.view, cache)
                   ELSE op.reply.view
           reconcile == op.tries > 0 \/ op.kind = "reconcile" \/ reg.state = "disconnected"
           conflict == op.kind = "scheduled" /\ op.tries = 0 /\ \E t \in DOMAIN view : LiveAt(view, t)
       IN CASE ~op.reply.ok \/ conflict ->
                 Release(op.kind) /\ UNCHANGED <<cache, loaded, uTurn, uSteer, reg, verdict>>
            [] op.reply.ok /\ ~conflict /\ reconcile -> ReconcileRuntime(view)
            [] OTHER ->
                 /\ IF op.kind = "read" THEN cache' = view /\ loaded' = "read"
                    ELSE UNCHANGED <<cache, loaded>>
                 /\ UNCHANGED <<uTurn, uSteer, reg, verdict>>
                 /\ Proceed(reg, uTurn)
    /\ UNCHANGED <<server, transport, submitted, waiting, queued, lateMsgs, overtaken, losses, timeouts>>

\* The pause before one more read.
DelayOver ==
    /\ op.phase = "delay"
    /\ Ask(op, "read", NoMsg, 0)
    /\ UNCHANGED <<turns, alive, subscribed, transport, cache, loaded, uTurn, uSteer, submitted, waiting,
                   reg, recovering, history>>

\* resolveUncertainTurn has its own read.  If the message is not there it awaits
\* the release of the message's attachments before it decides.
ResolveRead ==
    /\ Settled("read") /\ op.kind = "resolve"
    /\ LET view == Merge(op.reply.view, cache)
           steer == op.msg # NoMsg
           applied == IF steer THEN Contains(view, op.turn, op.msg)
                      ELSE StartApplied(view, op.base)
           steered == IF steer /\ LiveAt(view, op.turn) THEN op.turn ELSE 0
       IN IF ~op.reply.ok
          THEN Release(op.kind) /\ UNCHANGED <<cache, loaded, uTurn, uSteer, reg, verdict>>
          ELSE /\ cache' = view /\ loaded' = "read"
               /\ IF applied
                  THEN /\ IF steer THEN uSteer' = NoUncertainSteer /\ UNCHANGED uTurn
                          ELSE uTurn' = NoUncertainTurn /\ UNCHANGED uSteer
                       /\ verdict' = TellApplied(TRUE)
                       /\ reg' = ConfirmApplied(reg, view, steered)
                       /\ Release(op.kind)
                  ELSE /\ op' = [op EXCEPT !.phase = "settle", !.reply = NoReply, !.view = view,
                                           !.msg = IF steer THEN @ ELSE uTurn.msg]
                       /\ UNCHANGED <<uTurn, uSteer, reg, verdict, recovery>>
    /\ UNCHANGED <<server, transport, submitted, waiting, queued, lateMsgs, overtaken, losses, timeouts>>

\* The browser gets its prompt back: it may be sent again.
ResolveNotApplied ==
    /\ op.phase = "settle"
    /\ IF op.turn # 0 THEN uSteer' = NoUncertainSteer /\ UNCHANGED uTurn
       ELSE uTurn' = NoUncertainTurn /\ UNCHANGED uSteer
    /\ submitted' = submitted \ {op.msg}
    /\ verdict' = IF op.msg = NoMsg THEN verdict ELSE [verdict EXCEPT ![op.msg] = "notApplied"]
    /\ reg' = ConfirmNotApplied(reg, op.view, IF LiveAt(op.view, op.turn) THEN op.turn ELSE 0)
    /\ Release(op.kind)
    /\ UNCHANGED <<server, transport, cache, loaded, waiting, queued, lateMsgs, overtaken, losses, timeouts>>

\* The prompt goes out; the last Turn known now is the baseline of a start.
Send ==
    /\ op.phase = "ready"
    /\ Ask([op EXCEPT !.base = IF op.kind = "start" THEN LastOf(cache) ELSE @], "mutate", op.msg, op.turn)
    /\ UNCHANGED <<turns, alive, subscribed, transport, cache, loaded, uTurn, uSteer, submitted, waiting,
                   reg, recovering, history>>

\* startTurn or steer goes on with the response; an error means not applied.
Responded ==
    /\ Settled("mutate")
    /\ IF op.kind = "start" /\ op.reply.ok
       THEN /\ uTurn' = NoUncertainTurn
            /\ cache' = Upsert(cache, op.reply.turn, op.reply.rec)
            /\ reg' = SetActiveTurn(op.reply.turn)
       ELSE UNCHANGED <<uTurn, cache, reg>>
    /\ Release(op.kind)
    /\ UNCHANGED <<server, transport, loaded, uSteer, submitted, waiting, queued, history>>

----
(* Lines reach the web server: the response of the request under way, and *)
(* notifications, which SessionService.handleEvent and then *)
(* RuntimeRegistry.handleEvent take.  handleLine does not ask whether the *)
(* transport is still open. *)

Receive(kind) == wire # << >> /\ Head(wire).kind = kind /\ NextLine /\ wire' = Tail(wire)

HandleReply ==
    /\ Receive("reply")
    /\ op' = [op EXCEPT !.reply = Head(wire)]
    /\ UNCHANGED <<server, link, strays, cache, loaded, uTurn, uSteer, submitted, waiting, reg, recovering, history>>

HandleLate ==
    /\ Receive("late")
    /\ UNCHANGED <<server, link, strays, session, reg, recovering, history>>

HandleStatus ==
    /\ \/ Receive("active") /\ reg' = StatusActive(reg)
       \/ Receive("idle") /\ reg' = StatusIdle(reg)
    /\ UNCHANGED <<server, link, strays, session, recovering, history>>

\* Only a session with a snapshot has it updated.
Snapshot(view) == IF loaded = "absent" THEN cache ELSE view

HandleTurnStarted ==
    /\ Receive("started")
    /\ reg' = SetActiveTurn(Head(wire).turn)
    /\ uTurn' = NoUncertainTurn
    /\ verdict' = TellApplied(reg.baseline # Absent)
    /\ cache' = Snapshot(Upsert(cache, Head(wire).turn, Head(wire).rec))
    /\ UNCHANGED <<server, link, strays, op, loaded, uSteer, submitted, waiting, recovering, lateMsgs, overtaken, losses, timeouts>>

\* The Turn that startTurn will make active when it goes on.
StartedHere == IF Settled("mutate") /\ op.kind = "start" /\ op.reply.ok THEN {op.reply.turn} ELSE {}

HandleTurnCompleted ==
    /\ Receive("completed")
    /\ reg' = Finished
    /\ cache' = Snapshot(Upsert(cache, Head(wire).turn, Head(wire).rec))
    /\ overtaken' = overtaken \cup ({Head(wire).turn} \cap StartedHere)
    /\ UNCHANGED <<server, link, strays, op, loaded, uTurn, uSteer, submitted, waiting, recovering,
                   verdict, lateMsgs, losses, timeouts>>

\* upsertSnapshotItem: an item of a Turn the snapshot does not have is dropped.
HandleItem ==
    /\ Receive("item")
    /\ cache' = [t \in DOMAIN cache |->
                    IF t = Head(wire).turn
                    THEN [cache[t] EXCEPT !.msgs = @ \cup Head(wire).rec.msgs] ELSE cache[t]]
    /\ UNCHANGED <<server, link, strays, op, loaded, uTurn, uSteer, submitted, waiting, reg, recovering, history>>

\* justFinished turns idle after 20 s; markViewed does the same for failed.
FinishTimer ==
    /\ NextEvent
    /\ reg.state = "finished"
    /\ reg' = [reg EXCEPT !.state = "idle"]
    /\ UNCHANGED <<server, transport, session, recovering, history>>

----
(* The connection is lost and comes back. *)

\* The response of a request that is no longer pending.
Late(lines) == [i \in DOMAIN lines |-> IF lines[i].kind = "reply" THEN Line("late") ELSE lines[i]]
Awaiting(phase) == op.phase = phase /\ op.reply = NoReply

\* rejectAll.
RejectPending(o) == [o EXCEPT !.reply = Refused]

\* handleConnection("disconnected"), the rejection of every pending request, and
\* the continuation of a mutation whose result is now unknown.
Disconnect(to) ==
    /\ NextEvent
    /\ link' = to
    /\ recovery' = "closed"
    /\ op' = CASE Awaiting("mutate") -> NoOp
               [] Awaiting("resume") \/ Awaiting("read") -> RejectPending(op)
               [] OTHER -> op
    /\ uTurn' = IF Awaiting("mutate") /\ op.kind = "start" THEN [msg |-> op.msg, base |-> op.base] ELSE uTurn
    /\ uSteer' = IF Awaiting("mutate") /\ op.kind = "steer" THEN [msg |-> op.msg, turn |-> op.turn] ELSE uSteer
    /\ reg' = IF Awaiting("mutate")
              THEN MarkOperationUncertain(IF op.kind = "start" THEN op.base ELSE op.turn)
              ELSE Disconnected(reg)
    /\ UNCHANGED <<cache, loaded, submitted, waiting, queued>>

\* A request that was written may yet be served; its response is lost.
Orphaned(r) == IF r.kind \in {"start", "steer"} THEN [r EXCEPT !.orphan = TRUE] ELSE NoReq

\* The watchdog of a mutation: the child gets SIGTERM and talks until it dies, a
\* socket is terminated.
MutationTimeout ==
    /\ SlowServer /\ link = "up" /\ losses < MaxLosses
    /\ Awaiting("mutate")
    /\ Disconnect(IF SharedServer THEN "down" ELSE "closing")
    /\ wire' = IF SharedServer THEN << >> ELSE Late(wire)
    /\ subscribed' = (subscribed /\ ~SharedServer)
    /\ req' = Orphaned(req)
    /\ losses' = losses + 1
    /\ UNCHANGED <<turns, alive, strays, verdict, lateMsgs, overtaken, timeouts>>

SocketLost ==
    /\ SharedServer /\ link = "up" /\ losses < MaxLosses
    /\ Disconnect("down")
    /\ wire' = << >>
    /\ subscribed' = FALSE
    /\ req' = Orphaned(req)
    /\ losses' = losses + 1
    /\ UNCHANGED <<turns, alive, strays, verdict, lateMsgs, overtaken, timeouts>>

\* The child's pipes are drained before its "close" event.
TransportClosed ==
    /\ ~alive /\ wire = << >>
    /\ \/ link = "up" /\ Disconnect("down")
       \/ /\ link = "closing" /\ link' = "down"
          /\ UNCHANGED <<session, reg, recovering>>
    /\ req' = NoReq
    /\ UNCHANGED <<turns, alive, subscribed, wire, strays, history>>

\* A read gives up without harm to the connection.
ReadTimeout ==
    /\ timeouts < MaxTimeouts /\ link = "up"
    /\ Awaiting("resume") \/ Awaiting("read")
    /\ op' = [op EXCEPT !.reply = Refused]
    /\ req' = NoReq /\ wire' = Late(wire)
    /\ timeouts' = timeouts + 1
    /\ UNCHANGED <<turns, alive, subscribed, link, strays, cache, loaded, uTurn, uSteer, submitted, waiting, reg,
                   recovering, verdict, lateMsgs, overtaken, losses>>

\* A new process, or a new socket to the old one, which may not have come to the
\* orphan yet.
Reconnect ==
    /\ link = "down"
    /\ strays' = IF alive THEN strays \cup {r \in {req} : r.orphan} ELSE {}
    /\ req' = NoReq
    /\ link' = "up" /\ alive' = TRUE
    /\ recovery' = "due"
    /\ UNCHANGED <<turns, subscribed, wire, session, reg, queued, history>>

\* reconcileAfterReconnect takes the sessions that are disconnected now.
ListDisconnected ==
    /\ recovery = "due" /\ NextEvent
    /\ IF reg.state = "disconnected" THEN recovery' = "waiting" /\ queued' = queued + 1
       ELSE recovery' = "open" /\ UNCHANGED queued
    /\ UNCHANGED <<server, transport, session, reg, history>>

----
(* The App Server (external). *)

LiveTurn == \E t \in DOMAIN turns : Running(turns[t])
Notify(lines) == IF subscribed THEN lines ELSE << >>
Respond(line) == IF req.orphan THEN << >> ELSE <<line>>

\* Where the response falls among the notifications of a new Turn is open.
ServeStart ==
    /\ alive /\ req.kind = "start"
    /\ LET t == Len(turns) + 1
           fresh == [status |-> "inProgress", msgs |-> {req.msg}, late |-> FALSE]
           news == Notify(<<Line("active"), TurnLine("started", t, fresh)>>)
           answer == Respond([Reply(TRUE, t, NoTurns) EXCEPT !.rec = [fresh EXCEPT !.msgs = {}]])
       IN IF ~(subscribed \/ req.orphan)
          THEN wire' = wire \o Respond(Refused) /\ UNCHANGED turns
          ELSE /\ ~LiveTurn /\ t <= MaxTurns
               /\ turns' = Append(turns, fresh)
               /\ \E i \in 0 .. Len(news) :
                    wire' = wire \o SubSeq(news, 1, i) \o answer \o SubSeq(news, i + 1, Len(news))
    /\ req' = NoReq
    /\ UNCHANGED <<alive, subscribed, link, strays, session, reg, recovering, history>>

\* turn/steer is for the Turn in progress only.
ServeSteer ==
    /\ alive /\ req.kind = "steer"
    /\ IF LiveAt(turns, req.turn)
       THEN LET item == Notify(<<TurnLine("item", req.turn, [turns[req.turn] EXCEPT !.msgs = {req.msg}])>>)
                answer == Respond(Reply(TRUE, req.turn, NoTurns))
            IN /\ turns' = [turns EXCEPT ![req.turn].msgs = @ \cup {req.msg}]
               /\ wire' \in {wire \o item \o answer, wire \o answer \o item}
       ELSE wire' = wire \o Respond(Refused) /\ UNCHANGED turns
    /\ req' = NoReq
    /\ UNCHANGED <<alive, subscribed, link, strays, session, reg, recovering, history>>

\* The same for a stray request: nobody is left to have the response.  The bound
\* on Turns keeps room for the start under way.
StartUnderWay == op.kind \in {"start", "scheduled"} \/ req.kind = "start"

ServeStrayStart ==
    /\ alive /\ ~LiveTurn
    /\ Len(turns) + (IF StartUnderWay THEN 1 ELSE 0) < MaxTurns
    /\ \E r \in strays :
        /\ r.kind = "start"
        /\ strays' = strays \ {r}
        /\ LET t == Len(turns) + 1
               fresh == [status |-> "inProgress", msgs |-> {r.msg}, late |-> TRUE]
           IN /\ turns' = Append(turns, fresh)
              /\ wire' = wire \o Notify(<<Line("active"), TurnLine("started", t, fresh)>>)
              /\ lateMsgs' = lateMsgs \cup {r.msg}
    /\ UNCHANGED <<alive, subscribed, req, link, session, reg, recovering, verdict, overtaken, losses, timeouts>>

ServeStraySteer ==
    /\ alive
    /\ \E r \in strays :
        /\ r.kind = "steer" /\ LiveAt(turns, r.turn)
        /\ strays' = strays \ {r}
        /\ turns' = [turns EXCEPT ![r.turn].msgs = @ \cup {r.msg}]
        /\ wire' = wire \o Notify(<<TurnLine("item", r.turn, [turns[r.turn] EXCEPT !.msgs = {r.msg}])>>)
        /\ lateMsgs' = lateMsgs \cup {r.msg}
    /\ UNCHANGED <<alive, subscribed, req, link, session, reg, recovering, verdict, overtaken, losses, timeouts>>

\* thread/resume may change the thread's status, which is then announced.
ServeResume ==
    /\ alive /\ req.kind = "resume"
    /\ subscribed' = TRUE
    /\ LET status == <<Line(IF LiveTurn THEN "active" ELSE "idle")>>
           answer == <<Reply(TRUE, 0, IF Paginated THEN NoTurns ELSE turns)>>
       IN \/ wire' = wire \o answer
          \/ Announces /\ wire' \in {wire \o status \o answer, wire \o answer \o status}
    /\ req' = NoReq
    /\ UNCHANGED <<turns, alive, link, strays, session, reg, recovering, history>>

ServeRead ==
    /\ alive /\ req.kind = "read"
    /\ wire' = Append(wire, Reply(TRUE, 0, turns))
    /\ req' = NoReq
    /\ UNCHANGED <<turns, alive, subscribed, link, strays, session, reg, recovering, history>>

EndTurn ==
    /\ alive
    /\ \E t \in DOMAIN turns :
        /\ Running(turns[t])
        /\ turns' = [turns EXCEPT ![t].status = "ended"]
        /\ LET completed == TurnLine("completed", t, turns'[t])
           IN wire' \in {wire \o Notify(<<completed, Line("idle")>>),
                         wire \o Notify(<<Line("idle"), completed>>)}
    /\ UNCHANGED <<alive, subscribed, req, link, strays, session, reg, recovering, history>>

\* The process dies: history keeps its Turns, none is in progress, and output it
\* had not written is gone.
Crash ==
    /\ alive
    /\ link = "closing" \/ losses < MaxLosses
    /\ losses' = IF link = "closing" THEN losses ELSE losses + 1
    /\ alive' = FALSE /\ subscribed' = FALSE /\ req' = NoReq /\ strays' = {}
    /\ turns' = [t \in DOMAIN turns |-> [turns[t] EXCEPT !.status = "ended"]]
    /\ \E n \in 0 .. Len(wire) : wire' = SubSeq(wire, 1, n)
    /\ UNCHANGED <<link, session, reg, recovering, verdict, lateMsgs, overtaken, timeouts>>

----
Submit == (\E m \in Msgs : AcceptStart(m) \/ AcceptScheduled(m) \/ AcceptSteer(m)) \/ AcceptResolve

Begin ==
    \/ \E m \in waiting : BeginStart(m) \/ BeginScheduled(m) \/ BeginSteer(m)
    \/ BeginRead \/ BeginResolve

Continue ==
    \/ BeginReconcile \/ Resumed \/ ReadDone \/ DelayOver \/ ResolveRead \/ ResolveNotApplied
    \/ Send \/ Responded

Handle == HandleReply \/ HandleLate \/ HandleStatus \/ HandleTurnStarted \/ HandleTurnCompleted \/ HandleItem

Lose == MutationTimeout \/ SocketLost \/ ReadTimeout \/ Crash

Recover == TransportClosed \/ Reconnect \/ ListDisconnected

Serve == ServeStart \/ ServeSteer \/ ServeResume \/ ServeRead

ServeStray == ServeStrayStart \/ ServeStraySteer

Next == Submit \/ Begin \/ Continue \/ Handle \/ FinishTimer \/ Lose \/ Recover \/ Serve \/ ServeStray \/ EndTurn

Spec == Init /\ [][Next]_vars

\* The event loop runs what is ready and serves events in their order, the lock
\* serves its callers in theirs (KeyedLock), an exited process is noticed and
\* started again, and the App Server answers; nobody has to send, and a Turn may
\* go on.
FairSpec ==
    /\ Spec
    /\ WF_vars(Continue) /\ WF_vars(Handle) /\ SF_vars(BeginReconcile)
    /\ WF_vars(TransportClosed) /\ WF_vars(Reconnect) /\ SF_vars(ListDisconnected)
    /\ WF_vars(Serve)
    /\ WF_vars(Crash /\ link = "closing")

----
Lines == [kind : {"none", "reply", "late", "active", "idle", "started", "completed", "item"},
          turn : MaybeNumber, rec : Turn, ok : BOOLEAN, view : View]
MaybeMsg == Msgs \cup {NoMsg}

ServerTypeOK ==
    /\ turns \in Seq(Turn) /\ Len(turns) <= MaxTurns
    /\ alive \in BOOLEAN /\ subscribed \in BOOLEAN
    /\ req \in [kind : {"none", "start", "steer", "resume", "read"}, msg : MaybeMsg,
                turn : MaybeNumber, orphan : BOOLEAN]

TransportTypeOK ==
    /\ link \in {"up", "closing", "down"} /\ wire \in Seq(Lines)
    /\ strays \subseteq [kind : {"start", "steer"}, msg : Msgs, turn : MaybeNumber, orphan : {TRUE}]

OpTypeOK ==
    op \in [kind : {"none", "start", "scheduled", "steer", "read", "reconcile", "resolve"},
            phase : {"none", "ready", "resume", "read", "mutate", "delay", "settle"},
            reply : Lines, msg : MaybeMsg, turn : MaybeNumber, base : MaybeNumber,
            tries : Nat, view : View]

SessionTypeOK ==
    /\ cache \in View
    /\ loaded \in {"absent", "resumed", "read"}
    /\ uTurn \in [msg : MaybeMsg, base : MaybeNumber]
    /\ uSteer \in [msg : MaybeMsg, turn : MaybeNumber]
    /\ submitted \subseteq Msgs
    /\ waiting \subseteq [kind : {"start", "scheduled", "steer", "resolve"}, msg : MaybeMsg,
                          turn : MaybeNumber]

Runtime == [state : {"idle", "running", "finished", "disconnected"}, active : MaybeNumber,
            interrupted : MaybeNumber \cup {Absent}, baseline : MaybeNumber \cup {Absent},
            flag : BOOLEAN]

RecoveryTypeOK == recovery \in {"closed", "due", "waiting", "open"} /\ queued \in Nat

HistoryTypeOK ==
    /\ verdict \in [Msgs -> {"none", "applied", "notApplied"}]
    /\ lateMsgs \subseteq Msgs /\ overtaken \subseteq Numbers
    /\ losses \in Nat /\ timeouts \in Nat

TypeOK ==
    /\ ServerTypeOK /\ TransportTypeOK
    /\ OpTypeOK /\ SessionTypeOK
    /\ reg \in Runtime
    /\ RecoveryTypeOK /\ HistoryTypeOK

\* The thread's lock, assertNoActiveTurn and the disconnected state together
\* keep a second turn/start away while a Turn is in progress.  A Turn that a shared
\* App Server makes of a request from a connection long replaced is left to the App
\* Server: the service forgot it when it told the browser that it was not applied.
NoConcurrentStart ==
    req.kind = "start" => \A t \in DOMAIN turns : Running(turns[t]) => turns[t].late

\* A message is in at most one Turn of the session, whatever was lost, resolved
\* and sent again.  What a shared App Server applies of a request from a replaced
\* connection is left to its deduplication (docs/V1_ACCEPTANCE.md:44).
AtMostOnce ==
    \A m \in Msgs \ lateMsgs : \A s, t \in DOMAIN turns : m \in turns[s].msgs /\ m \in turns[t].msgs => s = t

\* A browser that is told its prompt was not applied, and gets it back to send it
\* again, is told the truth, now and as long as the App Server serves no request
\* from a connection that was replaced: a shared one may still come to it.
NotAppliedIsTrue ==
    \A m \in Msgs \ lateMsgs : verdict[m] = "notApplied" => \A t \in DOMAIN turns : m \notin turns[t].msgs

\* A browser that is told its prompt was applied, and drops it, is told the truth.
AppliedIsTrue ==
    \A m \in Msgs : verdict[m] = "applied" => \E t \in DOMAIN turns : m \in turns[t].msgs

\* Nothing is under way: connection reconciled, no operation, no line to come.
Quiet == link = "up" /\ alive /\ recovery = "open" /\ LockFree /\ wire = << >> /\ queued = 0

\* At rest the runtime shows a Turn as running only while it is: no Turn of a
\* lost process goes on, none that ended stays active, except one whose end came in
\* one chunk with the response to its start, which startTurn then makes active.
QuiescentTruth ==
    Quiet /\ ~LiveTurn => (reg.state # "running" /\ reg.active = 0) \/ reg.active \in overtaken

\* A thread whose start or steer has an unknown result keeps its browsers and the
\* server from new prompts: it stays disconnected until the result is settled.
StaysDisconnected == Quiet /\ (uTurn.msg # NoMsg \/ uSteer.msg # NoMsg) => reg.state = "disconnected"

\* While a start or a steer is refused because the result of an earlier one is
\* unknown, the runtime carries the flag on which browsers offer to resolve it.
BlockedIsOffered == Quiet /\ (uTurn.msg # NoMsg \/ uSteer.msg # NoMsg) => reg.flag

\* The lock of the thread is always released.
LockReleased == [](~LockFree => <>LockFree)

\* After a loss the server accepts prompts again: no operation that waits for a
\* lost answer keeps the reconciliation, and with it the gate, from finishing.
GateReopens == []<>(recovery = "open")

\* Neither the lock of a thread nor the gate for mutations is held for ever.
NothingIsHeldForEver == LockReleased /\ GateReopens

\* A Turn that ended does not stay active in the runtime, except where startTurn
\* goes on after it has ended.
EndedTurnIsShown ==
    \A t \in Numbers : (t \in DOMAIN turns /\ ~LiveAt(turns, t)) ~> (reg.active # t \/ t \in overtaken)

----
(* The inductive strengthening of AtMostOnce and NotAppliedIsTrue: where a *)
(* message is, and that it is nowhere else. *)

Sends(r) == r.kind \in {"start", "steer"}

IsWaiting(m) == \E w \in waiting : w.kind # "resolve" /\ w.msg = m
IsHeld(m) == op.kind \in {"start", "scheduled", "steer"} /\ op.phase # "mutate" /\ op.msg = m
IsSent(m) == op.phase = "mutate" /\ op.msg = m
IsAsked(m) == Sends(req) /\ req.msg = m
IsUncertain(m) == m \in {uTurn.msg, uSteer.msg}
IsGivenBack(m) == op.phase = "settle" /\ op.msg = m
TimelyMsgs(t) == turns[t].msgs \ lateMsgs
IsApplied(m) == \E t \in DOMAIN turns : m \in TimelyMsgs(t)

\* A message nobody has sent, or that was given back, is nowhere.
UnsentIsNowhere ==
    \A m \in Msgs \ submitted :
        ~(IsWaiting(m) \/ IsHeld(m) \/ IsSent(m) \/ IsAsked(m) \/ IsUncertain(m) \/ IsGivenBack(m) \/ IsApplied(m))

\* A message goes from a waiting call to the lock's holder, to the App Server and,
\* if its result is lost, to what is uncertain.
OneCarrier ==
    /\ \A v, w \in waiting : v.kind # "resolve" /\ w.kind # "resolve" /\ v.msg = w.msg => v = w
    /\ \A m \in Msgs :
        /\ IsWaiting(m) => ~(IsHeld(m) \/ IsSent(m) \/ IsAsked(m) \/ IsUncertain(m) \/ IsGivenBack(m) \/ IsApplied(m))
        /\ IsHeld(m) => ~(IsAsked(m) \/ IsUncertain(m) \/ IsApplied(m))
        /\ IsSent(m) => ~IsUncertain(m)
        /\ IsAsked(m) => ~(IsGivenBack(m) \/ IsApplied(m))
        /\ IsGivenBack(m) => ~IsApplied(m)
        /\ ~(uTurn.msg = m /\ uSteer.msg = m)

\* What was asked is what its sender, and later the uncertain result, stands for.
AskedAsSent ==
    Sends(req) =>
        /\ IsSent(req.msg) => req.kind = op.kind /\ req.turn = op.turn
        /\ uTurn.msg = req.msg => req.kind = "start"
        /\ uSteer.msg = req.msg => req.kind = "steer" /\ req.turn = uSteer.turn

\* A start makes a Turn later than its baseline, a steer adds to the Turn it names.
AppliedWhereSent ==
    \A t \in DOMAIN turns : \A m \in TimelyMsgs(t) :
        /\ IsSent(m) /\ op.kind = "start" => t > op.base
        /\ IsSent(m) /\ op.kind = "steer" => t = op.turn
        /\ uTurn.msg = m => t > uTurn.base
        /\ uSteer.msg = m => t = uSteer.turn

\* Snapshots, lines and baselines name Turns that there are.
Exist(numbers) == \A t \in numbers : t <= Len(turns)
Known(line) == line.turn <= Len(turns) /\ Exist(DOMAIN line.view)
CacheKnown == Exist(DOMAIN cache)
HolderKnown == Exist(DOMAIN op.view) /\ op.base <= Len(turns) /\ Known(op.reply)
BaselineKnown == uTurn.base <= Len(turns)
WireKnown == \A i \in DOMAIN wire : Known(wire[i])
KnownTurns == CacheKnown /\ HolderKnown /\ BaselineKnown /\ WireKnown

SteersNameTurns ==
    /\ \A w \in waiting : w.kind = "steer" => w.turn # 0
    /\ op.kind = "steer" => op.turn # 0
    /\ uSteer.msg = NoMsg <=> uSteer.turn = 0

Shows(view) == \A t \in DOMAIN turns : \A m \in TimelyMsgs(t) : Contains(view, t, m)

\* A resolution decides on what it found uncertain, by a snapshot no request can
\* make out of date.
ResolvesWhatItFound ==
    /\ op.kind = "resolve" <=> op.phase = "settle" \/ (op.kind = "resolve" /\ op.phase = "read")
    /\ op.kind = "resolve" /\ op.phase = "read" =>
        /\ op.msg = uSteer.msg /\ op.turn = uSteer.turn
        /\ uTurn.msg # NoMsg => uTurn.base = op.base
    /\ op.phase = "settle" =>
        IF op.turn # 0 THEN uSteer.msg = op.msg
                       ELSE uSteer.msg = NoMsg /\ uTurn.msg \in {op.msg, NoMsg}

ResolvesByTheTruth ==
    op.kind = "resolve" =>
        /\ (op.reply = NoReply \/ op.reply.ok) => ~Sends(req)
        /\ op.phase = "read" =>
            /\ op.reply # NoReply /\ op.reply.ok => Shows(op.reply.view)
            /\ \A i \in DOMAIN wire : wire[i].kind = "reply" /\ wire[i].ok => Shows(wire[i].view)

GivenBackIsUnsent == \A m \in Msgs : verdict[m] = "notApplied" => m \notin submitted

Whereabouts ==
    /\ UnsentIsNowhere /\ OneCarrier /\ AskedAsSent /\ AppliedWhereSent
    /\ SteersNameTurns /\ ResolvesWhatItFound /\ GivenBackIsUnsent
    /\ AtMostOnce

MessageInvariant == Whereabouts /\ KnownTurns /\ ResolvesByTheTruth

----
(* The same for NoConcurrentStart: whatever waits in the wire, a Turn that *)
(* is in progress, or whose start is still to be handled, is guarded. *)

Starting == op.kind = "start" /\ op.phase = "mutate"
IsBusy(r) == r.state \in {"disconnected", "running"} \/ r.active # 0

IsNews(line) == line.kind = "started" /\ ~line.rec.late
IsLive(view, t) == LiveAt(view, t) /\ ~view[t].late
TimelyLive == \E t \in DOMAIN turns : IsLive(turns, t)
Clears(line) == line.kind \in {"idle", "completed"}
NoNews == \A i \in DOMAIN wire : ~IsNews(wire[i])
Unclearing(first, last) == \A k \in first .. last : ~Clears(wire[k])

\* Lines before number e say nothing yet of a Turn that started.
Unseen(e) == \/ e \in DOMAIN wire /\ IsNews(wire[e])
             \/ e = Len(wire) + 1 /\ TimelyLive /\ NoNews

\* Until line e is handled, assertNoActiveTurn refuses: by the runtime, by the
\* uncertain start, or because the start's own response comes first.
GuardedByRuntime(e) == IsBusy(reg) /\ Unclearing(1, e - 1)
GuardedAsUncertain(e) == uTurn.msg # NoMsg /\ (link # "closing" => Unclearing(1, e - 1))
GuardedByResponse(e) ==
    /\ Starting
    /\ \/ op.reply = NoReply /\ \A k \in 1 .. e - 1 : wire[k].kind # "reply"
       \/ op.reply = NoReply /\ \E r \in 1 .. e - 1 :
                                    wire[r].kind = "reply" /\ wire[r].ok /\ Unclearing(r + 1, e - 1)
       \/ op.reply # NoReply /\ op.reply.ok /\ Unclearing(1, e - 1)
StartsAreGuarded ==
    \A e \in 1 .. Len(wire) + 1 :
        Unseen(e) => GuardedByRuntime(e) \/ GuardedAsUncertain(e) \/ GuardedByResponse(e)

\* One Turn is in progress, the last; one line tells of a start, and none after
\* it of the Turn's end as long as that goes on.
OneAtATime ==
    /\ \A t \in DOMAIN turns : Running(turns[t]) => t = Len(turns)
    /\ \A i, j \in DOMAIN wire : IsNews(wire[i]) /\ IsNews(wire[j]) => i = j
    /\ TimelyLive => \A i, k \in DOMAIN wire : IsNews(wire[i]) /\ i < k => ~Clears(wire[k])

\* Past the guard nothing runs and nothing is still to be told, until the request
\* is served.
NothingRuns ==
    /\ (op.kind = "start" /\ op.phase # "mutate") \/ req.kind = "start" => ~TimelyLive /\ NoNews
    /\ op.kind = "start" => uTurn.msg = NoMsg

\* A response of a read came after all that was told of a start, and shows a Turn
\* that is still in progress.
SeesLive(view) == TimelyLive => LiveAt(view, Len(turns))
ReadsAreFresh ==
    /\ op.phase = "read" => \A r \in DOMAIN wire : wire[r].kind = "reply" =>
          /\ \A k \in DOMAIN wire : r < k => ~IsNews(wire[k])
          /\ SeesLive(wire[r].view)
    /\ op.phase = "read" /\ op.reply # NoReply /\ op.reply.ok =>
          NoNews /\ link # "closing" /\ SeesLive(op.reply.view)
    /\ op.phase = "settle" => NoNews /\ link # "closing" /\ SeesLive(op.view)

\* A request without an asker is one of a lost connection, and a start among them
\* is uncertain.
OrphansAreUncertain ==
    req.orphan =>
        /\ link # "up" /\ op.phase # "settle" /\ (op.reply # NoReply => ~op.reply.ok)
        /\ req.kind = "start" => uTurn.msg # NoMsg

LostIsSilent ==
    /\ link # "up" => op.phase \notin {"resume", "read", "mutate"} \/ op.reply # NoReply
    /\ link = "down" => wire = << >> /\ ~subscribed
    /\ ~alive => ~subscribed

StartInvariant ==
    /\ StartsAreGuarded /\ OneAtATime /\ NothingRuns
    /\ ReadsAreFresh /\ OrphansAreUncertain /\ LostIsSilent

----
\* Client user messages differ in their identity only (SYMMETRY of the runs).
Interchangeable == Permutations(Msgs)

====
