---- MODULE TurnResultsProofs ----
(*
Proofs about what TurnLifecycle promises in one kind of environment
only.  StaysDisconnected, BlockedIsOffered and AppliedIsTrue: each of
them TLC finds violated in another one (with Announces, SharedServer
and ColdSend); one invariant serves all three, so that each theorem
assumes the whole of that environment.  QuiescentTruth has its own
environment, OrderlyChild, and its own invariant.

The lemmas ...Rests concern an operation whose result is unknown, those
...Learns what the snapshots show of the App Server's Turns, those
...AtRest what the runtime shows of a Turn that has ended.
*)
EXTENDS TurnLifecycleProofs

\* The App Server is a child that ends with its connection, answers mutations in
\* time and announces nothing when a thread is resumed.
QuietChild == ~SharedServer /\ ~SlowServer /\ ~Announces

\* Whoever prompts has read the session, or its history comes with the resume.
HistoryKnown == ~ColdSend \/ ~Paginated

----
(* While the result of an operation is unknown, nothing else happens to *)
(* the session. *)

Pending == uTurn.msg # NoMsg \/ uSteer.msg # NoMsg

\* A connection ends after its server, and after all that was written.
CleanEnds ==
  /\ link # "closing" /\ ~req.orphan
  /\ link = "down" => ~alive
  /\ ~alive => ~LiveTurn

\* Runtime r is that of an operation on whose result the browsers decide; a start
\* is compared with the baseline the service has of it.
ShowsPending(r) == r.state = "disconnected" /\ r.active = 0 /\ r.flag /\ r.interrupted = Unknown /\ r.baseline # Absent

PendingIsShown ==
  Pending =>
      /\ uTurn.msg = NoMsg \/ uSteer.msg = NoMsg
      /\ ShowsPending(reg)
      /\ uTurn.msg # NoMsg => reg.baseline = uTurn.base

PendingIsQuiet ==
  Pending =>
      /\ ~LiveTurn /\ ~Sends(req) /\ op.kind \notin {"start", "steer"}
      /\ \A l \in OnWire(wire) : l.kind \in {"reply", "late"}

SettlesItsSteer == op.phase = "settle" => op.turn = uSteer.turn

PendingInvariant == CleanEnds /\ PendingIsShown /\ PendingIsQuiet /\ SettlesItsSteer

\* What is known of a state before a step: the invariants proved for every
\* environment.
Context == TypeInv /\ TypeInv' /\ MessageInvariant /\ StartInvariant /\ SharedInv

LEMMA LivesOn ==
  ASSUME UNCHANGED turns
  PROVE  LiveTurn' = LiveTurn
BY DEF LiveTurn

LEMMA PendingParts ==
  ASSUME Context
  PROVE  /\ uTurn.msg \in MaybeMsg /\ uSteer.msg \in MaybeMsg /\ uSteer.turn \in MaybeNumber
         /\ uTurn.base \in MaybeNumber
         /\ req.kind # "none" => (req.orphan \/ req.kind = Asked(op))
         /\ uSteer.msg = NoMsg <=> uSteer.turn = 0
BY DEF Context, TypeInv, TypeOK, SessionTypeOK, RequestAwaited, MessageInvariant, Whereabouts, SteersNameTurns

\* A step after which no more is pending, or nothing else happened.
LEMMA QuietRests ==
  ASSUME PendingIsQuiet,
         Pending' =>
            /\ Pending
            /\ LiveTurn' => LiveTurn
            /\ Sends(req') => Sends(req)
            /\ op'.kind \in {"start", "steer"} => op.kind \in {"start", "steer"}
            /\ \A l \in OnWire(wire') : l \in OnWire(wire) \/ l.kind \in {"reply", "late"}
  PROVE  PendingIsQuiet'
<1> SUFFICES ASSUME Pending'
             PROVE  /\ ~LiveTurn' /\ ~Sends(req') /\ op'.kind \notin {"start", "steer"}
                    /\ \A l \in OnWire(wire') : l.kind \in {"reply", "late"}
  BY DEF PendingIsQuiet, Sends, OnWire
<1>1. /\ ~LiveTurn /\ ~Sends(req) /\ op.kind \notin {"start", "steer"}
      /\ \A l \in OnWire(wire) : l.kind \in {"reply", "late"}
  BY DEF PendingIsQuiet
<1> QED BY <1>1

\* A step that does not concern what is pending.
LEMMA StepRests ==
  ASSUME PendingInvariant, UNCHANGED <<link, alive>>, req'.orphan => req.orphan,
         ~alive /\ LiveTurn' => LiveTurn,
         UNCHANGED uTurn \/ uTurn'.msg = NoMsg, UNCHANGED uSteer,
         Pending' =>
            /\ LiveTurn' => LiveTurn
            /\ Sends(req') => Sends(req)
            /\ op'.kind \in {"start", "steer"} => op.kind \in {"start", "steer"}
            /\ \A l \in OnWire(wire') : l \in OnWire(wire) \/ l.kind \in {"reply", "late"}
            /\ UNCHANGED reg,
         op'.phase = "settle" => op.phase = "settle" /\ op'.turn = op.turn
  PROVE  PendingInvariant'
<1>1. Pending' => Pending BY DEF Pending
<1>2. CleanEnds' BY DEF PendingInvariant, CleanEnds
<1>3. PendingIsShown' BY <1>1 DEF PendingInvariant, PendingIsShown, Pending, ShowsPending
<1>4. PendingIsQuiet' BY <1>1, QuietRests DEF PendingInvariant
<1>5. SettlesItsSteer' BY DEF PendingInvariant, SettlesItsSteer
<1> QED BY <1>2, <1>3, <1>4, <1>5 DEF PendingInvariant

LEMMA QuietStepsRest ==
  ASSUME Context, PendingInvariant,
         \/ \E m \in Msgs : AcceptStart(m) \/ AcceptScheduled(m) \/ AcceptSteer(m)
         \/ AcceptResolve
         \/ ListDisconnected
         \/ FinishTimer
  PROVE  PendingInvariant'
<1>1. UNCHANGED <<turns, alive, req, link, wire, op, uTurn, uSteer>>
  BY DEF AcceptStart, AcceptScheduled, AcceptSteer, Accept, AcceptResolve, ListDisconnected, FinishTimer,
    server, transport, session
<1>2. Pending => UNCHANGED reg
  BY DEF AcceptStart, AcceptScheduled, AcceptSteer, Accept, AcceptResolve, ListDisconnected, FinishTimer,
    PendingInvariant, PendingIsShown, ShowsPending
<1>3. Pending' = Pending /\ LiveTurn' = LiveTurn BY <1>1, LivesOn DEF Pending
<1> QED BY <1>1, <1>2, <1>3, StepRests

----
(* Operations take the lock. *)

\* An operation asks for the session, or goes on as it may.
LEMMA HolderRests ==
  ASSUME Context, PendingInvariant, UNCHANGED <<turns, alive, link, wire, reg, uTurn, uSteer>>,
         op'.kind \in {"start", "steer"} /\ op.kind \notin {"start", "steer"} => ~Pending,
         req'.orphan => req' = req,
         Sends(req') => Sends(req) \/ op.kind \in {"start", "steer"},
         op'.phase = "settle" => op.phase = "settle" /\ op'.turn = op.turn
  PROVE  PendingInvariant'
<1>1. Pending' = Pending /\ LiveTurn' = LiveTurn BY LivesOn DEF Pending
<1>2. Pending => op.kind \notin {"start", "steer"} BY DEF PendingInvariant, PendingIsQuiet
<1> QED BY <1>1, <1>2, StepRests

LEMMA AskRests ==
  ASSUME Context, PendingInvariant, UNCHANGED <<turns, alive, link, wire, reg, uTurn, uSteer>>,
         NEW o \in Operations, NEW phase \in Awaits, NEW m, NEW t, Ask(o, phase, m, t),
         o.kind \in {"start", "steer"} /\ op.kind \notin {"start", "steer"} => ~Pending,
         phase = "mutate" => op.kind \in {"start", "steer"}
  PROVE  PendingInvariant'
<1>1. op'.kind = o.kind /\ op'.phase = phase /\ phase # "settle" BY AskMeans DEF Awaits
<1>2. req'.orphan => req' = req BY AskOrphan
<1>3. Sends(req') => Sends(req) \/ op.kind \in {"start", "steer"}
  <2>1. req'.kind = (IF phase = "mutate" THEN o.kind ELSE phase) \/ req' = req BY AskMeans
  <2> QED BY <2>1 DEF Awaits, Sends
<1> QED BY <1>1, <1>2, <1>3, HolderRests

LEMMA RefusesPending ==
  ASSUME PendingInvariant, Pending
  PROVE  ~NoActiveTurn(reg, uTurn) /\ reg.active = 0
BY DEF PendingInvariant, PendingIsShown, ShowsPending, NoActiveTurn

LEMMA BeginStartRests ==
  ASSUME Context, PendingInvariant, NEW m \in waiting, BeginStart(m) \/ BeginScheduled(m)
  PROVE  PendingInvariant'
<1>1. /\ op.kind = "none" /\ op.phase = "none"
      /\ UNCHANGED <<turns, alive, link, wire, reg, uTurn, uSteer>>
  BY DEF BeginStart, BeginScheduled, Take, LockFree, transport, Context, TypeInv, MessagesInFlight
<1>2. m.kind \in {"start", "scheduled"} => m.msg \in MaybeMsg
  BY Constants DEF Context, TypeInv, MessagesInFlight
<1>3. CASE UNCHANGED <<op, req>> BY <1>1, <1>3, HolderRests
<1>4. ASSUME NEW kind \in {"start", "scheduled"}, m.kind = kind,
             Ask([Operation(kind, "resume") EXCEPT !.msg = m.msg], "resume", NoMsg, 0),
             kind = "start" => NoActiveTurn(reg, uTurn)
      PROVE  PendingInvariant'
  <2> DEFINE o == [Operation(kind, "resume") EXCEPT !.msg = m.msg]
  <2>1. o \in Operations /\ o.kind = kind BY <1>2, <1>4, OperationTypes DEF Operations
  <2> HIDE DEF o
  <2>2. Ask(o, "resume", NoMsg, 0) /\ "resume" \in Awaits /\ "resume" # "mutate" BY <1>4 DEF o, Awaits
  <2>3. o.kind \in {"start", "steer"} => ~Pending BY <1>4, <2>1, RefusesPending
  <2> QED BY <1>1, <2>1, <2>2, <2>3, AskRests
<1>5. CASE /\ op' = [Operation("start", "ready") EXCEPT !.msg = m.msg] /\ UNCHANGED req
           /\ NoActiveTurn(reg, uTurn)
  <2>1. op'.phase = "ready" BY <1>5 DEF Operation, NoOp
  <2> QED BY <1>1, <1>5, <2>1, RefusesPending, HolderRests
<1>6. CASE BeginStart(m) BY <1>3, <1>4, <1>5, <1>6 DEF BeginStart, Take
<1>7. CASE BeginScheduled(m) BY <1>3, <1>4, <1>7 DEF BeginScheduled, Take
<1> QED BY <1>6, <1>7

LEMMA BeginSteerRests ==
  ASSUME Context, PendingInvariant, NEW m \in waiting, BeginSteer(m)
  PROVE  PendingInvariant'
<1>1. UNCHANGED <<turns, alive, link, wire, reg, uTurn, uSteer, req>> BY DEF BeginSteer, transport, server
<1>2. m.turn # 0 BY DEF BeginSteer, Take, Context, MessageInvariant, Whereabouts, SteersNameTurns
<1>3. CASE UNCHANGED op BY <1>1, <1>3, HolderRests
<1>4. CASE reg.active = m.turn /\ op' = [Operation("steer", "ready") EXCEPT !.msg = m.msg, !.turn = m.turn]
  <2>1. op'.phase = "ready" BY <1>4 DEF Operation, NoOp
  <2> QED BY <1>1, <1>2, <1>4, <2>1, RefusesPending, HolderRests
<1> QED BY <1>3, <1>4 DEF BeginSteer

LEMMA BeginReadRests ==
  ASSUME Context, PendingInvariant, BeginRead \/ BeginReconcile
  PROVE  PendingInvariant'
<1>1. /\ UNCHANGED <<turns, alive, link, wire, reg, uTurn, uSteer>>
      /\ \E kind \in {"read", "reconcile"} : Ask(Operation(kind, "resume"), "resume", NoMsg, 0)
  BY DEF BeginRead, BeginReconcile, transport
<1>2. PICK kind \in {"read", "reconcile"} : Ask(Operation(kind, "resume"), "resume", NoMsg, 0) BY <1>1
<1>3. Operation(kind, "resume") \in Operations /\ Operation(kind, "resume").kind \notin {"start", "steer"}
  BY <1>2, OperationTypes
<1> QED BY <1>1, <1>2, <1>3, AskRests DEF Awaits

LEMMA BeginResolveRests ==
  ASSUME Context, PendingInvariant, BeginResolve
  PROVE  PendingInvariant'
<1> DEFINE o == [Operation("resolve", "read") EXCEPT !.msg = uSteer.msg, !.turn = uSteer.turn, !.base = uTurn.base]
<1>1. /\ UNCHANGED <<turns, alive, link, wire, reg, uTurn, uSteer>>
      /\ UNCHANGED <<op, req>> \/ Ask(o, "read", NoMsg, 0)
  BY DEF BeginResolve, transport
<1>2. o \in Operations /\ o.kind = "resolve" BY OperationTypes, PendingParts DEF Operations
<1> HIDE DEF o
<1>3. CASE UNCHANGED <<op, req>> BY <1>1, <1>3, HolderRests
<1>4. CASE Ask(o, "read", NoMsg, 0) BY <1>1, <1>2, <1>4, AskRests DEF Awaits
<1> QED BY <1>1, <1>3, <1>4

----
(* Operations continue. *)

LEMMA ResumedRests ==
  ASSUME Context, PendingInvariant, Resumed
  PROVE  PendingInvariant'
<1>1. /\ UNCHANGED <<turns, alive, link, wire, reg, uTurn, uSteer>>
      /\ op.phase = "resume" /\ op \in Operations
  BY TypedParts DEF Resumed, Settled, transport, Context
<1>2. CASE Release(op.kind) /\ UNCHANGED req BY <1>1, <1>2, NoOpMeans, HolderRests DEF Release
<1>3. CASE op.kind = "start" /\ op' = [op EXCEPT !.phase = "ready", !.reply = NoReply] /\ UNCHANGED req
  <2>1. op'.kind = op.kind /\ op'.phase = "ready" BY <1>1, <1>3 DEF Operations
  <2> QED BY <1>1, <1>3, <2>1, HolderRests
<1>4. CASE Ask(op, "read", NoMsg, 0) BY <1>1, <1>4, AskRests DEF Awaits
<1> QED BY <1>2, <1>3, <1>4 DEF Resumed

LEMMA DelayOverRests ==
  ASSUME Context, PendingInvariant, DelayOver
  PROVE  PendingInvariant'
<1>1. /\ UNCHANGED <<turns, alive, link, wire, reg, uTurn, uSteer>>
      /\ Ask(op, "read", NoMsg, 0) /\ op \in Operations
  BY TypedParts DEF DelayOver, transport, Context
<1> QED BY <1>1, AskRests DEF Awaits

LEMMA SendRests ==
  ASSUME Context, PendingInvariant, Send
  PROVE  PendingInvariant'
<1> DEFINE o == [op EXCEPT !.base = IF op.kind = "start" THEN LastOf(cache) ELSE @]
<1>1. /\ UNCHANGED <<turns, alive, link, wire, reg, uTurn, uSteer>>
      /\ Ask(o, "mutate", op.msg, op.turn) /\ op \in Operations /\ cache \in View
      /\ op.kind \in {"start", "steer"}
  BY TypedParts DEF Send, transport, Context, TypeInv, MessagesInFlight
<1>2. o \in Operations /\ o.kind = op.kind BY <1>1, LastOfType DEF Operations
<1> HIDE DEF o
<1> QED BY <1>1, <1>2, AskRests DEF Awaits

LEMMA RespondedRests ==
  ASSUME Context, PendingInvariant, Responded
  PROVE  PendingInvariant'
<1>1. /\ UNCHANGED <<turns, alive, req, link, wire, uSteer>> /\ op' = NoOp
      /\ op.kind \in {"start", "steer"}
      /\ uTurn' = NoUncertainTurn \/ UNCHANGED <<uTurn, reg>>
  BY DEF Responded, Release, Settled, server, transport, Context, TypeInv, MessagesInFlight
<1>2. ~Pending BY <1>1 DEF PendingInvariant, PendingIsQuiet
<1>3. ~Pending' BY <1>1, <1>2, NoOpMeans DEF Pending
<1>4. LiveTurn' = LiveTurn BY <1>1, LivesOn
<1> QED BY <1>1, <1>3, <1>4, NoOpMeans, StepRests

\* What the registry makes of a snapshot while it compares with a baseline.
LEMMA ReconcilePending ==
  ASSUME NEW r \in Runtime, ShowsPending(r), NEW view \in View
  PROVE  LET next == ReconcileSnapshot(r, view, FALSE)
         IN  /\ next.outcome = "unchanged" <=> LastOf(view) \in {0, r.baseline}
             /\ next.outcome = "unchanged" => ShowsPending(next.reg) /\ next.reg.baseline = r.baseline
             /\ next.published => LastOf(view) \notin {0, r.baseline}
<1> DEFINE last == LastOf(view)
           uncertain == r.interrupted = Unknown /\ r.baseline # Absent
           unchanged == uncertain /\ last \in {0, r.baseline}
           unsettled == r.interrupted > 0 /\ ~(r.interrupted \in DOMAIN view /\ ~LiveAt(view, r.interrupted))
           unresolved == \/ last = 0 /\ ~(unchanged /\ FALSE)
                         \/ LiveAt(view, last)
                         \/ unsettled
                         \/ unchanged /\ ~FALSE
           next == ReconcileSnapshot(r, view, FALSE)
<1>1. uncertain BY DEF ShowsPending
<1>2. unchanged <=> last \in {0, r.baseline} BY <1>1
<1>3. unchanged => unresolved OBVIOUS
<1>4. /\ next.published = (~unresolved /\ uncertain /\ ~unchanged)
      /\ next.outcome = (CASE ~unresolved -> "reconciled"
                           [] unresolved /\ unchanged /\ ~FALSE -> "unchanged"
                           [] OTHER -> "unresolved")
      /\ unresolved => next.reg = [r EXCEPT !.state = "disconnected", !.active = 0, !.flag = uncertain]
  BY DEF ReconcileSnapshot
<1>5. unresolved => ShowsPending(next.reg) /\ next.reg.baseline = r.baseline
  BY <1>1, <1>4 DEF ShowsPending, Runtime
<1> HIDE DEF unresolved, unchanged, next, last
<1>6. next.outcome = "unchanged" <=> unchanged BY <1>3, <1>4
<1>7. next.published => ~unchanged BY <1>4
<1>8. /\ next.outcome = "unchanged" <=> last \in {0, r.baseline}
      /\ next.outcome = "unchanged" => ShowsPending(next.reg) /\ next.reg.baseline = r.baseline
      /\ next.published => last \notin {0, r.baseline}
  BY <1>2, <1>3, <1>5, <1>6, <1>7
<1> QED BY <1>8 DEF next, last

\* An operation that has its answer settles what is pending, or leaves it.
LEMMA DecisionRests ==
  ASSUME Context, PendingInvariant, PendingIsShown', UNCHANGED <<turns, alive, link, wire, req>>,
         uTurn' \in {uTurn, NoUncertainTurn}, uSteer' \in {uSteer, NoUncertainSteer},
         op'.kind \in {"start", "steer"} /\ op.kind \notin {"start", "steer"} => ~Pending',
         SettlesItsSteer'
  PROVE  PendingInvariant'
<1>1. (Pending' => Pending) /\ LiveTurn' = LiveTurn BY LivesOn, NoOpMeans DEF Pending
<1>2. CleanEnds' BY <1>1 DEF PendingInvariant, CleanEnds
<1>3. PendingIsQuiet' BY <1>1, QuietRests DEF PendingInvariant
<1> QED BY <1>2, <1>3 DEF PendingInvariant

LEMMA ProceedRests ==
  ASSUME Context, PendingInvariant, PendingIsShown', UNCHANGED <<turns, alive, link, wire, req>>,
         uTurn' \in {uTurn, NoUncertainTurn}, uSteer' \in {uSteer, NoUncertainSteer},
         \/ Proceed(reg', uTurn')
         \/ Release(op.kind)
         \/ op'.phase # "settle" /\ op'.kind = op.kind
  PROVE  PendingInvariant'
<1>1. ASSUME op' = [Operation("start", "ready") EXCEPT !.msg = op.msg], NoActiveTurn(reg', uTurn')
      PROVE  op'.phase # "settle" /\ ~Pending'
  <2>1. op'.phase = "ready" BY <1>1 DEF Operation, NoOp
  <2>2. Pending' => ShowsPending(reg') BY DEF PendingIsShown, ShowsPending
  <2> QED BY <1>1, <2>1, <2>2 DEF NoActiveTurn, ShowsPending
<1>2. op' = NoOp => op'.phase # "settle" /\ op'.kind \notin {"start", "steer"} BY NoOpMeans
<1> QED BY <1>1, <1>2, DecisionRests DEF Proceed, Release, SettlesItsSteer

LEMMA RetryRests ==
  ASSUME Context, NEW view \in View, Retry(view)
  PROVE  Proceed(reg', uTurn') \/ (op'.phase # "settle" /\ op'.kind = op.kind)
<1>1. op \in Operations BY TypedParts DEF Context
<1> DEFINE o == [op EXCEPT !.phase = "delay", !.reply = NoReply, !.tries = op.tries + 1, !.view = view]
<1>2. o.phase = "delay" /\ o.kind = op.kind BY <1>1, DelayFields
<1> HIDE DEF o
<1>3. Proceed(reg', uTurn') \/ op' = o BY DEF Retry, o
<1> QED BY <1>2, <1>3

LEMMA ReconcileRuntimeRests ==
  ASSUME Context, PendingInvariant, NEW view \in View, ReconcileRuntime(view),
         UNCHANGED <<turns, alive, link, wire, req>>
  PROVE  PendingInvariant'
<1> DEFINE r == ReconcileSnapshot(reg, view, FALSE)
           applied == uTurn.msg # NoMsg /\ StartApplied(view, uTurn.base)
<1>1. reg \in Runtime BY TypedParts DEF Context
<1>2. /\ uTurn' \in {uTurn, NoUncertainTurn} /\ uSteer' \in {uSteer, NoUncertainSteer}
      /\ Proceed(reg', uTurn') \/ Retry(view)
  BY DEF ReconcileRuntime
<1>3. PendingIsShown'
  <2> SUFFICES ASSUME Pending'
               PROVE  /\ uTurn'.msg = NoMsg \/ uSteer'.msg = NoMsg
                      /\ ShowsPending(reg')
                      /\ uTurn'.msg # NoMsg => reg'.baseline = uTurn'.base
    BY DEF PendingIsShown, ShowsPending
  <2>1. /\ uTurn.msg = NoMsg \/ uSteer.msg = NoMsg
        /\ ShowsPending(reg)
        /\ uTurn.msg # NoMsg => reg.baseline = uTurn.base
    BY <1>2, NoOpMeans DEF Pending, PendingInvariant, PendingIsShown
  <2>2. /\ r.outcome = "unchanged" <=> LastOf(view) \in {0, reg.baseline}
        /\ r.outcome = "unchanged" => ShowsPending(r.reg) /\ r.reg.baseline = reg.baseline
    BY <1>1, <2>1, ReconcilePending
  <2>3. CASE uSteer.msg # NoMsg
    <3>1. uSteer' = NoUncertainSteer /\ UNCHANGED uTurn => ~Pending' BY <2>1, <2>3, NoOpMeans DEF Pending
    <3>2. UNCHANGED <<uTurn, uSteer, reg>> BY <2>3, <3>1 DEF ReconcileRuntime
    <3> QED BY <2>1, <3>2
  <2>4. CASE uSteer.msg = NoMsg
    <3>1. uTurn.msg # NoMsg BY <1>2, <2>4, NoOpMeans DEF Pending
    <3>2. ~applied <=> r.outcome = "unchanged" BY <2>1, <2>2, <3>1 DEF StartApplied
    <3>3. CASE r.outcome = "unchanged"
      <4>1. reg' = r.reg /\ UNCHANGED <<uTurn, uSteer>> BY <2>4, <3>3 DEF ReconcileRuntime, r
      <4> QED BY <2>1, <2>2, <3>3, <4>1
    <3>4. CASE r.outcome # "unchanged"
      <4>1. uTurn' = NoUncertainTurn /\ UNCHANGED uSteer BY <2>4, <3>2, <3>4 DEF ReconcileRuntime, r, applied
      <4> QED BY <2>4, <4>1, NoOpMeans DEF Pending
    <3> QED BY <3>3, <3>4
  <2> QED BY <2>3, <2>4
<1> QED BY <1>2, <1>3, RetryRests, ProceedRests

LEMMA ReadDoneRests ==
  ASSUME Context, PendingInvariant, ReadDone
  PROVE  PendingInvariant'
<1> DEFINE view == IF op.tries > 0 THEN Merge(op.reply.view, op.view)
                   ELSE IF op.kind = "read" THEN Merge(op.reply.view, cache)
                   ELSE op.reply.view
<1>1. UNCHANGED <<turns, alive, link, wire, req>> BY DEF ReadDone, server, transport
<1>2. view \in View BY TypedParts, MergeType DEF Context
<1>3. CASE UNCHANGED <<reg, uTurn, uSteer>> /\ (Release(op.kind) \/ Proceed(reg, uTurn))
  <2>1. PendingIsShown' BY <1>3 DEF PendingInvariant, PendingIsShown, Pending, ShowsPending
  <2> QED BY <1>1, <1>3, <2>1, ProceedRests
<1>4. CASE ReconcileRuntime(view)
  <2> HIDE DEF view
  <2> QED BY <1>1, <1>2, <1>4, ReconcileRuntimeRests
<1> QED BY <1>3, <1>4 DEF ReadDone

LEMMA ResolveReadRests ==
  ASSUME Context, PendingInvariant, ResolveRead
  PROVE  PendingInvariant'
<1> DEFINE view == Merge(op.reply.view, cache)
           m == IF op.msg # NoMsg THEN op.msg ELSE uTurn.msg
<1>1. /\ UNCHANGED <<turns, alive, link, wire, req>> /\ op \in Operations /\ view \in View
      /\ op.kind = "resolve" /\ op.phase = "read"
  BY TypedParts, MergeType DEF ResolveRead, Settled, server, transport, Context
<1>2. op.msg = uSteer.msg /\ op.turn = uSteer.turn
  BY <1>1 DEF Context, MessageInvariant, Whereabouts, ResolvesWhatItFound
<1>3. uTurn.msg = NoMsg \/ uSteer.msg = NoMsg BY DEF PendingInvariant, PendingIsShown, Pending
<1>4. CASE Release(op.kind) /\ UNCHANGED <<uTurn, uSteer, reg>>
  <2>1. PendingIsShown' BY <1>4 DEF PendingInvariant, PendingIsShown, Pending, ShowsPending
  <2> QED BY <1>1, <1>4, <2>1, ProceedRests
<1>5. CASE /\ IF op.msg # NoMsg THEN uSteer' = NoUncertainSteer /\ UNCHANGED uTurn
                                ELSE uTurn' = NoUncertainTurn /\ UNCHANGED uSteer
           /\ Release(op.kind)
  <2>1. ~Pending' BY <1>2, <1>3, <1>5, NoOpMeans DEF Pending
  <2> QED BY <1>1, <1>5, <2>1, ProceedRests DEF PendingIsShown
<1>6. CASE /\ op' = [op EXCEPT !.phase = "settle", !.reply = NoReply, !.view = view, !.msg = m]
           /\ UNCHANGED <<uTurn, uSteer, reg>>
  <2> HIDE DEF view, m
  <2>1. op'.kind = "resolve" /\ op'.turn = op.turn BY <1>1, <1>6, SettleFields
  <2>2. PendingIsShown' /\ SettlesItsSteer'
    BY <1>2, <1>6, <2>1 DEF PendingInvariant, PendingIsShown, Pending, ShowsPending, SettlesItsSteer
  <2> QED BY <1>1, <1>6, <2>1, <2>2, DecisionRests
<1> QED BY <1>4, <1>5, <1>6 DEF ResolveRead

LEMMA ResolveNotAppliedRests ==
  ASSUME Context, PendingInvariant, ResolveNotApplied
  PROVE  PendingInvariant'
<1>1. /\ UNCHANGED <<turns, alive, link, wire, req>> /\ op.phase = "settle" /\ Release(op.kind)
      /\ IF op.turn # 0 THEN uSteer' = NoUncertainSteer /\ UNCHANGED uTurn
                        ELSE uTurn' = NoUncertainTurn /\ UNCHANGED uSteer
  BY DEF ResolveNotApplied, server, transport
<1>2. op.turn = uSteer.turn /\ (uTurn.msg = NoMsg \/ uSteer.msg = NoMsg)
  BY <1>1 DEF PendingInvariant, SettlesItsSteer, PendingIsShown, Pending
<1>3. ~Pending' BY <1>1, <1>2, NoOpMeans, PendingParts DEF Pending
<1> QED BY <1>1, <1>3, ProceedRests DEF PendingIsShown

----
(* Lines reach the web server, and the connection is lost and comes back. *)

LEMMA HandleReplyRests ==
  ASSUME Context, PendingInvariant, HandleReply
  PROVE  PendingInvariant'
<1>1. /\ UNCHANGED <<turns, alive, req, link, uTurn, uSteer, reg>>
      /\ op' = [op EXCEPT !.reply = Head(wire)] /\ op \in Operations
      /\ Receive("reply")
  BY TypedParts DEF HandleReply, server, Context
<1>2. op'.kind = op.kind /\ op'.phase = op.phase /\ op'.turn = op.turn BY <1>1 DEF Operations
<1>3. OnWire(wire') \subseteq OnWire(wire) BY <1>1, ReceiveTakes DEF Context
<1>4. (Pending' => Pending) /\ LiveTurn' = LiveTurn BY <1>1, LivesOn DEF Pending
<1> QED BY <1>1, <1>2, <1>3, <1>4, StepRests

\* Other lines find nothing pending, or say nothing.
LEMMA HandleOthersRests ==
  ASSUME Context, PendingInvariant,
         HandleLate \/ HandleStatus \/ HandleTurnStarted \/ HandleTurnCompleted \/ HandleItem
  PROVE  PendingInvariant'
<1>1. /\ UNCHANGED <<turns, alive, req, link, op, uSteer>>
      /\ UNCHANGED uTurn \/ uTurn' = NoUncertainTurn
  BY DEF HandleLate, HandleStatus, HandleTurnStarted, HandleTurnCompleted, HandleItem, server, session
<1>2. PICK kind \in {"late", "active", "idle", "started", "completed", "item"} :
        Receive(kind) /\ (kind = "late" => UNCHANGED reg)
  BY DEF HandleLate, HandleStatus, HandleTurnStarted, HandleTurnCompleted, HandleItem
<1>3. OnWire(wire') \subseteq OnWire(wire) /\ Head(wire) \in OnWire(wire) /\ Head(wire).kind = kind
  BY <1>2, ReceiveTakes, ReceiveMeans DEF Context, OnWire
<1>4. Pending => kind = "late" BY <1>2, <1>3 DEF PendingInvariant, PendingIsQuiet
<1>5. (Pending' => Pending) /\ LiveTurn' = LiveTurn BY <1>1, NoOpMeans, LivesOn DEF Pending
<1> QED BY <1>1, <1>2, <1>3, <1>4, <1>5, NoOpMeans, StepRests

LEMMA ReadTimeoutRests ==
  ASSUME Context, PendingInvariant, ReadTimeout
  PROVE  PendingInvariant'
<1>1. /\ UNCHANGED <<turns, alive, link, uTurn, uSteer, reg>> /\ req' = NoReq /\ wire' = Late(wire)
      /\ op' = [op EXCEPT !.reply = Refused] /\ op \in Operations
  BY TypedParts DEF ReadTimeout, Context
<1>2. op'.kind = op.kind /\ op'.phase = op.phase /\ op'.turn = op.turn BY <1>1, RejectedFields
<1>3. \A l \in OnWire(wire') : l \in OnWire(wire) \/ l.kind = "late"
  <2>1. Line("late").kind = "late" BY DEF Line
  <2> QED BY <1>1, <2>1, LinesLeft DEF Context
<1>4. (Pending' => Pending) /\ LiveTurn' = LiveTurn /\ ~NoReq.orphan BY <1>1, LivesOn DEF Pending, NoReq
<1> QED BY <1>1, <1>2, <1>3, <1>4, NoOpMeans, StepRests

LEMMA CrashMeans ==
  ASSUME TypeInv, Crash
  PROVE  /\ DOMAIN turns' = DOMAIN turns /\ Len(turns') = Len(turns) /\ ~LiveTurn'
         /\ \A t \in DOMAIN turns : turns'[t].msgs = turns[t].msgs
         /\ OnWire(wire') \subseteq OnWire(wire)
         /\ \E n \in 0 .. Len(wire) : wire' = SubSeq(wire, 1, n)
         /\ alive /\ ~alive' /\ req' = NoReq /\ UNCHANGED <<link, session, reg, recovering, verdict>>
<1>1. /\ turns' = [t \in DOMAIN turns |-> [turns[t] EXCEPT !.status = "ended"]]
      /\ alive /\ ~alive' /\ req' = NoReq /\ UNCHANGED <<link, session, reg, recovering, verdict>>
  BY DEF Crash
<1>2. \A t \in DOMAIN turns : turns'[t].msgs = turns[t].msgs /\ turns'[t].status = "ended"
  BY <1>1, TurnMessages DEF Turn
<1>3. DOMAIN turns' = DOMAIN turns /\ Len(turns') = Len(turns)
  <2>1. DOMAIN turns' = 1 .. Len(turns) /\ Len(turns) \in Nat BY <1>1, Places
  <2>2. Len(turns') = Len(turns) BY <1>1, Places
  <2> QED BY <2>1, <2>2, Places
<1>4. ~LiveTurn' BY <1>2, <1>3 DEF LiveTurn, Running
<1>5. PICK n \in 0 .. Len(wire) : wire' = SubSeq(wire, 1, n) BY DEF Crash
<1>6. wire \in Seq(Lines) /\ NoReply \in Lines BY ReplyTypes DEF TypeInv, TypeOK, TransportTypeOK
<1> QED BY <1>1, <1>2, <1>3, <1>4, <1>5, <1>6, OnWireFacts

LEMMA CrashRests ==
  ASSUME Context, PendingInvariant, Crash
  PROVE  PendingInvariant'
<1>1. /\ UNCHANGED <<link, op, uTurn, uSteer, reg>> /\ req' = NoReq /\ ~alive' /\ ~LiveTurn'
      /\ OnWire(wire') \subseteq OnWire(wire)
  BY CrashMeans DEF session, Context
<1>2. Pending' = Pending BY <1>1 DEF Pending
<1>3. CleanEnds' BY <1>1 DEF PendingInvariant, CleanEnds, NoReq
<1>4. PendingIsShown' /\ SettlesItsSteer'
  BY <1>1, <1>2 DEF PendingInvariant, PendingIsShown, ShowsPending, SettlesItsSteer
<1>5. PendingIsQuiet' BY <1>1, <1>2, NoOpMeans, QuietRests DEF PendingInvariant
<1> QED BY <1>3, <1>4, <1>5 DEF PendingInvariant

LEMMA ReconnectRests ==
  ASSUME Context, PendingInvariant, Reconnect
  PROVE  PendingInvariant'
<1>1. /\ UNCHANGED <<turns, wire, op, uTurn, uSteer, reg>> /\ link' = "up" /\ alive' = TRUE /\ req' = NoReq
      /\ ~NoReq.orphan /\ ~Sends(NoReq)
  BY DEF Reconnect, session, NoReq, Sends
<1>2. Pending' = Pending /\ LiveTurn' = LiveTurn BY <1>1, LivesOn DEF Pending
<1>3. CleanEnds' BY <1>1 DEF PendingInvariant, CleanEnds
<1>4. PendingIsShown' /\ SettlesItsSteer'
  BY <1>1, <1>2 DEF PendingInvariant, PendingIsShown, ShowsPending, SettlesItsSteer
<1>5. PendingIsQuiet' BY <1>1, <1>2, QuietRests DEF PendingInvariant
<1> QED BY <1>3, <1>4, <1>5 DEF PendingInvariant

\* The connection ends: what was asked and not answered is pending from now on.
LEMMA TransportClosedMeans ==
  ASSUME Context, CleanEnds, TransportClosed
  PROVE  /\ UNCHANGED <<turns, alive, verdict, cache, loaded, waiting>>
         /\ ~alive /\ ~LiveTurn' /\ wire = << >> /\ wire' = << >>
         /\ req' = NoReq /\ link = "up" /\ link' = "down" /\ Disconnect("down")
<1>1. /\ UNCHANGED <<turns, alive, wire, history>> /\ ~alive /\ wire = << >> /\ req' = NoReq
      /\ link = "up" /\ Disconnect("down")
  BY DEF TransportClosed, CleanEnds
<1>2. ~LiveTurn' BY <1>1, LivesOn DEF CleanEnds
<1> QED BY <1>1, <1>2 DEF Disconnect, history

LEMMA TransportClosedRests ==
  ASSUME Context, PendingInvariant, TransportClosed
  PROVE  PendingInvariant'
<1>1. /\ UNCHANGED <<turns, alive>> /\ ~alive /\ ~LiveTurn' /\ wire' = << >>
      /\ req' = NoReq /\ link' = "down" /\ Disconnect("down")
  BY TransportClosedMeans DEF PendingInvariant
<1>2. CleanEnds' BY <1>1 DEF PendingInvariant, CleanEnds, NoReq
<1>3. op \in Operations /\ reg \in Runtime /\ ~Sends(req') /\ OnWire(wire') = {}
  BY <1>1, TypedParts, NoOpMeans DEF Context, OnWire
<1>4. CASE Awaiting("mutate")
  <2>1. op.kind \in {"start", "steer"} BY <1>4 DEF Awaiting, Context, TypeInv, MessagesInFlight
  <2>2. ~Pending BY <2>1 DEF PendingInvariant, PendingIsQuiet
  <2> DEFINE base == IF op.kind = "start" THEN op.base ELSE op.turn
  <2>3. /\ op' = NoOp /\ reg' = MarkOperationUncertain(base)
        /\ uTurn' = IF op.kind = "start" THEN [msg |-> op.msg, base |-> op.base] ELSE uTurn
        /\ uSteer' = IF op.kind = "steer" THEN [msg |-> op.msg, turn |-> op.turn] ELSE uSteer
    BY <1>1, <1>4, DisconnectMeans DEF Disconnect, Context
  <2>4. base \in MaybeNumber /\ base # Absent BY <1>3 DEF Operations, MaybeNumber, Absent
  <2>5. ShowsPending(reg') /\ reg'.baseline = base BY <2>3, <2>4 DEF MarkOperationUncertain, ShowsPending
  <2>6. PendingIsShown' BY <2>1, <2>2, <2>3, <2>5 DEF PendingIsShown, Pending, ShowsPending
  <2>7. PendingIsQuiet' /\ SettlesItsSteer' BY <1>1, <1>3, <2>3, NoOpMeans DEF PendingIsQuiet, SettlesItsSteer
  <2> QED BY <1>2, <2>6, <2>7 DEF PendingInvariant
<1>5. CASE ~Awaiting("mutate")
  <2>1. /\ UNCHANGED <<uTurn, uSteer>> /\ reg' = Disconnected(reg) /\ op' \in {op, [op EXCEPT !.reply = Refused]}
    BY <1>1, <1>5 DEF Disconnect, RejectPending
  <2>2. op'.kind = op.kind /\ op'.phase = op.phase /\ op'.turn = op.turn BY <1>3, <2>1, RejectedFields
  <2>3. Pending' = Pending /\ (Pending => UNCHANGED reg)
    BY <2>1 DEF Pending, PendingInvariant, PendingIsShown, ShowsPending, Disconnected
  <2>4. PendingIsShown' /\ SettlesItsSteer'
    BY <2>1, <2>2, <2>3 DEF PendingInvariant, PendingIsShown, ShowsPending, SettlesItsSteer
  <2>5. PendingIsQuiet' BY <1>1, <1>3, <2>2, <2>3, QuietRests DEF PendingInvariant
  <2> QED BY <1>2, <2>4, <2>5 DEF PendingInvariant
<1> QED BY <1>4, <1>5

----
(* What the App Server does and says when it serves a request. *)

LEMMA OneMoreLine ==
  ASSUME TypeInv, NEW v \in Seq(Lines), wire' = wire \o v
  PROVE  OnWire(wire') = OnWire(wire) \cup OnWire(v)
<1>1. wire \in Seq(Lines) /\ NoReply \in Lines BY Places, ReplyTypes
<1>2. OnWire(wire') \subseteq OnWire(wire) \cup OnWire(v) BY <1>1, OnWireFacts
<1>3. ASSUME NEW i \in DOMAIN wire PROVE wire[i] \in OnWire(wire')
  <2>1. i \in DOMAIN wire' /\ wire'[i] = wire[i] BY <1>1, <1>3
  <2> QED BY <2>1 DEF OnWire
<1>4. ASSUME NEW i \in DOMAIN v PROVE v[i] \in OnWire(wire')
  <2>1. i + Len(wire) \in DOMAIN wire' /\ wire'[i + Len(wire)] = v[i] BY <1>1, <1>4
  <2> QED BY <2>1 DEF OnWire
<1> QED BY <1>2, <1>3, <1>4 DEF OnWire

LEMMA ReadServed ==
  ASSUME TypeInv, ServeRead
  PROVE  /\ Reply(TRUE, 0, turns) \in Lines /\ Reply(TRUE, 0, turns).kind = "reply"
         /\ OnWire(wire') = OnWire(wire) \cup {Reply(TRUE, 0, turns)}
         /\ alive /\ req.kind = "read" /\ req' = NoReq
         /\ UNCHANGED <<turns, alive, link, session, reg, verdict>>
<1> DEFINE line == Reply(TRUE, 0, turns)
<1>1. /\ alive /\ req.kind = "read" /\ req' = NoReq /\ wire' = Append(wire, line)
      /\ UNCHANGED <<turns, alive, link, session, reg, verdict>>
  BY DEF ServeRead, history
<1>2. line \in Lines /\ line.kind = "reply"
  BY Places, TurnsAreView, Constants, ReplyTypes DEF Reply, Line, TypeInv, TypeOK, ServerTypeOK
<1> HIDE DEF line
<1>3. wire' = wire \o <<line>> /\ OnWire(<<line>>) = {line} /\ <<line>> \in Seq(Lines)
  BY <1>1, <1>2, Places, Spoken, AppendIsConcat
<1>4. OnWire(wire') = OnWire(wire) \cup {line} BY <1>3, OneMoreLine
<1>5. line \in Lines /\ line.kind = "reply" /\ OnWire(wire') = OnWire(wire) \cup {line} BY <1>2, <1>4
<1> QED BY <1>1, <1>5 DEF line

Resumption == Reply(TRUE, 0, IF Paginated THEN NoTurns ELSE turns)

LEMMA ResumeServed ==
  ASSUME TypeInv, ~Announces, ServeResume
  PROVE  /\ Resumption \in Lines /\ Resumption.kind = "reply"
         /\ OnWire(wire') = OnWire(wire) \cup {Resumption}
         /\ alive /\ req.kind = "resume" /\ req' = NoReq
         /\ UNCHANGED <<turns, alive, link, session, reg, verdict>>
<1>1. /\ alive /\ req.kind = "resume" /\ req' = NoReq /\ wire' = wire \o <<Resumption>>
      /\ UNCHANGED <<turns, alive, link, session, reg, verdict>>
  BY DEF ServeResume, history, Resumption
<1>2. Resumption \in Lines /\ Resumption.kind = "reply"
  <2> DEFINE view == IF Paginated THEN NoTurns ELSE turns
  <2>1. view \in View BY TurnsAreView, NoTurnsType DEF TypeInv, TypeOK, ServerTypeOK
  <2>2. Resumption = Reply(TRUE, 0, view) BY DEF Resumption
  <2> HIDE DEF view
  <2> QED BY <2>1, <2>2, Constants, ReplyTypes DEF Reply, Line
<1> QED BY <1>1, <1>2, Spoken, OneMoreLine

\* A mutation is refused, and changes nothing.
Declined == UNCHANGED turns /\ OnWire(wire') \subseteq OnWire(wire) \cup {Refused}

LEMMA DeclinedMeans ==
  ASSUME TypeInv, UNCHANGED turns, wire' = wire \o Respond(Refused)
  PROVE  Declined
<1>1. Refused \in Lines BY ReplyTypes
<1>2. Respond(Refused) \in Seq(Lines) /\ OnWire(Respond(Refused)) \subseteq {Refused}
  BY <1>1, Spoken DEF Respond
<1> QED BY <1>2, OneMoreLine DEF Declined

LEMMA SteerServed ==
  ASSUME TypeInv, ServeSteer
  PROVE  /\ alive /\ req.kind = "steer" /\ req' = NoReq
         /\ UNCHANGED <<alive, link, session, reg, verdict>>
         /\ \/ Declined
            \/ /\ Len(turns') = Len(turns) /\ DOMAIN turns' = DOMAIN turns /\ req.turn \in DOMAIN turns
               /\ \A t \in DOMAIN turns : turns[t].msgs \subseteq turns'[t].msgs
               /\ turns'[req.turn].msgs = turns[req.turn].msgs \cup {req.msg}
               /\ OnWire(wire') \subseteq OnWire(wire) \cup
                      {TurnLine("item", req.turn, [turns[req.turn] EXCEPT !.msgs = {req.msg}]),
                       Reply(TRUE, req.turn, NoTurns)}
<1> DEFINE rec == [turns[req.turn] EXCEPT !.msgs = {req.msg}]
           l == TurnLine("item", req.turn, rec)
           item == Notify(<<l>>)
           line == Reply(TRUE, req.turn, NoTurns)
           answer == Respond(line)
<1>1. /\ alive /\ req.kind = "steer" /\ req' = NoReq /\ UNCHANGED <<alive, link, session, reg, verdict>>
  BY DEF ServeSteer, history
<1>2. CASE wire' = wire \o Respond(Refused) /\ UNCHANGED turns BY <1>1, <1>2, DeclinedMeans
<1>3. CASE /\ LiveAt(turns, req.turn)
           /\ turns' = [turns EXCEPT ![req.turn].msgs = @ \cup {req.msg}]
           /\ wire' \in {wire \o item \o answer, wire \o answer \o item}
  <2>1. req.msg \in Msgs /\ req.turn \in MaybeNumber BY <1>1, TypedParts DEF TypeInv, MessagesInFlight, Requests
  <2>2. l \in Lines
    <3>1. rec \in Turn BY <1>3, <2>1, Places DEF Turn, LiveAt
    <3> HIDE DEF rec
    <3> QED BY <2>1, <3>1, LineTypes
  <2>3. line \in Lines BY <2>1, NoTurnsType, ReplyTypes
  <2> HIDE DEF l, line, rec
  <2>4. item \in Seq(Lines) /\ OnWire(item) \subseteq {l} BY <2>2, Spoken DEF Notify
  <2>5. answer \in Seq(Lines) /\ OnWire(answer) \subseteq {line} BY <2>3, Spoken DEF Respond
  <2> HIDE DEF item, answer
  <2>6. PICK u \in {item \o answer, answer \o item} : wire' = wire \o u BY <1>3, <2>4, <2>5, SaidInOrder
  <2>7. u \in Seq(Lines) /\ OnWire(u) \subseteq {l, line} BY <2>4, <2>5, <2>6, SpokenTogether
  <2>8. OnWire(wire') \subseteq OnWire(wire) \cup {l, line} BY <2>6, <2>7, OneMoreLine
  <2>9. /\ Len(turns') = Len(turns) /\ DOMAIN turns' = DOMAIN turns /\ req.turn \in DOMAIN turns
        /\ turns'[req.turn].msgs = turns[req.turn].msgs \cup {req.msg}
        /\ \A t \in DOMAIN turns : t # req.turn => turns'[t] = turns[t]
    BY <1>3, Places DEF Turn, LiveAt
  <2> QED BY <1>1, <2>8, <2>9 DEF l, line, rec
<1> QED BY <1>1, <1>2, <1>3 DEF ServeSteer

LEMMA InTheMiddle ==
  ASSUME NEW x \in Seq(Lines), NEW v \in Seq(Lines), NEW l \in Lines, NEW w \in Seq(Lines)
  PROVE  l \in OnWire(x \o v \o <<l>> \o w)
<1> DEFINE all == x \o v \o <<l>> \o w
           i == Len(x) + Len(v) + 1
<1>1. x \o v \in Seq(Lines) /\ Len(x \o v) = Len(x) + Len(v) /\ Len(x) \in Nat /\ Len(v) \in Nat OBVIOUS
<1>2. /\ (x \o v) \o <<l>> \in Seq(Lines) /\ Len((x \o v) \o <<l>>) = i
      /\ ((x \o v) \o <<l>>)[i] = l
  BY <1>1
<1>3. i \in DOMAIN all /\ all[i] = l BY <1>1, <1>2
<1> QED BY <1>3 DEF OnWire

LEMMA CutLines ==
  ASSUME NEW s \in Seq(Lines), NEW i \in 0 .. Len(s)
  PROVE  /\ SubSeq(s, 1, i) \in Seq(Lines) /\ SubSeq(s, i + 1, Len(s)) \in Seq(Lines)
         /\ OnWire(SubSeq(s, 1, i)) \subseteq OnWire(s)
         /\ OnWire(SubSeq(s, i + 1, Len(s))) \subseteq OnWire(s)
<1>1. NoReply \in Lines BY ReplyTypes
<1>2. SubSeq(s, 1, i) \in Seq(Lines) /\ SubSeq(s, i + 1, Len(s)) \in Seq(Lines) OBVIOUS
<1> QED BY <1>1, <1>2, OnWireFacts

NewTurn == [status |-> "inProgress", msgs |-> {req.msg}, late |-> FALSE]
NewAnswer == [Reply(TRUE, Len(turns) + 1, NoTurns) EXCEPT !.rec = [NewTurn EXCEPT !.msgs = {}]]

LEMMA NewLines ==
  ASSUME TypeInv, req.kind = "start", Len(turns) + 1 <= MaxTurns
  PROVE  /\ NewTurn \in Turn /\ NewTurn.msgs = {req.msg}
         /\ Line("active") \in Lines
         /\ TurnLine("started", Len(turns) + 1, NewTurn) \in Lines
         /\ NewAnswer \in Lines /\ NewAnswer.kind = "reply" /\ NewAnswer.ok
         /\ NewAnswer.turn = Len(turns) + 1 /\ NewAnswer.view = NoTurns /\ NewAnswer.rec.msgs = {}
<1>1. Len(turns) + 1 \in MaybeNumber BY Places, Constants, ConstantsAssumption DEF Numbers
<1>2. req.msg \in Msgs BY DEF TypeInv, MessagesInFlight
<1>3. NewTurn \in Turn /\ NewTurn.msgs = {req.msg} BY <1>2 DEF Turn, NewTurn
<1>4. [NewTurn EXCEPT !.msgs = {}] \in Turn /\ [NewTurn EXCEPT !.msgs = {}].msgs = {} BY <1>3 DEF Turn
<1>5. Line("active") \in Lines /\ TurnLine("started", Len(turns) + 1, NewTurn) \in Lines
  BY <1>1, <1>3, LineTypes
<1> DEFINE answer == Reply(TRUE, Len(turns) + 1, NoTurns)
           rec == [NewTurn EXCEPT !.msgs = {}]
<1>6. /\ answer \in Lines /\ answer.kind = "reply" /\ answer.ok /\ answer.turn = Len(turns) + 1
      /\ answer.view = NoTurns
  BY <1>1, NoTurnsType, ReplyTypes DEF Reply, Line
<1>7. NewAnswer = [answer EXCEPT !.rec = rec] BY DEF NewAnswer
<1> HIDE DEF answer, rec
<1>8. /\ NewAnswer \in Lines /\ NewAnswer.kind = "reply" /\ NewAnswer.ok
      /\ NewAnswer.turn = Len(turns) + 1 /\ NewAnswer.view = NoTurns /\ NewAnswer.rec = rec
  BY <1>4, <1>6, <1>7 DEF Lines, rec
<1> QED BY <1>3, <1>4, <1>5, <1>8 DEF rec

LEMMA StartServed ==
  ASSUME TypeInv, ServeStart, ~req.orphan
  PROVE  /\ alive /\ req.kind = "start" /\ req' = NoReq
         /\ UNCHANGED <<alive, link, session, reg, verdict>>
         /\ \/ Declined
            \/ /\ Len(turns) + 1 <= MaxTurns /\ turns' = Append(turns, NewTurn)
               /\ NewAnswer \in OnWire(wire')
               /\ OnWire(wire') \subseteq OnWire(wire) \cup
                      {Line("active"), TurnLine("started", Len(turns) + 1, NewTurn), NewAnswer}
<1> DEFINE t == Len(turns) + 1
           active == Line("active")
           started == TurnLine("started", t, NewTurn)
           news == Notify(<<active, started>>)
           answer == Respond(NewAnswer)
<1>1. /\ alive /\ req.kind = "start" /\ req' = NoReq /\ UNCHANGED <<alive, link, session, reg, verdict>>
  BY DEF ServeStart, history
<1>2. CASE wire' = wire \o Respond(Refused) /\ UNCHANGED turns BY <1>1, <1>2, DeclinedMeans
<1>3. CASE /\ t <= MaxTurns
           /\ turns' = Append(turns, NewTurn)
           /\ \E i \in 0 .. Len(news) :
                wire' = wire \o SubSeq(news, 1, i) \o answer \o SubSeq(news, i + 1, Len(news))
  <2>1. active \in Lines /\ started \in Lines /\ NewAnswer \in Lines BY <1>1, <1>3, NewLines
  <2> HIDE DEF active, started, t
  <2>2. answer = <<NewAnswer>> /\ answer \in Seq(Lines) /\ OnWire(answer) = {NewAnswer}
    BY <2>1, Spoken DEF Respond
  <2>3. news \in Seq(Lines) /\ OnWire(news) \subseteq {active, started}
    <3>1. /\ <<active, started>> \in Seq(Lines) /\ OnWire(<<active, started>>) = {active, started}
          /\ << >> \in Seq(Lines) /\ OnWire(<< >>) = {}
      BY <2>1, TwoOnWire, Spoken
    <3> QED BY <3>1 DEF Notify
  <2> HIDE DEF news, answer
  <2>4. PICK i \in 0 .. Len(news) :
                wire' = wire \o SubSeq(news, 1, i) \o answer \o SubSeq(news, i + 1, Len(news))
    BY <1>3
  <2> DEFINE v == SubSeq(news, 1, i)
             w == SubSeq(news, i + 1, Len(news))
  <2>5. /\ v \in Seq(Lines) /\ w \in Seq(Lines) /\ OnWire(v) \subseteq OnWire(news) /\ OnWire(w) \subseteq OnWire(news)
    BY <2>3, CutLines
  <2> HIDE DEF v, w
  <2>6. wire' = wire \o v \o answer \o w BY <2>4 DEF v, w
  <2>7. NewAnswer \in OnWire(wire') BY <2>1, <2>2, <2>5, <2>6, Places, InTheMiddle
  <2>8. OnWire(wire') \subseteq OnWire(wire) \cup OnWire(v) \cup OnWire(answer) \cup OnWire(w)
    <3>1. wire \in Seq(Lines) /\ wire \o v \in Seq(Lines) /\ (wire \o v) \o answer \in Seq(Lines)
      BY <2>2, <2>5, Places
    <3>2. /\ OnWire(wire \o v) \subseteq OnWire(wire) \cup OnWire(v)
          /\ OnWire((wire \o v) \o answer) \subseteq OnWire(wire \o v) \cup OnWire(answer)
          /\ OnWire(((wire \o v) \o answer) \o w) \subseteq OnWire((wire \o v) \o answer) \cup OnWire(w)
      BY <2>2, <2>5, <3>1, ToldTogether
    <3> QED BY <2>6, <3>2
  <2>9. OnWire(wire') \subseteq OnWire(wire) \cup {active, started, NewAnswer} BY <2>2, <2>3, <2>5, <2>8
  <2> QED BY <1>1, <1>3, <2>7, <2>9 DEF active, started, t
<1> QED BY <1>1, <1>2, <1>3 DEF ServeStart, NewTurn, NewAnswer

LEMMA EndMeans ==
  ASSUME TypeInv, StartInvariant, EndTurn
  PROVE  \E t \in DOMAIN turns :
            /\ LiveTurn /\ alive
            /\ DOMAIN turns' = DOMAIN turns /\ Len(turns') = Len(turns)
            /\ \A s \in DOMAIN turns : turns'[s].msgs = turns[s].msgs
            /\ ~LiveTurn'
            /\ UNCHANGED <<alive, req, link, session, reg, verdict>>
            /\ OnWire(wire) \subseteq OnWire(wire')
            /\ OnWire(wire') \subseteq OnWire(wire) \cup {TurnLine("completed", t, turns'[t]), Line("idle")}
<1>1. PICK t \in DOMAIN turns :
        /\ Running(turns[t])
        /\ turns' = [turns EXCEPT ![t].status = "ended"]
        /\ wire' \in {wire \o Notify(<<TurnLine("completed", t, turns'[t]), Line("idle")>>),
                      wire \o Notify(<<Line("idle"), TurnLine("completed", t, turns'[t])>>)}
  BY DEF EndTurn
<1>2. UNCHANGED <<alive, req, link, session, reg, verdict>> /\ alive BY DEF EndTurn, history
<1>3. /\ Len(turns') = Len(turns) /\ DOMAIN turns' = DOMAIN turns
      /\ \A s \in DOMAIN turns' : s # t => turns'[s] = turns[s]
      /\ turns'[t].msgs = turns[t].msgs
      /\ ~Running(turns'[t]) /\ turns'[t] \in Turn
  <2>1. turns \in Seq(Turn) /\ t \in 1 .. Len(turns) BY Places DEF TypeInv, TypeOK, ServerTypeOK
  <2>2. /\ Len(turns') = Len(turns) /\ DOMAIN turns' = DOMAIN turns
        /\ \A s \in DOMAIN turns' : s # t => turns'[s] = turns[s]
        /\ turns'[t] = [turns[t] EXCEPT !.status = "ended"]
    BY <1>1, <2>1
  <2>3. turns[t] \in Turn BY <2>1
  <2> QED BY <2>2, <2>3 DEF Turn, Running
<1>4. LiveTurn /\ ~LiveTurn'
  <2>1. \A s \in DOMAIN turns : Running(turns[s]) => s = Len(turns) BY DEF StartInvariant, OneAtATime
  <2> QED BY <1>1, <1>3, <2>1 DEF LiveTurn
<1> DEFINE completed == TurnLine("completed", t, turns'[t])
           idle == Line("idle")
<1>5. completed \in Lines /\ idle \in Lines
  <2>1. t \in MaybeNumber BY <1>1, Places, ConstantsAssumption DEF MaybeNumber, TypeInv, TypeOK, ServerTypeOK
  <2> QED BY <1>3, <2>1, LineTypes
<1>6. PICK u \in {Notify(<<completed, idle>>), Notify(<<idle, completed>>)} : wire' = wire \o u BY <1>1
<1> HIDE DEF completed, idle
<1>7. u \in Seq(Lines) /\ OnWire(u) \subseteq {completed, idle}
  <2>1. <<completed, idle>> \in Seq(Lines) /\ <<idle, completed>> \in Seq(Lines) /\ << >> \in Seq(Lines) BY <1>5
  <2>2. /\ OnWire(<<completed, idle>>) = {completed, idle}
        /\ OnWire(<<idle, completed>>) = {completed, idle}
        /\ OnWire(<< >>) = {}
    BY TwoOnWire, Spoken
  <2> QED BY <1>6, <2>1, <2>2 DEF Notify
<1>8. OnWire(wire) \subseteq OnWire(wire') /\ OnWire(wire') \subseteq OnWire(wire) \cup {completed, idle}
  BY <1>6, <1>7, OneMoreLine
<1> QED BY <1>2, <1>3, <1>4, <1>8 DEF completed, idle

LEMMA ServeRests ==
  ASSUME Context, PendingInvariant, QuietChild, Serve \/ EndTurn
  PROVE  PendingInvariant'
<1>1. ~req.orphan /\ ~NoReq.orphan BY DEF PendingInvariant, CleanEnds, NoReq
<1>2. CASE ServeRead
  <2>1. /\ UNCHANGED <<turns, alive, link, op, uTurn, uSteer, reg>> /\ req' = NoReq
        /\ \A l \in OnWire(wire') : l \in OnWire(wire) \/ l.kind = "reply"
    BY <1>2, ReadServed DEF Context, session
  <2>2. Pending' = Pending /\ LiveTurn' = LiveTurn BY <2>1, LivesOn DEF Pending
  <2> QED BY <1>1, <2>1, <2>2, NoOpMeans, StepRests
<1>3. CASE ServeResume
  <2>1. /\ UNCHANGED <<turns, alive, link, op, uTurn, uSteer, reg>> /\ req' = NoReq
        /\ \A l \in OnWire(wire') : l \in OnWire(wire) \/ l.kind = "reply"
    BY <1>3, ResumeServed DEF Context, session, QuietChild
  <2>2. Pending' = Pending /\ LiveTurn' = LiveTurn BY <2>1, LivesOn DEF Pending
  <2> QED BY <1>1, <2>1, <2>2, NoOpMeans, StepRests
<1>4. CASE ServeStart \/ ServeSteer
  <2>1. alive /\ Sends(req) /\ req' = NoReq /\ UNCHANGED <<alive, link, op, uTurn, uSteer, reg>>
    BY <1>1, <1>4, StartServed, SteerServed DEF Context, session, Sends
  <2>2. ~Pending BY <2>1 DEF PendingInvariant, PendingIsQuiet
  <2>3. ~Pending' BY <2>1, <2>2 DEF Pending
  <2> QED BY <1>1, <2>1, <2>3, StepRests
<1>5. CASE EndTurn
  <2>1. LiveTurn /\ alive /\ UNCHANGED <<alive, req, link, op, uTurn, uSteer, reg>>
    BY <1>5, EndMeans DEF Context, session
  <2>2. ~Pending BY <2>1 DEF PendingInvariant, PendingIsQuiet
  <2>3. ~Pending' BY <2>1, <2>2 DEF Pending
  <2> QED BY <2>1, <2>3, StepRests
<1> QED BY <1>2, <1>3, <1>4, <1>5 DEF Serve

\* A child is asked nothing by a connection that is gone.
LEMMA NoStrays == ASSUME ~SharedServer, SharedInv PROVE ~ServeStray
BY DEF SharedInv, ServeStray, ServeStrayStart, ServeStraySteer

LEMMA NextRests ==
  ASSUME Context, PendingInvariant, QuietChild, Next
  PROVE  PendingInvariant'
<1>1. CASE Submit BY <1>1, QuietStepsRest DEF Submit
<1>2. CASE Begin BY <1>2, BeginStartRests, BeginSteerRests, BeginReadRests, BeginResolveRests DEF Begin
<1>3. CASE Continue
  BY <1>3, BeginReadRests, ResumedRests, ReadDoneRests, DelayOverRests, ResolveReadRests,
    ResolveNotAppliedRests, SendRests, RespondedRests DEF Continue
<1>4. CASE Handle BY <1>4, HandleReplyRests, HandleOthersRests DEF Handle
<1>5. CASE FinishTimer BY <1>5, QuietStepsRest
<1>6. CASE Lose BY <1>6, ReadTimeoutRests, CrashRests DEF Lose, MutationTimeout, SocketLost, QuietChild
<1>7. CASE Recover BY <1>7, TransportClosedRests, ReconnectRests, QuietStepsRest DEF Recover
<1>8. CASE Serve \/ EndTurn BY <1>8, ServeRests
<1>9. CASE ServeStray BY <1>9, NoStrays DEF Context, QuietChild
<1> QED BY <1>1, <1>2, <1>3, <1>4, <1>5, <1>6, <1>7, <1>8, <1>9 DEF Next

LEMMA InitRests == Init => PendingInvariant
<1> SUFFICES ASSUME Init PROVE PendingInvariant OBVIOUS
<1>1. /\ op = NoOp /\ req = NoReq /\ wire = << >> /\ link = "up" /\ alive = TRUE
      /\ uTurn = NoUncertainTurn /\ uSteer = NoUncertainSteer
  BY DEF Init
<1>2. ~Pending BY <1>1, NoOpMeans DEF Pending
<1>3. CleanEnds /\ SettlesItsSteer BY <1>1, NoOpMeans DEF CleanEnds, SettlesItsSteer, NoReq
<1> QED BY <1>2, <1>3 DEF PendingInvariant, PendingIsShown, PendingIsQuiet

LEMMA StutterRests == ASSUME PendingInvariant, UNCHANGED vars PROVE PendingInvariant'
<1>1. UNCHANGED <<turns, alive, req, link, wire, op, uTurn, uSteer, reg>>
  BY DEF vars, server, transport, session
<1>2. Pending' = Pending /\ LiveTurn' = LiveTurn BY <1>1, LivesOn DEF Pending
<1> QED BY <1>1, <1>2, StepRests

\* While the result of a start or a steer is unknown, nothing else happens to the
\* session: no Turn goes on, no request goes out that makes one, no line is on its
\* way that would tell of one.
THEOREM PendingInductive ==
  ASSUME QuietChild
  PROVE  Spec => [](TypeInv /\ MessageInvariant /\ StartInvariant /\ SharedInv /\ PendingInvariant)
<1>1. Init => PendingInvariant BY InitRests
<1>2. ASSUME TypeInv, MessageInvariant, StartInvariant, SharedInv, PendingInvariant, TypeInv', [Next]_vars
      PROVE  PendingInvariant'
  BY <1>2, NextRests, StutterRests DEF Context
<1>3. /\ TypeInv /\ MessageInvariant /\ StartInvariant /\ SharedInv
      /\ (TypeInv /\ MessageInvariant /\ StartInvariant /\ SharedInv)'
      /\ PendingInvariant /\ [Next]_vars
      => PendingInvariant'
  BY <1>2
<1> QED BY <1>1, <1>3, StartsInductive, PTL DEF Spec

\* A thread whose start or steer has an unknown result stays disconnected until
\* the result is settled: by the Turns of the thread, or by a browser.
THEOREM PendingKeepsDisconnected == ASSUME QuietChild PROVE Spec => []StaysDisconnected
<1>1. PendingInvariant => StaysDisconnected
  BY DEF PendingInvariant, PendingIsShown, ShowsPending, Pending, StaysDisconnected
<1> QED BY <1>1, PendingInductive, PTL

\* As long as prompts are refused because a result is unknown, the browsers are
\* offered to resolve it.
THEOREM PendingIsOffered == ASSUME QuietChild PROVE Spec => []BlockedIsOffered
<1>1. PendingInvariant => BlockedIsOffered
  BY DEF PendingInvariant, PendingIsShown, ShowsPending, Pending, BlockedIsOffered
<1> QED BY <1>1, PendingInductive, PTL

----
(* What the web server knows of the App Server's Turns. *)

\* What is known of a Turn is so.
Sound(view) == \A t \in DOMAIN view : view[t].msgs \subseteq turns[t].msgs
SoundLine(line) == Sound(line.view) /\ (line.turn # 0 => line.rec.msgs \subseteq turns[line.turn].msgs)
ViewsAreTrue ==
  /\ Sound(cache) /\ Sound(op.view) /\ SoundLine(op.reply)
  /\ \A l \in OnWire(wire) : SoundLine(l)

\* A response that has the history has the last Turn, as long as its asker is there.
ShowsLast(view) == Len(turns) = 0 \/ Len(turns) \in DOMAIN view
Whole(line) == line.kind = "reply" /\ line.ok => ShowsLast(line.view)
ReadsHistory == op.phase = "read" \/ (op.phase = "resume" /\ ~Paginated)
ReadsAreWhole ==
  /\ ReadsHistory => Whole(op.reply) /\ \A l \in OnWire(wire) : Whole(l)
  /\ op.phase = "settle" => ShowsLast(cache)
  /\ op.reply # NoReply => op.reply.kind = "reply"

\* A start goes out over a snapshot with history.
HasHistory == loaded = "read" \/ (loaded = "resumed" /\ ~Paginated)
Prompts(call) == call.kind \in {"start", "scheduled"}
PromptsKnowHistory ==
  /\ Prompts(op) \/ (\E w \in waiting : Prompts(w)) => loaded = "read" \/ ~Paginated
  /\ Prompts(op) /\ op.phase # "resume" => loaded # "absent"

\* Only a start that is not yet answered, or is uncertain, has made a Turn the
\* snapshot does not show.
IsNewest(line) == line.kind = "reply" /\ line.ok /\ line.turn = Len(turns)
Unanswered ==
  /\ Starting
  /\ \/ IsNewest(op.reply)
     \/ op.reply = NoReply /\ \E l \in OnWire(wire) : IsNewest(l)
     \/ op.reply = NoReply /\ ~alive /\ \A l \in OnWire(wire) : l.kind # "reply"
CacheIsComplete == HasHistory => ShowsLast(cache) \/ uTurn.msg # NoMsg \/ Unanswered

\* A start makes the Turn after its baseline, and no other is made meanwhile.
FollowedBy(base, m) == Len(turns) = base \/ (Len(turns) = base + 1 /\ m \in turns[base + 1].msgs)
BaselinesAreLast ==
  /\ Starting => FollowedBy(op.base, op.msg)
  /\ req.kind = "start" => Len(turns) = op.base /\ req.msg = op.msg
  /\ uTurn.msg # NoMsg => FollowedBy(uTurn.base, uTurn.msg)

ResultInvariant ==
  /\ ViewsAreTrue /\ ReadsAreWhole /\ PromptsKnowHistory
  /\ CacheIsComplete /\ BaselinesAreLast
  /\ AppliedIsTrue

\* What is known of a state before a step, in a quiet environment.
QuietContext == Context /\ PendingInvariant /\ PendingInvariant' /\ QuietChild

LEMMA QuietFacts ==
  ASSUME QuietContext
  PROVE  /\ Context /\ TypeInv /\ TypeInv' /\ ~req.orphan /\ link # "closing"
         /\ op.reply # NoReply \/ op.phase \notin Awaits => req.kind = "none" /\ NoReplies(wire)
         /\ req.kind = "start" => Awaiting("mutate") /\ op.kind = "start" /\ NoReplies(wire)
         /\ req.kind = "steer" => Awaiting("mutate") /\ op.kind = "steer" /\ NoReplies(wire)
         /\ req.kind \in {"read", "resume"} => Awaiting(req.kind) /\ NoReplies(wire)
         /\ \A l \in OnWire(wire) : l \in Lines /\ Known(l)
         /\ \A l \in OnWire(wire) : l.kind = "reply" => op.reply = NoReply /\ op.phase \in Awaits
<1>1. Context /\ TypeInv /\ TypeInv' /\ ~req.orphan /\ link # "closing"
  BY DEF QuietContext, Context, PendingInvariant, CleanEnds
<1>2. op.reply # NoReply \/ op.phase \notin Awaits => req.kind = "none" /\ NoReplies(wire)
  BY <1>1, NoneAwaitedMeans DEF NoneAwaited
<1>3. /\ req.kind # "none" => op.phase \in Awaits /\ op.reply = NoReply /\ req.kind = Asked(op) /\ NoReplies(wire)
      /\ op.phase = "mutate" => op.kind \in {"start", "steer"}
  BY <1>1 DEF TypeInv, RequestAwaited, MessagesInFlight
<1>4. /\ req.kind = "start" => Awaiting("mutate") /\ op.kind = "start" /\ NoReplies(wire)
      /\ req.kind = "steer" => Awaiting("mutate") /\ op.kind = "steer" /\ NoReplies(wire)
      /\ req.kind \in {"read", "resume"} => Awaiting(req.kind) /\ NoReplies(wire)
  BY <1>3 DEF Asked, Awaits, Awaiting
<1>5. \A l \in OnWire(wire) : l \in Lines /\ Known(l)
  BY <1>1, Places DEF OnWire, Context, MessageInvariant, KnownTurns, WireKnown
<1>6. \A l \in OnWire(wire) : l.kind = "reply" => op.reply = NoReply /\ op.phase \in Awaits
  BY <1>1 DEF TypeInv, AnswerAwaited, OnWire
<1> QED BY <1>1, <1>2, <1>4, <1>5, <1>6

----
(* The Turns there are stay, with their messages. *)

Grown ==
  /\ Len(turns) <= Len(turns')
  /\ \A t \in DOMAIN turns : t \in DOMAIN turns' /\ turns[t].msgs \subseteq turns'[t].msgs

SoundNext(view) == \A t \in DOMAIN view : view[t].msgs \subseteq turns'[t].msgs
SoundLineNext(line) == SoundNext(line.view) /\ (line.turn # 0 => line.rec.msgs \subseteq turns'[line.turn].msgs)

LEMMA SameGrown == ASSUME TypeInv, UNCHANGED turns PROVE Grown
BY Places DEF Grown

LEMMA ExistingTurns ==
  ASSUME TypeInv, NEW view \in View, Exist(DOMAIN view), NEW t \in DOMAIN view
  PROVE  t \in DOMAIN turns
<1>1. t \in Numbers /\ t <= Len(turns) BY ViewElements DEF Exist
<1> QED BY <1>1, Places, ConstantsAssumption DEF Numbers

LEMMA StillSound ==
  ASSUME TypeInv, Grown
  PROVE  /\ \A view \in View : Exist(DOMAIN view) /\ Sound(view) => SoundNext(view)
         /\ \A line \in Lines : Known(line) /\ SoundLine(line) => SoundLineNext(line)
         /\ SoundNext(NoTurns)
         /\ \A line : line.turn = 0 /\ line.view = NoTurns => SoundLineNext(line)
         /\ SoundLineNext(NoReply) /\ SoundLineNext(Refused)
<1>1. ASSUME NEW view \in View, Exist(DOMAIN view), Sound(view) PROVE SoundNext(view)
  BY <1>1, ExistingTurns DEF Sound, SoundNext, Grown
<1>2. ASSUME NEW line \in Lines, Known(line), SoundLine(line) PROVE SoundLineNext(line)
  <2>1. line.view \in View /\ line.turn \in MaybeNumber BY DEF Lines
  <2>2. SoundNext(line.view) BY <1>1, <1>2, <2>1 DEF Known, SoundLine
  <2>3. line.turn # 0 => line.turn \in DOMAIN turns
    BY <1>2, <2>1, Places, ConstantsAssumption DEF Known, MaybeNumber
  <2> QED BY <1>2, <2>2, <2>3 DEF SoundLine, SoundLineNext, Grown
<1>3. SoundNext(NoTurns) BY NoOpMeans DEF SoundNext
<1>4. ASSUME NEW line, line.turn = 0, line.view = NoTurns PROVE SoundLineNext(line)
  BY <1>3, <1>4 DEF SoundLineNext
<1>5. NoReply.turn = 0 /\ NoReply.view = NoTurns /\ Refused.turn = 0 /\ Refused.view = NoTurns
  BY DEF NoReply, Refused, Reply, Line
<1> QED BY <1>1, <1>2, <1>3, <1>4, <1>5

LEMMA MergedIsSound ==
  ASSUME NEW v \in View, NEW w \in View, SoundNext(v), SoundNext(w)
  PROVE  SoundNext(Merge(v, w))
<1> SUFFICES ASSUME NEW t \in DOMAIN Merge(v, w)
             PROVE  Merge(v, w)[t].msgs \subseteq turns'[t].msgs
  BY DEF SoundNext
<1>1. t \in DOMAIN v \cup DOMAIN w BY DEF Merge
<1>2. CASE t \notin DOMAIN v BY <1>1, <1>2 DEF Merge, SoundNext
<1>3. CASE t \in DOMAIN v /\ t \notin DOMAIN w BY <1>1, <1>3 DEF Merge, SoundNext
<1>4. CASE t \in DOMAIN v /\ t \in DOMAIN w
  <2>1. v[t] \in Turn BY <1>4, ViewElements
  <2>2. Merge(v, w)[t].msgs = v[t].msgs \cup w[t].msgs BY <1>1, <1>4, <2>1 DEF Merge, Turn
  <2> QED BY <1>4, <2>2 DEF SoundNext
<1> QED BY <1>1, <1>2, <1>3, <1>4

\* What was true before the step is true after it.
LEMMA Truths ==
  ASSUME QuietContext, Grown, ViewsAreTrue
  PROVE  /\ SoundNext(cache) /\ SoundNext(op.view) /\ SoundLineNext(op.reply) /\ SoundNext(op.reply.view)
         /\ \A l \in OnWire(wire) : SoundLineNext(l)
<1>1. TypeInv /\ op \in Operations /\ cache \in View /\ op.view \in View /\ op.reply \in Lines
  BY QuietFacts, TypedParts DEF Operations
<1>2. Exist(DOMAIN cache) /\ Exist(DOMAIN op.view) /\ Known(op.reply)
  BY QuietFacts DEF Context, MessageInvariant, KnownTurns, CacheKnown, HolderKnown
<1>3. SoundNext(cache) /\ SoundNext(op.view) /\ SoundLineNext(op.reply)
  BY <1>1, <1>2, StillSound DEF ViewsAreTrue
<1>4. \A l \in OnWire(wire) : SoundLineNext(l) BY <1>1, QuietFacts, StillSound DEF ViewsAreTrue
<1> QED BY <1>3, <1>4 DEF SoundLineNext

\* The views of a step that reads nothing but what was known.
LEMMA ViewsLearn ==
  ASSUME QuietContext, Grown, ViewsAreTrue,
         SoundNext(cache'),
         LearnsNothing \/ (SoundNext(op'.view) /\ SoundLineNext(op'.reply)),
         \A l \in OnWire(wire') : l \in OnWire(wire) \/ SoundLineNext(l)
  PROVE  ViewsAreTrue'
<1>1. TypeInv BY QuietFacts
<1>2. SoundNext(op'.view) /\ SoundLineNext(op'.reply) BY <1>1, Truths, StillSound DEF LearnsNothing
<1>3. \A l \in OnWire(wire') : SoundLineNext(l) BY Truths
<1> QED BY <1>2, <1>3 DEF ViewsAreTrue, Sound, SoundLine, SoundNext, SoundLineNext, OnWire

\* A browser was told the truth, and is if it is told now.
LEMMA VerdictLearns ==
  ASSUME Grown, AppliedIsTrue,
         \A m \in Msgs : verdict'[m] = "applied" => verdict[m] = "applied" \/ \E t \in DOMAIN turns : m \in turns[t].msgs
  PROVE  AppliedIsTrue'
<1> SUFFICES ASSUME NEW m \in Msgs, verdict'[m] = "applied"
             PROVE  \E t \in DOMAIN turns' : m \in turns'[t].msgs
  BY DEF AppliedIsTrue
<1>1. PICK t \in DOMAIN turns : m \in turns[t].msgs BY DEF AppliedIsTrue
<1> QED BY <1>1 DEF Grown

\* A step that makes no Turn keeps the baselines it does not take itself.
LEMMA BaselinesLearn ==
  ASSUME BaselinesAreLast, Grown, Len(turns') = Len(turns), TypeInv,
         uTurn' = uTurn \/ uTurn'.msg = NoMsg,
         Starting' => Starting /\ op'.base = op.base /\ op'.msg = op.msg,
         req'.kind = "start" => req' = req /\ op'.base = op.base /\ op'.msg = op.msg
  PROVE  BaselinesAreLast'
<1>1. ASSUME NEW base \in MaybeNumber, NEW m, FollowedBy(base, m)
      PROVE  Len(turns') = base \/ (Len(turns') = base + 1 /\ m \in turns'[base + 1].msgs)
  <2>1. CASE Len(turns) = base + 1 /\ m \in turns[base + 1].msgs
    <3>1. base + 1 \in DOMAIN turns BY <2>1, Places DEF MaybeNumber
    <3> QED BY <2>1, <3>1 DEF Grown
  <2> QED BY <1>1, <2>1 DEF FollowedBy
<1>2. op.base \in MaybeNumber /\ uTurn.base \in MaybeNumber BY TypedParts DEF Operations, SessionTypeOK
<1> QED BY <1>1, <1>2 DEF BaselinesAreLast, FollowedBy, Starting

\* No prompt comes but from a waiting call, and what was read stays so.
LEMMA PromptsLearn ==
  ASSUME PromptsKnowHistory,
         loaded' \in {loaded, "read"} \/ (loaded = "absent" /\ loaded' = "resumed"),
         Prompts(op') => Prompts(op) \/ \E w \in waiting : Prompts(w),
         Prompts(op') /\ op'.phase # "resume" => (Prompts(op) /\ op.phase # "resume") \/ loaded' # "absent",
         \A w \in waiting' : w \in waiting \/ ~Prompts(w)
  PROVE  PromptsKnowHistory'
<1>1. loaded = "read" => loaded' = "read" OBVIOUS
<1>2. loaded # "absent" => loaded' # "absent" OBVIOUS
<1>3. Prompts(op') \/ (\E w \in waiting' : Prompts(w)) => Prompts(op) \/ \E w \in waiting : Prompts(w) OBVIOUS
<1> QED BY <1>1, <1>2, <1>3 DEF PromptsKnowHistory, Prompts

LEMMA SnapshotIsComplete ==
  ASSUME ResultInvariant, ~Starting, HasHistory
  PROVE  ShowsLast(cache) \/ uTurn.msg # NoMsg
BY DEF ResultInvariant, CacheIsComplete, Unanswered

\* A line that comes to the wire is true, and an answer is what its asker may go by.
Answers(line) ==
  SoundLineNext(line) /\ (line.kind = "reply" => alive /\ (ReadsHistory /\ line.ok => ShowsLast(line.view)))

\* A step that the operation under way takes no part in.
LEMMA AsideLearns ==
  ASSUME QuietContext, ResultInvariant, Grown, Len(turns') = Len(turns),
         UNCHANGED <<op, loaded>>, req' \in {req, NoReq},
         UNCHANGED uTurn \/ (uTurn.msg = NoMsg /\ uTurn'.msg = NoMsg),
         SoundNext(cache'), DOMAIN cache \subseteq DOMAIN cache',
         \A l \in OnWire(wire') : l \in OnWire(wire) \/ Answers(l),
         \/ /\ \A l \in OnWire(wire) : l.kind = "reply" => l \in OnWire(wire')
            /\ ~alive /\ Awaiting("mutate") => ~alive'
         \/ ~alive' /\ \A l \in OnWire(wire') : l.kind # "reply",
         PromptsKnowHistory', AppliedIsTrue'
  PROVE  ResultInvariant'
<1>1. ViewsAreTrue' BY ViewsLearn DEF ResultInvariant, LearnsNothing, Answers
<1>2. ReadsAreWhole' BY DEF ResultInvariant, ReadsAreWhole, ReadsHistory, Whole, ShowsLast, OnWire, Answers
<1>3. CacheIsComplete'
  <2> SUFFICES ASSUME HasHistory'
               PROVE  ShowsLast(cache)' \/ uTurn'.msg # NoMsg \/ Unanswered'
    BY DEF CacheIsComplete
  <2>1. ShowsLast(cache) \/ uTurn.msg # NoMsg \/ Unanswered BY DEF ResultInvariant, CacheIsComplete, HasHistory
  <2>2. ShowsLast(cache) => ShowsLast(cache)' BY DEF ShowsLast
  <2>3. Unanswered => Unanswered'
    <3>1. CASE ~alive' /\ \A l \in OnWire(wire') : l.kind # "reply"
      BY <3>1 DEF Unanswered, Starting, IsNewest, OnWire
    <3>2. CASE /\ \A l \in OnWire(wire) : l.kind = "reply" => l \in OnWire(wire')
               /\ ~alive /\ Awaiting("mutate") => ~alive'
      BY <3>2 DEF Unanswered, Starting, IsNewest, OnWire, Awaiting, Answers
    <3> QED BY <3>1, <3>2
  <2> QED BY <2>1, <2>2, <2>3
<1>4. BaselinesAreLast' BY QuietFacts, NoOpMeans, BaselinesLearn DEF ResultInvariant, Starting
<1> QED BY <1>1, <1>2, <1>3, <1>4 DEF ResultInvariant

\* A step of the operation under way, other than to send its message.
LEMMA MoveLearns ==
  ASSUME QuietContext, ResultInvariant, UNCHANGED turns,
         \A l \in OnWire(wire') : l.kind # "reply" /\ (l \in OnWire(wire) \/ SoundLineNext(l)),
         op'.reply \in {NoReply, Refused}, ~Starting', req'.kind # "start",
         op'.view \in {op.view, NoTurns} \/ SoundNext(op'.view),
         SoundNext(cache'),
         op'.phase = "settle" => ShowsLast(cache'),
         HasHistory' => ShowsLast(cache') \/ uTurn'.msg # NoMsg,
         UNCHANGED uTurn \/ uTurn'.msg = NoMsg,
         PromptsKnowHistory', AppliedIsTrue'
  PROVE  ResultInvariant'
<1>1. TypeInv /\ Grown BY QuietFacts, SameGrown
<1>2. ViewsAreTrue'
  <2>1. SoundNext(op'.view) /\ SoundLineNext(op'.reply) BY <1>1, Truths, StillSound DEF ResultInvariant
  <2> QED BY <1>1, <2>1, ViewsLearn DEF ResultInvariant
<1>3. ReadsAreWhole'
  <2>1. Refused.kind = "reply" /\ ~Refused.ok /\ NoReply.kind # "reply" BY DEF Refused, NoReply, Reply, Line
  <2> QED BY <2>1 DEF ReadsAreWhole, Whole, ShowsLast, OnWire
<1>4. CacheIsComplete' BY DEF CacheIsComplete, ShowsLast
<1>5. BaselinesAreLast' BY <1>1, BaselinesLearn DEF ResultInvariant
<1> QED BY <1>2, <1>3, <1>4, <1>5 DEF ResultInvariant

LEMMA HolderLearns ==
  ASSUME QuietContext, ResultInvariant, UNCHANGED <<turns, wire>>,
         op.reply # NoReply \/ op.phase \notin Awaits,
         op'.reply \in {NoReply, Refused}, ~Starting', req'.kind # "start",
         op'.view \in {op.view, NoTurns} \/ SoundNext(op'.view),
         SoundNext(cache'),
         op'.phase = "settle" => ShowsLast(cache'),
         HasHistory' => ShowsLast(cache') \/ uTurn'.msg # NoMsg,
         UNCHANGED uTurn \/ uTurn'.msg = NoMsg,
         PromptsKnowHistory', AppliedIsTrue'
  PROVE  ResultInvariant'
<1>1. \A l \in OnWire(wire') : l.kind # "reply" /\ l \in OnWire(wire) BY QuietFacts DEF OnWire, NoReplies
<1> QED BY <1>1, MoveLearns

LEMMA SameVerdict ==
  ASSUME TypeInv, ResultInvariant, UNCHANGED <<turns, verdict>>
  PROVE  AppliedIsTrue'
BY DEF ResultInvariant, AppliedIsTrue

LEMMA QuietStepsLearn ==
  ASSUME QuietContext, ResultInvariant, HistoryKnown,
         \/ \E m \in Msgs : AcceptStart(m) \/ AcceptScheduled(m) \/ AcceptSteer(m)
         \/ AcceptResolve
         \/ ListDisconnected
         \/ FinishTimer
  PROVE  ResultInvariant'
<1>1. /\ UNCHANGED <<turns, alive, req, wire, op, cache, loaded, uTurn>>
      /\ UNCHANGED <<waiting, verdict>> \/ AcceptResolve \/ \E m \in Msgs : AcceptStart(m) \/ AcceptScheduled(m) \/ AcceptSteer(m)
  BY DEF AcceptStart, AcceptScheduled, AcceptSteer, Accept, AcceptResolve, ListDisconnected, FinishTimer,
    server, transport, session, history
<1>2. TypeInv /\ Grown BY <1>1, QuietFacts, SameGrown
<1>3. PromptsKnowHistory'
  <2>1. CASE \E m \in Msgs : AcceptStart(m) \/ AcceptScheduled(m)
    <3>1. loaded = "read" \/ ~Paginated BY <2>1 DEF AcceptStart, AcceptScheduled, MayPrompt, HistoryKnown
    <3> QED BY <1>1, <3>1 DEF ResultInvariant, PromptsKnowHistory, Prompts
  <2>2. ASSUME NEW m \in Msgs, AcceptSteer(m)
        PROVE  PromptsKnowHistory'
    <3>1. waiting' = waiting \cup {[kind |-> "steer", msg |-> m, turn |-> reg.active]}
      BY <2>2 DEF AcceptSteer, Accept
    <3>2. \A w \in waiting' : w \in waiting \/ ~Prompts(w) BY <3>1 DEF Prompts
    <3> QED BY <1>1, <3>2, PromptsLearn DEF ResultInvariant
  <2>3. CASE AcceptResolve
    <3>1. \A w \in waiting' : w \in waiting \/ ~Prompts(w) BY <2>3 DEF AcceptResolve, Resolution, Prompts
    <3> QED BY <1>1, <3>1, PromptsLearn DEF ResultInvariant
  <2>4. CASE UNCHANGED waiting BY <1>1, <2>4, PromptsLearn DEF ResultInvariant
  <2> QED BY <1>1, <2>1, <2>2, <2>3, <2>4
<1>4. AppliedIsTrue'
  <2>1. \A m \in Msgs : verdict'[m] = "applied" => verdict[m] = "applied"
    <3>1. ASSUME NEW k \in Msgs, verdict' = [verdict EXCEPT ![k] = "none"]
          PROVE  \A m \in Msgs : verdict'[m] = "applied" => verdict[m] = "applied"
      BY <1>2, <3>1, TypedParts DEF HistoryTypeOK
    <3>2. UNCHANGED verdict \/ \E k \in Msgs : verdict' = [verdict EXCEPT ![k] = "none"]
      BY <1>1 DEF AcceptStart, AcceptScheduled, AcceptSteer, Accept, AcceptResolve, history
    <3> QED BY <3>1, <3>2
  <2> QED BY <1>2, <2>1, VerdictLearns DEF ResultInvariant
<1> QED BY <1>1, <1>2, <1>3, <1>4, Truths, AsideLearns DEF ResultInvariant

----
(* Operations take the lock. *)

\* An operation that asks, or waits to go on.
LEMMA AskLearns ==
  ASSUME QuietContext, ResultInvariant, UNCHANGED <<turns, wire, cache, loaded, uTurn, verdict>>,
         op.reply # NoReply \/ op.phase \notin Awaits, ~Starting,
         op'.reply \in {NoReply, Refused}, op'.view \in {op.view, NoTurns},
         op'.phase \notin {"mutate", "settle"}, req'.kind # "start",
         Prompts(op') => Prompts(op) \/ \E w \in waiting : Prompts(w),
         Prompts(op') /\ op'.phase # "resume" => (Prompts(op) /\ op.phase # "resume") \/ loaded # "absent",
         waiting' \subseteq waiting
  PROVE  ResultInvariant'
<1>1. TypeInv /\ Grown BY QuietFacts, SameGrown
<1>2. AppliedIsTrue' BY <1>1, SameVerdict
<1>3. PromptsKnowHistory' BY PromptsLearn DEF ResultInvariant
<1>4. HasHistory' => ShowsLast(cache') \/ uTurn'.msg # NoMsg BY SnapshotIsComplete DEF HasHistory
<1>5. SoundNext(cache') BY <1>1, Truths DEF ResultInvariant
<1> QED BY <1>2, <1>3, <1>4, <1>5, HolderLearns DEF Starting

LEMMA ReadAsked ==
  ASSUME QuietContext, op.reply # NoReply \/ op.phase \notin Awaits,
         NEW o \in Operations, NEW phase \in {"resume", "read"}, Ask(o, phase, NoMsg, 0)
  PROVE  /\ op'.kind = o.kind /\ op'.phase = phase /\ op'.reply \in {NoReply, Refused} /\ op'.view = o.view
         /\ req'.kind # "start"
<1>1. req.kind = "none" BY QuietFacts
<1> QED BY <1>1, AskMeans DEF Awaits

LEMMA TurnedAwayLearns ==
  ASSUME QuietContext, ResultInvariant, LockFree, waiting' \subseteq waiting,
         UNCHANGED <<turns, wire, cache, loaded, uTurn, verdict, op, req>>
  PROVE  ResultInvariant'
<1>1. op.phase = "none" /\ op.reply = op'.reply /\ op.kind = "none"
  BY QuietFacts DEF LockFree, TypeInv, MessagesInFlight
<1>2. req.kind = "none" /\ op.phase \notin Awaits BY <1>1, QuietFacts DEF Awaits
<1>3. PromptsKnowHistory' BY PromptsLearn DEF ResultInvariant
<1>4. TypeInv /\ Grown /\ AppliedIsTrue' BY QuietFacts, SameGrown, SameVerdict
<1> QED BY <1>1, <1>3, <1>4, Truths, AsideLearns DEF ResultInvariant, Awaiting

LEMMA BeginStartLearns ==
  ASSUME QuietContext, ResultInvariant, NEW m \in waiting, BeginStart(m) \/ BeginScheduled(m)
  PROVE  ResultInvariant'
<1>1. /\ LockFree /\ waiting' \subseteq waiting
      /\ UNCHANGED <<turns, wire, cache, loaded, uTurn, verdict>>
  BY DEF BeginStart, BeginScheduled, Take, transport, history
<1>2. /\ op.phase = "none" /\ ~Starting /\ op.phase \notin Awaits
  BY <1>1, QuietFacts DEF LockFree, TypeInv, MessagesInFlight, Starting, Awaits
<1>3. m.kind \in {"start", "scheduled"} => m.msg \in MaybeMsg /\ Prompts(m)
  BY Constants, QuietFacts DEF TypeInv, MessagesInFlight, Prompts
<1>4. CASE UNCHANGED <<op, req>> BY <1>1, <1>4, TurnedAwayLearns
<1>5. ASSUME NEW kind \in {"start", "scheduled"}, m.kind = kind,
             Ask([Operation(kind, "resume") EXCEPT !.msg = m.msg], "resume", NoMsg, 0)
      PROVE  ResultInvariant'
  <2> DEFINE o == [Operation(kind, "resume") EXCEPT !.msg = m.msg]
  <2>1. o \in Operations /\ o.kind = kind /\ o.view = NoTurns
    <3>1. Operation(kind, "resume") \in Operations /\ Operation(kind, "resume").view = NoTurns
      BY OperationTypes DEF Operation, NoOp
    <3> QED BY <1>3, <1>5, <3>1, OperationTypes DEF Operations
  <2> HIDE DEF o
  <2>2. Ask(o, "resume", NoMsg, 0) BY <1>5 DEF o
  <2>3. /\ op'.phase = "resume" /\ op'.reply \in {NoReply, Refused} /\ op'.view = NoTurns
        /\ req'.kind # "start"
    BY <1>2, <2>1, <2>2, ReadAsked
  <2> QED BY <1>1, <1>2, <1>3, <1>5, <2>3, AskLearns
<1>6. CASE /\ op' = [Operation("start", "ready") EXCEPT !.msg = m.msg] /\ UNCHANGED req
           /\ loaded # "absent" /\ m.kind = "start"
  <2>1. op'.phase = "ready" /\ op'.reply = NoReply /\ op'.view = NoTurns BY <1>6 DEF Operation, NoOp
  <2>2. req'.kind # "start" BY <1>2, <1>6, QuietFacts
  <2> QED BY <1>1, <1>2, <1>3, <1>6, <2>1, <2>2, AskLearns
<1>7. CASE BeginStart(m) BY <1>4, <1>5, <1>6, <1>7 DEF BeginStart, Take
<1>8. CASE BeginScheduled(m) BY <1>4, <1>5, <1>8 DEF BeginScheduled, Take
<1> QED BY <1>7, <1>8

LEMMA BeginSteerLearns ==
  ASSUME QuietContext, ResultInvariant, NEW m \in waiting, BeginSteer(m)
  PROVE  ResultInvariant'
<1>1. /\ LockFree /\ waiting' \subseteq waiting
      /\ UNCHANGED <<turns, req, wire, cache, loaded, uTurn, verdict>>
  BY DEF BeginSteer, Take, transport, server, history
<1>2. /\ op.phase = "none" /\ ~Starting /\ op.phase \notin Awaits
  BY <1>1, QuietFacts DEF LockFree, TypeInv, MessagesInFlight, Starting, Awaits
<1>3. CASE UNCHANGED op BY <1>1, <1>3, TurnedAwayLearns
<1>4. CASE op' = [Operation("steer", "ready") EXCEPT !.msg = m.msg, !.turn = m.turn]
  <2>1. op'.phase = "ready" /\ op'.reply = NoReply /\ op'.view = NoTurns /\ op'.kind = "steer"
    BY <1>4 DEF Operation, NoOp
  <2>2. req'.kind # "start" /\ ~Prompts(op') BY <1>1, <1>2, <2>1, QuietFacts DEF Prompts
  <2> QED BY <1>1, <1>2, <2>1, <2>2, AskLearns
<1> QED BY <1>3, <1>4 DEF BeginSteer

LEMMA BeginReadLearns ==
  ASSUME QuietContext, ResultInvariant, BeginRead \/ BeginReconcile
  PROVE  ResultInvariant'
<1>1. /\ LockFree /\ UNCHANGED <<turns, wire, cache, loaded, uTurn, verdict, waiting>>
      /\ \E kind \in {"read", "reconcile"} : Ask(Operation(kind, "resume"), "resume", NoMsg, 0)
  BY DEF BeginRead, BeginReconcile, transport, history
<1>2. /\ op.phase = "none" /\ ~Starting /\ op.phase \notin Awaits
  BY <1>1, QuietFacts DEF LockFree, TypeInv, MessagesInFlight, Starting, Awaits
<1>3. PICK kind \in {"read", "reconcile"} : Ask(Operation(kind, "resume"), "resume", NoMsg, 0) BY <1>1
<1>4. /\ Operation(kind, "resume") \in Operations /\ Operation(kind, "resume").kind = kind
      /\ Operation(kind, "resume").view = NoTurns
  <2>1. Operation(kind, "resume") \in Operations /\ Operation(kind, "resume").kind = kind
    BY <1>3, OperationTypes
  <2>2. Operation(kind, "resume").view = NoTurns BY DEF Operation, NoOp
  <2> QED BY <2>1, <2>2
<1>5. /\ op'.kind = kind /\ op'.phase = "resume" /\ op'.reply \in {NoReply, Refused} /\ op'.view = NoTurns
      /\ req'.kind # "start"
  BY <1>2, <1>3, <1>4, ReadAsked
<1>6. ~Prompts(op') BY <1>3, <1>5 DEF Prompts
<1> QED BY <1>1, <1>2, <1>5, <1>6, AskLearns

LEMMA BeginResolveLearns ==
  ASSUME QuietContext, ResultInvariant, BeginResolve
  PROVE  ResultInvariant'
<1> DEFINE o == [Operation("resolve", "read") EXCEPT !.msg = uSteer.msg, !.turn = uSteer.turn, !.base = uTurn.base]
<1>1. /\ LockFree /\ waiting' \subseteq waiting /\ UNCHANGED <<turns, wire, cache, loaded, uTurn, verdict>>
      /\ UNCHANGED <<op, req>> \/ Ask(o, "read", NoMsg, 0)
  BY DEF BeginResolve, Take, transport, history
<1>2. /\ op.phase = "none" /\ ~Starting /\ op.phase \notin Awaits
  BY <1>1, QuietFacts DEF LockFree, TypeInv, MessagesInFlight, Starting, Awaits
<1>3. o \in Operations /\ o.kind = "resolve" /\ o.view = NoTurns
  <2>1. Operation("resolve", "read") \in Operations /\ Operation("resolve", "read").view = NoTurns
    BY OperationTypes DEF Operation, NoOp
  <2> QED BY <2>1, QuietFacts, OperationTypes, PendingParts DEF Operations
<1> HIDE DEF o
<1>4. CASE UNCHANGED <<op, req>> BY <1>1, <1>4, TurnedAwayLearns
<1>5. CASE Ask(o, "read", NoMsg, 0)
  <2>1. /\ op'.kind = "resolve" /\ op'.phase = "read" /\ op'.reply \in {NoReply, Refused} /\ op'.view = NoTurns
        /\ req'.kind # "start"
    BY <1>2, <1>3, <1>5, ReadAsked
  <2>2. ~Prompts(op') BY <2>1 DEF Prompts
  <2> QED BY <1>1, <1>2, <2>1, <2>2, AskLearns
<1> QED BY <1>1, <1>4, <1>5

----
(* Operations continue. *)

\* The holder of the lock goes on with an answer it has.
LEMMA HolderFacts ==
  ASSUME QuietContext, op.reply # NoReply \/ op.phase \notin Awaits
  PROVE  /\ TypeInv /\ op \in Operations /\ cache \in View /\ op.view \in View
         /\ op.reply \in Lines /\ op.reply.view \in View
         /\ req.kind = "none" /\ Exist(DOMAIN cache) /\ Exist(DOMAIN op.view) /\ Exist(DOMAIN op.reply.view)
         /\ MessageInvariant /\ StartInvariant
<1>1. TypeInv /\ req.kind = "none" /\ MessageInvariant /\ StartInvariant BY QuietFacts DEF Context
<1>2. op \in Operations /\ cache \in View /\ op.view \in View /\ op.reply.view \in View BY <1>1, TypedParts
<1>3. op.reply \in Lines BY <1>2 DEF Operations
<1>4. Exist(DOMAIN cache) /\ Exist(DOMAIN op.view) /\ Exist(DOMAIN op.reply.view)
  BY <1>1 DEF MessageInvariant, KnownTurns, CacheKnown, HolderKnown, Known
<1> QED BY <1>1, <1>2, <1>3, <1>4

LEMMA ResumedLearns ==
  ASSUME QuietContext, ResultInvariant, Resumed
  PROVE  ResultInvariant'
<1>1. /\ UNCHANGED <<turns, wire, uTurn, verdict, waiting>>
      /\ op.phase = "resume" /\ op.reply # NoReply /\ ~Starting
  BY DEF Resumed, Settled, transport, history, Starting
<1>2. /\ TypeInv /\ Grown /\ op \in Operations /\ cache \in View /\ op.reply.view \in View
      /\ req.kind = "none"
  BY <1>1, HolderFacts, SameGrown
<1>3. CASE Release(op.kind) /\ UNCHANGED <<req, cache, loaded>>
  <2>1. op' = NoOp /\ ~Prompts(NoOp) BY <1>3, NoOpMeans DEF Release, Prompts
  <2> QED BY <1>1, <1>2, <1>3, <2>1, NoOpMeans, AskLearns
<1>4. CASE op.reply.ok
  <2>1. /\ cache' = Merge(op.reply.view, cache)
        /\ loaded' = IF loaded = "absent" THEN "resumed" ELSE loaded
    BY <1>4 DEF Resumed
  <2>2. SoundNext(cache') BY <1>2, <2>1, Truths, MergedIsSound DEF ResultInvariant
  <2>3. HasHistory' => ShowsLast(cache') \/ uTurn'.msg # NoMsg
    <3>1. CASE loaded = "absent"
      <4>1. HasHistory' => ReadsHistory BY <1>1, <2>1, <3>1 DEF HasHistory, ReadsHistory
      <4>2. ReadsHistory => ShowsLast(op.reply.view) BY <1>1, <1>4 DEF ResultInvariant, ReadsAreWhole, Whole
      <4>3. DOMAIN op.reply.view \subseteq DOMAIN cache' BY <2>1 DEF Merge
      <4> QED BY <1>1, <4>1, <4>2, <4>3 DEF ShowsLast
    <3>2. CASE loaded # "absent"
      <4>1. HasHistory' => HasHistory BY <2>1, <3>2 DEF HasHistory
      <4>2. DOMAIN cache \subseteq DOMAIN cache' BY <2>1 DEF Merge
      <4> QED BY <1>1, <4>1, <4>2, SnapshotIsComplete DEF ShowsLast
    <3> QED BY <3>1, <3>2
  <2>4. /\ op'.kind = op.kind /\ op'.phase \in {"ready", "read"} /\ op'.reply \in {NoReply, Refused}
        /\ op'.view = op.view /\ req'.kind # "start"
    <3>1. CASE op' = [op EXCEPT !.phase = "ready", !.reply = NoReply] /\ UNCHANGED req
      BY <1>2, <3>1 DEF Operations
    <3>2. CASE Ask(op, "read", NoMsg, 0) BY <1>1, <1>2, <3>2, ReadAsked
    <3> QED BY <1>4, <3>1, <3>2 DEF Resumed
  <2>5. PromptsKnowHistory' BY <1>1, <2>1, <2>4, PromptsLearn DEF ResultInvariant, Prompts
  <2>6. AppliedIsTrue' BY <1>1, <1>2, SameVerdict
  <2> QED BY <1>1, <2>2, <2>3, <2>4, <2>5, <2>6, HolderLearns DEF Starting
<1> QED BY <1>3, <1>4 DEF Resumed

LEMMA DelayOverLearns ==
  ASSUME QuietContext, ResultInvariant, DelayOver
  PROVE  ResultInvariant'
<1>1. /\ UNCHANGED <<turns, wire, cache, loaded, uTurn, verdict, waiting>>
      /\ op.phase = "delay" /\ Ask(op, "read", NoMsg, 0) /\ ~Starting /\ op.phase \notin Awaits
  BY DEF DelayOver, transport, history, Starting, Awaits
<1>2. op \in Operations BY <1>1, HolderFacts
<1>3. /\ op'.kind = op.kind /\ op'.phase = "read" /\ op'.reply \in {NoReply, Refused} /\ op'.view = op.view
      /\ req'.kind # "start"
  BY <1>1, <1>2, ReadAsked
<1> QED BY <1>1, <1>3, AskLearns DEF Prompts

\* A snapshot with the last Turn shows whether an uncertain start made one.
LEMMA StartIsApplied ==
  ASSUME QuietContext, ResultInvariant, uTurn.msg # NoMsg,
         NEW view \in View, Exist(DOMAIN view), ShowsLast(view), StartApplied(view, uTurn.base)
  PROVE  \E t \in DOMAIN turns : uTurn.msg \in turns[t].msgs
<1>1. TypeInv /\ uTurn.base \in MaybeNumber BY QuietFacts, PendingParts
<1>2. FollowedBy(uTurn.base, uTurn.msg) BY DEF ResultInvariant, BaselinesAreLast
<1>3. LastOf(view) # 0 /\ LastOf(view) # uTurn.base BY DEF StartApplied
<1>4. LastOf(view) \in DOMAIN view BY <1>3, LastOfType DEF LastOf
<1>5. LastOf(view) \in Numbers /\ LastOf(view) <= Len(turns) /\ Len(turns) \in Nat
  BY <1>1, <1>4, ViewElements, Places DEF Exist
<1>6. Len(turns) <= LastOf(view) BY <1>5, LastOfType, ConstantsAssumption DEF ShowsLast, Numbers
<1>7. LastOf(view) = Len(turns) BY <1>5, <1>6, ConstantsAssumption DEF Numbers
<1>8. Len(turns) = uTurn.base + 1 /\ uTurn.msg \in turns[uTurn.base + 1].msgs BY <1>2, <1>3, <1>7 DEF FollowedBy
<1>9. uTurn.base + 1 \in DOMAIN turns BY <1>1, <1>8, Places, ConstantsAssumption DEF MaybeNumber
<1> QED BY <1>8, <1>9

LEMMA SteerIsApplied ==
  ASSUME QuietContext, NEW view \in View, Exist(DOMAIN view), Sound(view),
         Contains(view, uSteer.turn, uSteer.msg)
  PROVE  \E t \in DOMAIN turns : uSteer.msg \in turns[t].msgs
<1>1. uSteer.turn \in DOMAIN view /\ uSteer.msg \in view[uSteer.turn].msgs BY DEF Contains
<1>2. uSteer.turn \in DOMAIN turns BY <1>1, QuietFacts, ExistingTurns
<1> QED BY <1>1, <1>2 DEF Sound

\* What the browsers are told to be applied is.
LEMMA TellLearns ==
  ASSUME QuietContext, ResultInvariant, UNCHANGED turns, NEW published, verdict' = TellApplied(published),
         published /\ uTurn.msg # NoMsg => \E t \in DOMAIN turns : uTurn.msg \in turns[t].msgs,
         published /\ uSteer.msg # NoMsg => \E t \in DOMAIN turns : uSteer.msg \in turns[t].msgs
  PROVE  AppliedIsTrue'
<1>1. TypeInv /\ Grown BY QuietFacts, SameGrown
<1>2. ASSUME NEW m \in Msgs, verdict'[m] = "applied"
      PROVE  verdict[m] = "applied" \/ \E t \in DOMAIN turns : m \in turns[t].msgs
  <2>1. m # NoMsg BY ConstantsAssumption
  <2>2. verdict'[m] = IF published /\ m \in {uTurn.msg, uSteer.msg} THEN "applied" ELSE verdict[m]
    BY DEF TellApplied
  <2> QED BY <1>2, <2>1, <2>2
<1> QED BY <1>1, <1>2, VerdictLearns DEF ResultInvariant

\* The holder of the lock has read the session, and goes on or is done.
LEMMA ReaderLearns ==
  ASSUME QuietContext, ResultInvariant, op.phase = "read", op.reply # NoReply,
         UNCHANGED <<turns, req, wire, waiting>>, UNCHANGED uTurn \/ uTurn'.msg = NoMsg,
         \/ UNCHANGED <<cache, loaded, uTurn>>
         \/ loaded' = "read" /\ SoundNext(cache') /\ ShowsLast(cache)',
         op'.reply = NoReply, op'.phase \notin {"mutate", "settle"},
         op'.view \in {op.view, NoTurns} \/ SoundNext(op'.view),
         Prompts(op') => Prompts(op),
         AppliedIsTrue'
  PROVE  ResultInvariant'
<1>1. TypeInv /\ Grown /\ req'.kind # "start" /\ ~Starting BY HolderFacts, SameGrown DEF Starting
<1>2. SoundNext(cache') BY <1>1, Truths DEF ResultInvariant
<1>3. HasHistory' => ShowsLast(cache') \/ uTurn'.msg # NoMsg
  BY <1>1, SnapshotIsComplete DEF HasHistory, ShowsLast
<1>4. PromptsKnowHistory'
  <2>1. Prompts(op) => loaded' # "absent" BY DEF ResultInvariant, PromptsKnowHistory
  <2> QED BY <2>1, PromptsLearn DEF ResultInvariant
<1> QED BY <1>1, <1>2, <1>3, <1>4, HolderLearns DEF Starting

LEMMA ProceedingFields ==
  ASSUME QuietContext, op.phase = "read", op.reply # NoReply, NEW r, NEW u, Proceed(r, u) \/ Release(op.kind)
  PROVE  /\ op'.reply = NoReply /\ op'.phase \notin {"mutate", "settle"} /\ op'.view = NoTurns
         /\ Prompts(op') => Prompts(op)
<1>1. CASE op' = NoOp BY <1>1, NoOpMeans DEF Prompts
<1>2. CASE op.kind = "scheduled" /\ op' = [Operation("start", "ready") EXCEPT !.msg = op.msg]
  <2>1. op'.reply = NoReply /\ op'.phase = "ready" /\ op'.view = NoTurns BY <1>2 DEF Operation, NoOp
  <2> QED BY <1>2, <2>1 DEF Prompts
<1> QED BY <1>1, <1>2 DEF Proceed, Release

LEMMA RetryingFields ==
  ASSUME QuietContext, op.phase = "read", op.reply # NoReply, NEW view \in View, Retry(view)
  PROVE  /\ op'.reply = NoReply /\ op'.phase \notin {"mutate", "settle"} /\ op'.view \in {NoTurns, view}
         /\ Prompts(op') => Prompts(op)
<1>1. op \in Operations BY HolderFacts
<1> DEFINE o == [op EXCEPT !.phase = "delay", !.reply = NoReply, !.tries = op.tries + 1, !.view = view]
<1>2. o.phase = "delay" /\ o.reply = NoReply /\ o.view = view /\ o.kind = op.kind BY <1>1, DelayFields
<1> HIDE DEF o
<1>3. Proceed(reg', uTurn') \/ op' = o BY DEF Retry, o
<1>4. CASE op' = o BY <1>2, <1>4 DEF Prompts
<1>5. CASE Proceed(reg', uTurn') BY <1>5, ProceedingFields
<1> QED BY <1>3, <1>4, <1>5

LEMMA ReconcileRuntimeLearns ==
  ASSUME QuietContext, ResultInvariant, op.phase = "read", op.reply # NoReply,
         UNCHANGED <<turns, req, wire, waiting>>,
         NEW view \in View, Exist(DOMAIN view), SoundNext(view), ShowsLast(view), ReconcileRuntime(view)
  PROVE  ResultInvariant'
<1> DEFINE r == ReconcileSnapshot(reg, view, FALSE)
           applied == uTurn.msg # NoMsg /\ StartApplied(view, uTurn.base)
<1>1. /\ cache' = view /\ loaded' = "read"
      /\ uTurn' \in {uTurn, NoUncertainTurn}
      /\ Proceed(reg', uTurn') \/ Retry(view)
  BY DEF ReconcileRuntime
<1>2. /\ op'.reply = NoReply /\ op'.phase \notin {"mutate", "settle"} /\ op'.view \in {NoTurns, view}
      /\ Prompts(op') => Prompts(op)
  BY <1>1, ProceedingFields, RetryingFields
<1>3. Sound(view) BY DEF Sound, SoundNext
<1>4. AppliedIsTrue'
  <2>1. CASE UNCHANGED verdict BY <2>1, SameVerdict, QuietFacts
  <2>2. CASE /\ uSteer.msg # NoMsg /\ Contains(view, uSteer.turn, uSteer.msg)
             /\ verdict' = TellApplied(TRUE)
    <3>1. uTurn.msg = NoMsg BY <2>2 DEF QuietContext, PendingInvariant, PendingIsShown, Pending
    <3> QED BY <1>3, <2>2, <3>1, SteerIsApplied, TellLearns
  <2>3. ASSUME uSteer.msg = NoMsg, verdict' = TellApplied(r.published \/ (applied /\ r.outcome = "unresolved"))
        PROVE  AppliedIsTrue'
    <3>1. ASSUME r.published, uTurn.msg # NoMsg PROVE applied
      <4>1. ShowsPending(reg) /\ reg.baseline = uTurn.base /\ reg \in Runtime
        BY <3>1, QuietFacts, TypedParts DEF QuietContext, PendingInvariant, PendingIsShown, Pending
      <4>2. LastOf(view) \notin {0, reg.baseline} BY <3>1, <4>1, ReconcilePending DEF r
      <4> QED BY <3>1, <4>1, <4>2 DEF applied, StartApplied
    <3>2. applied => \E t \in DOMAIN turns : uTurn.msg \in turns[t].msgs BY StartIsApplied
    <3> DEFINE published == r.published \/ (applied /\ r.outcome = "unresolved")
    <3>3. published /\ uTurn.msg # NoMsg => applied BY <3>1
    <3>4. verdict' = TellApplied(published) BY <2>3
    <3> HIDE DEF published, applied, r
    <3> QED BY <2>3, <3>2, <3>3, <3>4, TellLearns
  <2> QED BY <2>1, <2>2, <2>3 DEF ReconcileRuntime, r, applied
<1>5. ShowsLast(cache)' /\ SoundNext(cache') BY <1>1 DEF ShowsLast
<1>6. UNCHANGED uTurn \/ uTurn'.msg = NoMsg BY <1>1, NoOpMeans
<1>7. op'.view \in {op.view, NoTurns} \/ SoundNext(op'.view) BY <1>2
<1> QED BY <1>1, <1>2, <1>4, <1>5, <1>6, <1>7, ReaderLearns

LEMMA ReadDoneLearns ==
  ASSUME QuietContext, ResultInvariant, ReadDone
  PROVE  ResultInvariant'
<1> DEFINE view == IF op.tries > 0 THEN Merge(op.reply.view, op.view)
                   ELSE IF op.kind = "read" THEN Merge(op.reply.view, cache)
                   ELSE op.reply.view
<1>1. /\ UNCHANGED <<turns, req, wire, waiting>>
      /\ op.phase = "read" /\ op.reply # NoReply
  BY DEF ReadDone, Settled, server, transport
<1>2. /\ TypeInv /\ Grown /\ cache \in View /\ op.view \in View /\ op.reply.view \in View
      /\ Exist(DOMAIN cache) /\ Exist(DOMAIN op.view) /\ Exist(DOMAIN op.reply.view)
  BY <1>1, HolderFacts, SameGrown
<1>3. SoundNext(cache) /\ SoundNext(op.view) /\ SoundNext(op.reply.view) BY <1>2, Truths DEF ResultInvariant
<1>4. view \in View /\ SoundNext(view) /\ Exist(DOMAIN view) BY <1>2, <1>3, MergeType, MergedIsSound, KnownFacts
<1>5. op.reply.ok => ShowsLast(view)
  <2>1. op.reply.ok => ShowsLast(op.reply.view) BY <1>1 DEF ResultInvariant, ReadsAreWhole, ReadsHistory, Whole
  <2>2. DOMAIN op.reply.view \subseteq DOMAIN view BY DEF Merge
  <2> QED BY <2>1, <2>2 DEF ShowsLast
<1> HIDE DEF view
<1>6. CASE UNCHANGED <<uTurn, verdict>> /\ (Release(op.kind) \/ (op.reply.ok /\ Proceed(reg, uTurn)))
  <2>1. /\ op'.reply = NoReply /\ op'.phase \notin {"mutate", "settle"} /\ op'.view = NoTurns
        /\ Prompts(op') => Prompts(op)
    BY <1>1, <1>6, ProceedingFields
  <2>2. AppliedIsTrue' BY <1>1, <1>2, <1>6, SameVerdict
  <2>3. UNCHANGED <<cache, loaded>> \/ (op.reply.ok /\ cache' = view /\ loaded' = "read")
    BY DEF ReadDone, ReconcileRuntime, view
  <2>4. UNCHANGED <<cache, loaded>> \/ (loaded' = "read" /\ SoundNext(cache') /\ ShowsLast(cache)')
    BY <1>1, <1>4, <1>5, <2>3 DEF ShowsLast
  <2> QED BY <1>1, <1>6, <2>1, <2>2, <2>4, ReaderLearns
<1>7. CASE op.reply.ok /\ ReconcileRuntime(view) BY <1>1, <1>4, <1>5, <1>7, ReconcileRuntimeLearns
<1> QED BY <1>6, <1>7 DEF ReadDone, view

LEMMA ResolveReadLearns ==
  ASSUME QuietContext, ResultInvariant, ResolveRead
  PROVE  ResultInvariant'
<1> DEFINE view == Merge(op.reply.view, cache)
           steer == op.msg # NoMsg
           applied == IF steer THEN Contains(view, op.turn, op.msg) ELSE StartApplied(view, op.base)
           settling == [op EXCEPT !.phase = "settle", !.reply = NoReply, !.view = view,
                                  !.msg = IF steer THEN op.msg ELSE uTurn.msg]
<1>1. /\ UNCHANGED <<turns, req, wire, waiting>>
      /\ op.phase = "read" /\ op.reply # NoReply /\ op.kind = "resolve" /\ ~Starting
  BY DEF ResolveRead, Settled, server, transport, Starting
<1>2. /\ TypeInv /\ Grown /\ op \in Operations /\ cache \in View /\ op.reply.view \in View
      /\ Exist(DOMAIN cache) /\ Exist(DOMAIN op.reply.view) /\ req.kind = "none" /\ MessageInvariant
  BY <1>1, HolderFacts, SameGrown
<1>3. view \in View /\ SoundNext(view) /\ Exist(DOMAIN view)
  <2>1. SoundNext(cache) /\ SoundNext(op.reply.view) BY <1>2, Truths DEF ResultInvariant
  <2> QED BY <1>2, <2>1, MergeType, MergedIsSound, KnownFacts
<1>4. op.reply.ok => ShowsLast(view)
  <2>1. op.reply.ok => ShowsLast(op.reply.view) BY <1>1 DEF ResultInvariant, ReadsAreWhole, ReadsHistory, Whole
  <2>2. DOMAIN op.reply.view \subseteq DOMAIN view BY DEF Merge
  <2> QED BY <2>1, <2>2 DEF ShowsLast
<1>5. /\ op.msg = uSteer.msg /\ op.turn = uSteer.turn
      /\ uTurn.msg # NoMsg => uTurn.base = op.base
  BY <1>1, <1>2 DEF MessageInvariant, Whereabouts, ResolvesWhatItFound
<1>6. uTurn.msg = NoMsg \/ uSteer.msg = NoMsg BY DEF QuietContext, PendingInvariant, PendingIsShown, Pending
<1>7. Sound(view) BY <1>1, <1>3 DEF Sound, SoundNext
<1>8. ~op.reply.ok => Release(op.kind) /\ UNCHANGED <<cache, loaded, uTurn, uSteer, reg, verdict>>
  BY DEF ResolveRead
<1>9. op.reply.ok =>
        /\ cache' = view /\ loaded' = "read"
        /\ IF applied
           THEN /\ IF steer THEN uSteer' = NoUncertainSteer /\ UNCHANGED uTurn
                            ELSE uTurn' = NoUncertainTurn /\ UNCHANGED uSteer
                /\ verdict' = TellApplied(TRUE) /\ Release(op.kind)
           ELSE op' = settling /\ UNCHANGED <<uTurn, verdict>>
  BY DEF ResolveRead
<1>10. applied /\ op.reply.ok =>
          /\ uTurn.msg # NoMsg => \E t \in DOMAIN turns : uTurn.msg \in turns[t].msgs
          /\ uSteer.msg # NoMsg => \E t \in DOMAIN turns : uSteer.msg \in turns[t].msgs
  <2>1. applied /\ op.reply.ok /\ uTurn.msg # NoMsg => StartApplied(view, uTurn.base) /\ ShowsLast(view)
    BY <1>4, <1>5, <1>6
  <2>2. applied /\ uSteer.msg # NoMsg => Contains(view, uSteer.turn, uSteer.msg) BY <1>5
  <2> HIDE DEF applied, view
  <2> QED BY <1>3, <1>7, <2>1, <2>2, StartIsApplied, SteerIsApplied
<1> HIDE DEF view, applied
<1>11. settling.phase = "settle" /\ settling.reply = NoReply /\ settling.view = view /\ settling.kind = op.kind
  BY <1>2, <1>3, SettleFields
<1> HIDE DEF settling
<1>12. CASE Release(op.kind)
  <2>1. op' = NoOp /\ ~Prompts(NoOp) BY <1>12, NoOpMeans DEF Release, Prompts
  <2>2. CASE ~op.reply.ok
    <3>1. UNCHANGED <<cache, loaded, uTurn, verdict>> BY <1>8, <2>2
    <3> QED BY <1>1, <1>2, <2>1, <3>1, NoOpMeans, AskLearns
  <2>3. CASE op.reply.ok /\ applied
    <3>1. cache' = view /\ loaded' = "read" /\ verdict' = TellApplied(TRUE) BY <1>9, <2>3
    <3>2. UNCHANGED uTurn \/ uTurn'.msg = NoMsg BY <1>9, <2>3, NoOpMeans
    <3>3. AppliedIsTrue' BY <1>1, <1>10, <2>3, <3>1, TellLearns
    <3>4. SoundNext(cache') /\ ShowsLast(cache)' BY <1>1, <1>3, <1>4, <2>3, <3>1 DEF ShowsLast
    <3> QED BY <1>1, <2>1, <3>1, <3>2, <3>3, <3>4, NoOpMeans, ReaderLearns
  <2>4. CASE op.reply.ok /\ ~applied
    <3>1. op'.phase = "settle" BY <1>9, <1>11, <2>4
    <3> QED BY <2>1, <3>1, NoOpMeans
  <2> QED BY <2>2, <2>3, <2>4
<1>13. CASE op.reply.ok /\ ~applied
  <2>1. /\ op'.phase = "settle" /\ op'.reply = NoReply /\ op'.view = view /\ op'.kind = "resolve"
    BY <1>1, <1>9, <1>13, <1>11
  <2>2. cache' = view /\ loaded' = "read" /\ UNCHANGED <<uTurn, verdict>> BY <1>9, <1>13
  <2>3. SoundNext(cache') /\ SoundNext(op'.view) /\ ShowsLast(cache') BY <1>3, <1>4, <1>13, <2>1, <2>2
  <2>4. AppliedIsTrue' /\ PromptsKnowHistory'
    BY <1>1, <1>2, <2>1, <2>2, SameVerdict, PromptsLearn DEF ResultInvariant, Prompts
  <2> QED BY <1>1, <1>2, <2>1, <2>2, <2>3, <2>4, HolderLearns DEF Starting
<1> QED BY <1>8, <1>9, <1>12, <1>13

LEMMA ResolveNotAppliedLearns ==
  ASSUME QuietContext, ResultInvariant, ResolveNotApplied
  PROVE  ResultInvariant'
<1>1. /\ UNCHANGED <<turns, req, wire, waiting, cache, loaded>> /\ op.phase = "settle" /\ op' = NoOp
      /\ uTurn' \in {uTurn, NoUncertainTurn}
      /\ verdict' = IF op.msg = NoMsg THEN verdict ELSE [verdict EXCEPT ![op.msg] = "notApplied"]
  BY DEF ResolveNotApplied, Release, server, transport
<1>2. op.phase \notin Awaits /\ ~Starting /\ ~Prompts(NoOp) BY <1>1, NoOpMeans DEF Awaits, Starting, Prompts
<1>3. /\ TypeInv /\ Grown /\ req.kind = "none" BY <1>1, <1>2, HolderFacts, SameGrown
<1>4. ShowsLast(cache) /\ SoundNext(cache') BY <1>1, <1>3, Truths DEF ResultInvariant, ReadsAreWhole
<1>5. AppliedIsTrue'
  <2>1. \A m \in Msgs : verdict'[m] = "applied" => verdict[m] = "applied"
    BY <1>1, <1>3, TypedParts DEF HistoryTypeOK
  <2> QED BY <1>3, <2>1, VerdictLearns DEF ResultInvariant
<1>6. PromptsKnowHistory' BY <1>1, <1>2, PromptsLearn DEF ResultInvariant
<1>7. HasHistory' => ShowsLast(cache') BY <1>1, <1>4
<1> QED BY <1>1, <1>2, <1>3, <1>4, <1>5, <1>6, <1>7, NoOpMeans, HolderLearns DEF Starting

\* What a line tells of a Turn is put into the snapshot.
LEMMA UpsertedIsSound ==
  ASSUME NEW view \in View, SoundNext(view), NEW t \in Numbers, NEW turn \in Turn, turn.msgs \subseteq turns'[t].msgs
  PROVE  SoundNext(Upsert(view, t, turn)) /\ DOMAIN Upsert(view, t, turn) = DOMAIN view \cup {t}
<1> DEFINE one == [s \in {t} |-> turn]
<1>1. one \in [{t} -> Turn] /\ {t} \in SUBSET Numbers OBVIOUS
<1>2. one \in View BY <1>1, ViewIntro
<1>3. SoundNext(one) BY DEF SoundNext
<1>4. Upsert(view, t, turn) = Merge(one, view) /\ DOMAIN one = {t} BY DEF Upsert
<1> HIDE DEF one
<1>5. DOMAIN Merge(one, view) = DOMAIN one \cup DOMAIN view BY DEF Merge
<1> QED BY <1>2, <1>3, <1>4, <1>5, MergedIsSound

LEMMA RespondedLearns ==
  ASSUME QuietContext, ResultInvariant, Responded
  PROVE  ResultInvariant'
<1>1. /\ UNCHANGED <<turns, req, wire, waiting, loaded, verdict>> /\ op' = NoOp
      /\ op.phase = "mutate" /\ op.reply # NoReply
  BY DEF Responded, Settled, Release, server, transport, history
<1>2. /\ TypeInv /\ Grown /\ op \in Operations /\ cache \in View /\ op.reply \in Lines
      /\ req.kind = "none" /\ StartInvariant /\ ~Prompts(NoOp)
  BY <1>1, HolderFacts, SameGrown, NoOpMeans DEF Prompts
<1>3. AppliedIsTrue' /\ PromptsKnowHistory' BY <1>1, <1>2, SameVerdict, PromptsLearn DEF ResultInvariant
<1>4. op.kind = "start" => uTurn.msg = NoMsg BY <1>2 DEF StartInvariant, NothingRuns
<1>5. HasHistory => ShowsLast(cache) \/ uTurn.msg # NoMsg \/ (op.kind = "start" /\ IsNewest(op.reply))
  BY <1>1 DEF ResultInvariant, CacheIsComplete, Unanswered, Starting
<1>6. CASE op.kind = "start" /\ op.reply.ok
  <2>1. cache' = Upsert(cache, op.reply.turn, op.reply.rec) /\ uTurn' = NoUncertainTurn BY <1>6 DEF Responded
  <2>2. op.reply.turn \in Numbers /\ op.reply.turn # 0 /\ op.reply.rec \in Turn
    BY <1>1, <1>2, <1>6, ConstantsAssumption DEF TypeInv, AnswerCame, TurnAnswer, Numbers, Lines
  <2>3. SoundNext(cache) /\ op.reply.rec.msgs \subseteq turns'[op.reply.turn].msgs
    BY <1>2, <2>2, Truths DEF ResultInvariant, SoundLineNext
  <2>4. SoundNext(cache') /\ DOMAIN cache' = DOMAIN cache \cup {op.reply.turn}
    BY <1>2, <2>1, <2>2, <2>3, UpsertedIsSound
  <2>5. HasHistory' => ShowsLast(cache') BY <1>1, <1>4, <1>5, <1>6, <2>4 DEF HasHistory, ShowsLast, IsNewest
  <2> QED BY <1>1, <1>2, <1>3, <2>1, <2>4, <2>5, NoOpMeans, HolderLearns DEF Starting
<1>7. CASE ~(op.kind = "start" /\ op.reply.ok)
  <2>1. UNCHANGED <<uTurn, cache>> BY <1>7 DEF Responded
  <2>2. SoundNext(cache') BY <1>2, <2>1, Truths DEF ResultInvariant
  <2>3. HasHistory' => ShowsLast(cache') \/ uTurn'.msg # NoMsg
    BY <1>1, <1>5, <1>7, <2>1 DEF HasHistory, IsNewest
  <2> QED BY <1>1, <1>2, <1>3, <2>1, <2>2, <2>3, NoOpMeans, HolderLearns DEF Starting
<1> QED BY <1>6, <1>7

\* The last Turn a complete snapshot shows is the last there is.
LEMMA LastShown ==
  ASSUME TypeInv, NEW view \in View, Exist(DOMAIN view), ShowsLast(view)
  PROVE  LastOf(view) = Len(turns)
<1>1. Len(turns) \in Nat /\ \A t \in DOMAIN view : t \in Numbers /\ t <= Len(turns)
  BY Places, ViewElements DEF Exist
<1>2. CASE DOMAIN view = {} BY <1>1, <1>2 DEF LastOf, ShowsLast
<1>3. CASE DOMAIN view # {}
  <2>1. LastOf(view) \in DOMAIN view /\ \A t \in DOMAIN view : t <= LastOf(view) BY <1>3, LastOfType
  <2>2. LastOf(view) \in Nat \ {0} /\ LastOf(view) <= Len(turns) BY <1>1, <2>1, ConstantsAssumption DEF Numbers
  <2>3. Len(turns) <= LastOf(view) BY <1>1, <2>1, <2>2 DEF ShowsLast
  <2> QED BY <1>1, <2>2, <2>3
<1> QED BY <1>2, <1>3

LEMMA SendLearns ==
  ASSUME QuietContext, ResultInvariant, Send
  PROVE  ResultInvariant'
<1> DEFINE o == [op EXCEPT !.base = IF op.kind = "start" THEN LastOf(cache) ELSE op.base]
<1>1. /\ UNCHANGED <<turns, wire, cache, loaded, uTurn, verdict, waiting>>
      /\ op.phase = "ready" /\ op.phase \notin Awaits /\ ~Starting /\ Ask(o, "mutate", op.msg, op.turn)
  BY DEF Send, transport, history, Starting, Awaits
<1>2. /\ TypeInv /\ Grown /\ op \in Operations /\ cache \in View /\ Exist(DOMAIN cache)
      /\ req.kind = "none" /\ StartInvariant
  BY <1>1, HolderFacts, SameGrown
<1>3. /\ o \in Operations /\ o.kind = op.kind /\ o.msg = op.msg /\ o.view = op.view
      /\ op.kind = "start" => o.base = LastOf(cache)
  BY <1>2, LastOfType DEF Operations
<1> HIDE DEF o
<1>4. /\ op'.kind = op.kind /\ op'.phase = "mutate" /\ op'.msg = op.msg /\ op'.base = o.base /\ op'.view = op.view
      /\ op'.reply \in {NoReply, Refused}
      /\ (req'.kind = op.kind /\ req'.msg = op.msg) \/ req' = req
  BY <1>1, <1>3, AskMeans DEF Awaits
<1>5. PromptsKnowHistory' BY <1>1, <1>4, PromptsLearn DEF ResultInvariant, Prompts
<1>6. SoundNext(cache') /\ AppliedIsTrue' BY <1>1, <1>2, Truths, SameVerdict DEF ResultInvariant
<1>7. HasHistory => ShowsLast(cache) \/ uTurn.msg # NoMsg BY <1>1, SnapshotIsComplete
<1>8. op.kind \in {"start", "steer"} BY <1>1, <1>2 DEF TypeInv, MessagesInFlight
<1>9. CASE op.kind = "steer"
  <2>1. ~Starting' /\ req'.kind # "start" /\ (HasHistory' => ShowsLast(cache') \/ uTurn'.msg # NoMsg)
    BY <1>1, <1>2, <1>4, <1>7, <1>9 DEF Starting, HasHistory
  <2> QED BY <1>1, <1>4, <1>5, <1>6, <2>1, HolderLearns
<1>10. CASE op.kind = "start"
  <2>1. HasHistory /\ uTurn.msg = NoMsg
    BY <1>1, <1>2, <1>10 DEF ResultInvariant, PromptsKnowHistory, Prompts, HasHistory, SessionTypeOK, TypeInv,
      TypeOK, StartInvariant, NothingRuns
  <2>2. ShowsLast(cache) /\ op'.base = Len(turns) BY <1>2, <1>3, <1>4, <1>7, <1>10, <2>1, LastShown
  <2>3. ViewsAreTrue'
    <3>1. SoundNext(op'.view) /\ SoundLineNext(op'.reply) BY <1>2, <1>4, Truths, StillSound DEF ResultInvariant
    <3> QED BY <1>1, <1>2, <1>6, <3>1, ViewsLearn DEF ResultInvariant
  <2>4. ReadsAreWhole'
    <3>1. Refused.kind = "reply" BY DEF Refused, Reply, Line
    <3> QED BY <1>4, <3>1 DEF ReadsAreWhole, ReadsHistory
  <2>5. CacheIsComplete' BY <1>1, <2>2 DEF CacheIsComplete, ShowsLast
  <2>6. BaselinesAreLast' BY <1>1, <1>2, <1>4, <2>1, <2>2 DEF BaselinesAreLast, FollowedBy
  <2> QED BY <1>5, <1>6, <2>3, <2>4, <2>5, <2>6 DEF ResultInvariant
<1> QED BY <1>8, <1>9, <1>10

----
(* Lines reach the web server. *)

\* A line that is handled leaves the others; there is one answer at most.
LEMMA LineTaken ==
  ASSUME QuietContext, ResultInvariant, UNCHANGED turns, NEW kind, Receive(kind)
  PROVE  /\ Grown /\ Len(turns') = Len(turns)
         /\ Head(wire) \in OnWire(wire) /\ Head(wire) \in Lines /\ Head(wire).kind = kind
         /\ SoundLineNext(Head(wire))
         /\ \A l \in OnWire(wire') : l \in OnWire(wire)
         /\ \A l \in OnWire(wire) : l \in OnWire(wire') \/ l = Head(wire)
         /\ kind = "reply" =>
              /\ op.phase \in Awaits /\ op.reply = NoReply
              /\ \A l \in OnWire(wire) : l.kind = "reply" => l = Head(wire)
              /\ \A l \in OnWire(wire') : l.kind # "reply"
<1>1. TypeInv /\ Grown BY QuietFacts, SameGrown
<1>2. /\ Len(wire') \in Nat /\ DOMAIN wire = 1 .. Len(wire) /\ DOMAIN wire' = 1 .. Len(wire')
      /\ Len(wire) = Len(wire') + 1
      /\ \A i \in DOMAIN wire' : wire'[i] = wire[i + 1] /\ i + 1 \in DOMAIN wire
      /\ 1 \in DOMAIN wire /\ wire[1].kind = kind /\ Head(wire) = wire[1]
  BY <1>1, OneLineLess
<1>3. Head(wire) \in OnWire(wire) /\ Head(wire) \in Lines /\ Head(wire).kind = kind
  BY <1>1, <1>2, ReceiveMeans DEF OnWire
<1>4. SoundLineNext(Head(wire)) BY <1>1, <1>3, Truths DEF ResultInvariant
<1>5. \A l \in OnWire(wire') : l \in OnWire(wire) BY <1>2 DEF OnWire
<1>6. ASSUME NEW i \in DOMAIN wire, i # 1 PROVE wire[i] \in OnWire(wire')
  <2>1. i - 1 \in DOMAIN wire' /\ wire[i] = wire'[i - 1] BY <1>2, <1>6
  <2> QED BY <2>1 DEF OnWire
<1>7. \A l \in OnWire(wire) : l \in OnWire(wire') \/ l = Head(wire) BY <1>2, <1>6 DEF OnWire
<1>8. ASSUME kind = "reply"
      PROVE  /\ op.phase \in Awaits /\ op.reply = NoReply
             /\ \A l \in OnWire(wire) : l.kind = "reply" => l = Head(wire)
             /\ \A l \in OnWire(wire') : l.kind # "reply"
  <2>1. /\ op.phase \in Awaits /\ op.reply = NoReply
        /\ \A j \in DOMAIN wire : wire[j].kind = "reply" => j = 1
    BY <1>1, <1>2, <1>8 DEF TypeInv, AnswerAwaited
  <2>2. \A i \in DOMAIN wire' : wire'[i].kind # "reply" BY <1>2, <2>1
  <2> QED BY <1>2, <2>1, <2>2 DEF OnWire
<1> QED BY <1>1, <1>3, <1>4, <1>5, <1>7, <1>8

LEMMA HandleReplyLearns ==
  ASSUME QuietContext, ResultInvariant, HandleReply
  PROVE  ResultInvariant'
<1>1. /\ UNCHANGED <<turns, alive, req, cache, loaded, uTurn, waiting, verdict>>
      /\ op' = [op EXCEPT !.reply = Head(wire)] /\ Receive("reply")
  BY DEF HandleReply, server, history
<1>2. TypeInv /\ op \in Operations /\ Head(wire) \in Lines BY <1>1, QuietFacts, TypedParts, LineTaken
<1>3. /\ Grown /\ Len(turns') = Len(turns)
      /\ Head(wire) \in OnWire(wire) /\ Head(wire).kind = "reply" /\ SoundLineNext(Head(wire))
      /\ op.phase \in Awaits /\ op.reply = NoReply
      /\ \A l \in OnWire(wire) : l.kind = "reply" => l = Head(wire)
      /\ \A l \in OnWire(wire') : l \in OnWire(wire) /\ l.kind # "reply"
  BY <1>1, LineTaken
<1>4. /\ op'.reply = Head(wire) /\ op'.kind = op.kind /\ op'.phase = op.phase /\ op'.msg = op.msg
      /\ op'.base = op.base /\ op'.view = op.view
  BY <1>1, <1>2 DEF Operations
<1>5. ViewsAreTrue' BY <1>1, <1>3, <1>4, Truths, ViewsLearn DEF ResultInvariant
<1>6. ReadsAreWhole'
  <2>1. ReadsHistory => Whole(Head(wire)) BY <1>3 DEF ResultInvariant, ReadsAreWhole
  <2>2. ReadsHistory' = ReadsHistory BY <1>4 DEF ReadsHistory
  <2>3. Whole(Head(wire)) => Whole(op.reply)' BY <1>1, <1>4 DEF Whole, ShowsLast
  <2>4. \A l \in OnWire(wire') : l.kind # "reply" BY <1>3
  <2>5. op'.phase # "settle" /\ op'.reply.kind = "reply" BY <1>3, <1>4 DEF Awaits
  <2> QED BY <2>1, <2>2, <2>3, <2>4, <2>5 DEF ReadsAreWhole, Whole, OnWire
<1>7. PromptsKnowHistory' BY <1>1, <1>4, PromptsLearn DEF ResultInvariant, Prompts
<1>8. CacheIsComplete'
  <2> SUFFICES ASSUME HasHistory'
               PROVE  ShowsLast(cache)' \/ uTurn'.msg # NoMsg \/ Unanswered'
    BY DEF CacheIsComplete
  <2>1. ShowsLast(cache) \/ uTurn.msg # NoMsg \/ Unanswered
    BY <1>1 DEF ResultInvariant, CacheIsComplete, HasHistory
  <2>2. Unanswered => Starting /\ IsNewest(Head(wire)) BY <1>3, NoOpMeans DEF Unanswered, IsNewest
  <2>3. Unanswered => Unanswered' BY <1>1, <1>4, <2>2 DEF Unanswered, Starting, IsNewest
  <2> QED BY <1>1, <2>1, <2>3 DEF ShowsLast
<1>9. BaselinesAreLast' /\ AppliedIsTrue'
  BY <1>1, <1>2, <1>3, <1>4, BaselinesLearn, SameVerdict DEF ResultInvariant, Starting
<1> QED BY <1>5, <1>6, <1>7, <1>8, <1>9 DEF ResultInvariant

\* What a notification tells of a Turn is put into the snapshot.
LEMMA SnapshotLearns ==
  ASSUME QuietContext, ResultInvariant, UNCHANGED turns, NEW kind \in {"started", "completed"}, Receive(kind),
         cache' = Snapshot(Upsert(cache, Head(wire).turn, Head(wire).rec))
  PROVE  SoundNext(cache') /\ DOMAIN cache \subseteq DOMAIN cache'
<1>1. TypeInv /\ Grown /\ cache \in View BY QuietFacts, SameGrown, TypedParts
<1>2. Head(wire).turn \in Numbers /\ Head(wire).turn # 0 /\ Head(wire).rec \in Turn
  BY <1>1, NewsType, LineTaken, ConstantsAssumption DEF Numbers, Lines
<1>3. SoundNext(cache) /\ Head(wire).rec.msgs \subseteq turns'[Head(wire).turn].msgs
  BY <1>1, <1>2, LineTaken, Truths DEF ResultInvariant, SoundLineNext
<1> DEFINE grown == Upsert(cache, Head(wire).turn, Head(wire).rec)
<1>4. SoundNext(grown) /\ DOMAIN cache \subseteq DOMAIN grown
  <2>1. SoundNext(grown) /\ DOMAIN grown = DOMAIN cache \cup {Head(wire).turn}
    BY <1>1, <1>2, <1>3, UpsertedIsSound
  <2> QED BY <2>1
<1> HIDE DEF grown
<1>5. cache' = Snapshot(grown) BY DEF grown
<1>6. cache' = grown \/ cache' = cache BY <1>5 DEF Snapshot
<1> QED BY <1>3, <1>4, <1>6

LEMMA HandleOthersLearns ==
  ASSUME QuietContext, ResultInvariant,
         HandleLate \/ HandleStatus \/ HandleTurnStarted \/ HandleTurnCompleted \/ HandleItem
  PROVE  ResultInvariant'
<1>1. UNCHANGED <<turns, alive, req, op, loaded, waiting>>
  BY DEF HandleLate, HandleStatus, HandleTurnStarted, HandleTurnCompleted, HandleItem, server, session
<1>2. TypeInv /\ Grown /\ cache \in View /\ SoundNext(cache)
  BY <1>1, QuietFacts, SameGrown, TypedParts, Truths DEF ResultInvariant
<1>3. PICK kind \in {"late", "active", "idle", "started", "completed", "item"} : Receive(kind)
  BY DEF HandleLate, HandleStatus, HandleTurnStarted, HandleTurnCompleted, HandleItem
<1>4. /\ \A l \in OnWire(wire') : l \in OnWire(wire)
      /\ \A l \in OnWire(wire) : l.kind = "reply" => l \in OnWire(wire')
  BY <1>1, <1>3, LineTaken
<1>5. PromptsKnowHistory' BY <1>1, PromptsLearn DEF ResultInvariant
<1>6. SoundNext(cache') /\ DOMAIN cache \subseteq DOMAIN cache'
  <2>1. CASE UNCHANGED cache BY <1>2, <2>1
  <2>2. CASE HandleTurnStarted \/ HandleTurnCompleted
    BY <1>1, <2>2, SnapshotLearns DEF HandleTurnStarted, HandleTurnCompleted
  <2>3. CASE HandleItem
    <3>1. /\ DOMAIN cache' = DOMAIN cache
          /\ \A t \in DOMAIN cache : cache'[t] = IF t = Head(wire).turn
                                                 THEN [cache[t] EXCEPT !.msgs = @ \cup Head(wire).rec.msgs]
                                                 ELSE cache[t]
      BY <2>3 DEF HandleItem
    <3>2. SoundLineNext(Head(wire)) BY <1>1, <2>3, LineTaken DEF HandleItem
    <3>3. ASSUME NEW t \in DOMAIN cache PROVE cache'[t].msgs \subseteq turns'[t].msgs
      <4>1. cache[t] \in Turn /\ t # 0 /\ cache[t].msgs \subseteq turns'[t].msgs
        BY <1>2, <3>3, ViewElements, ConstantsAssumption DEF Numbers, SoundNext
      <4> QED BY <3>1, <3>2, <3>3, <4>1 DEF Turn, SoundLineNext
    <3> QED BY <3>1, <3>3 DEF SoundNext
  <2> QED BY <2>1, <2>2, <2>3 DEF HandleLate, HandleStatus, session
<1>7. (UNCHANGED uTurn \/ (uTurn.msg = NoMsg /\ uTurn'.msg = NoMsg)) /\ AppliedIsTrue'
  <2>1. CASE UNCHANGED <<uTurn, verdict>> BY <1>1, <1>2, <2>1, SameVerdict
  <2>2. CASE HandleTurnStarted
    <3>1. Receive("started") /\ uTurn' = NoUncertainTurn /\ verdict' = TellApplied(reg.baseline # Absent)
      BY <2>2 DEF HandleTurnStarted
    <3>2. Head(wire) \in OnWire(wire) /\ Head(wire).kind = "started" BY <1>1, <3>1, LineTaken
    <3>3. uTurn.msg = NoMsg /\ uSteer.msg = NoMsg
      BY <3>2 DEF QuietContext, PendingInvariant, PendingIsQuiet, Pending
    <3> QED BY <1>1, <3>1, <3>3, NoOpMeans, TellLearns
  <2> QED BY <2>1, <2>2 DEF HandleLate, HandleStatus, HandleTurnCompleted, HandleItem, session, history
<1> QED BY <1>1, <1>2, <1>4, <1>5, <1>6, <1>7, AsideLearns

----
(* The connection is lost and comes back. *)

LEMMA ReadTimeoutLearns ==
  ASSUME QuietContext, ResultInvariant, ReadTimeout
  PROVE  ResultInvariant'
<1>1. /\ UNCHANGED <<turns, cache, loaded, uTurn, waiting, verdict>> /\ req' = NoReq /\ wire' = Late(wire)
      /\ op' = [op EXCEPT !.reply = Refused]
      /\ Awaiting("resume") \/ Awaiting("read")
  BY DEF ReadTimeout
<1>2. TypeInv /\ Grown /\ op \in Operations BY <1>1, QuietFacts, SameGrown, TypedParts
<1>3. /\ op'.reply = Refused /\ op'.kind = op.kind /\ op'.phase = op.phase /\ op'.view = op.view
      /\ op.phase \in {"resume", "read"} /\ req'.kind # "start"
  BY <1>1, <1>2, RejectedFields, NoOpMeans DEF Awaiting
<1>4. \A l \in OnWire(wire') : l.kind # "reply" /\ (l \in OnWire(wire) \/ SoundLineNext(l))
  <2>1. Line("late").turn = 0 /\ Line("late").view = NoTurns BY DEF Line
  <2>2. SoundLineNext(Line("late")) BY <1>2, <2>1, StillSound
  <2>3. \A l \in OnWire(wire') : (l \in OnWire(wire) \/ l = Line("late")) /\ l.kind # "reply"
    BY <1>1, <1>2, LinesLeft DEF OnWire
  <2> QED BY <2>2, <2>3
<1>5. PromptsKnowHistory' /\ AppliedIsTrue'
  BY <1>1, <1>2, <1>3, PromptsLearn, SameVerdict DEF ResultInvariant, Prompts
<1>6. SoundNext(cache') /\ (HasHistory' => ShowsLast(cache') \/ uTurn'.msg # NoMsg)
  BY <1>1, <1>2, <1>3, Truths, SnapshotIsComplete DEF ResultInvariant, HasHistory, Starting
<1> QED BY <1>1, <1>3, <1>4, <1>5, <1>6, MoveLearns DEF Starting

LEMMA TransportClosedLearns ==
  ASSUME QuietContext, ResultInvariant, TransportClosed
  PROVE  ResultInvariant'
<1>1. /\ UNCHANGED <<turns, alive, verdict, cache, loaded, waiting>>
      /\ ~alive /\ wire = << >> /\ wire' = << >> /\ req' = NoReq /\ Disconnect("down")
  BY QuietFacts, TransportClosedMeans DEF QuietContext, PendingInvariant
<1>2. /\ TypeInv /\ Grown /\ op \in Operations /\ OnWire(wire) = {} /\ OnWire(wire') = {} /\ req'.kind # "start"
      /\ ~Prompts(NoOp)
  BY <1>1, QuietFacts, SameGrown, TypedParts, NoOpMeans DEF OnWire, Prompts
<1>3. SoundNext(cache') /\ AppliedIsTrue' BY <1>1, <1>2, Truths, SameVerdict DEF ResultInvariant
<1>4. CASE Starting
  <2>1. /\ op' = NoOp /\ uTurn' = [msg |-> op.msg, base |-> op.base] /\ op.msg # NoMsg
        /\ FollowedBy(op.base, op.msg)
    BY <1>1, <1>2, <1>4, DisconnectMeans, ConstantsAssumption DEF Disconnect, Starting, ResultInvariant,
      BaselinesAreLast, TypeInv, MessagesInFlight
  <2>2. ViewsAreTrue' /\ ReadsAreWhole'
    <3>1. ViewsAreTrue' BY <1>1, <1>2, <1>3, <2>1, NoOpMeans, ViewsLearn DEF ResultInvariant, LearnsNothing
    <3> QED BY <1>2, <2>1, <3>1, NoOpMeans DEF ReadsAreWhole, ReadsHistory
  <2>3. PromptsKnowHistory' BY <1>1, <1>2, <2>1, PromptsLearn DEF ResultInvariant
  <2>4. CacheIsComplete' /\ BaselinesAreLast'
    BY <1>1, <1>2, <2>1, NoOpMeans DEF CacheIsComplete, BaselinesAreLast, Starting, FollowedBy
  <2> QED BY <1>3, <2>2, <2>3, <2>4 DEF ResultInvariant
<1>5. CASE op.kind = "steer" /\ op.phase = "mutate" /\ Awaiting("mutate")
  <2>1. op' = NoOp /\ UNCHANGED uTurn /\ ~Starting
    BY <1>1, <1>5, DisconnectMeans, QuietFacts DEF Disconnect, Starting
  <2>2. PromptsKnowHistory' BY <1>1, <1>2, <2>1, PromptsLearn DEF ResultInvariant
  <2>3. HasHistory' => ShowsLast(cache') \/ uTurn'.msg # NoMsg BY <1>1, <2>1, SnapshotIsComplete DEF HasHistory
  <2> QED BY <1>1, <1>2, <1>3, <2>1, <2>2, <2>3, NoOpMeans, MoveLearns DEF Starting
<1>6. CASE ~Starting /\ (Awaiting("resume") \/ Awaiting("read")) /\ ~Awaiting("mutate")
  <2>1. op' = [op EXCEPT !.reply = Refused] /\ UNCHANGED uTurn /\ op.phase \in {"resume", "read"}
    BY <1>1, <1>6 DEF Disconnect, RejectPending, Awaiting
  <2>2. op'.reply = Refused /\ op'.kind = op.kind /\ op'.phase = op.phase /\ op'.view = op.view
    BY <1>2, <2>1, RejectedFields
  <2>3. PromptsKnowHistory' BY <1>1, <2>2, PromptsLearn DEF ResultInvariant, Prompts
  <2>4. HasHistory' => ShowsLast(cache') \/ uTurn'.msg # NoMsg
    BY <1>1, <1>6, <2>1, SnapshotIsComplete DEF HasHistory
  <2> QED BY <1>1, <1>2, <1>3, <2>1, <2>2, <2>3, <2>4, MoveLearns DEF Starting
<1>7. CASE ~Awaiting("mutate") /\ ~Awaiting("resume") /\ ~Awaiting("read")
  <2>1. UNCHANGED <<op, uTurn>> BY <1>1, <1>7 DEF Disconnect
  <2>2. PromptsKnowHistory' BY <1>1, <2>1, PromptsLearn DEF ResultInvariant
  <2> QED BY <1>1, <1>2, <1>3, <1>7, <2>1, <2>2, AsideLearns
<1>8. Starting => Awaiting("mutate") BY <1>1, <1>2, DisconnectMeans
<1>9. Awaiting("mutate") => op.phase = "mutate" /\ (Starting \/ op.kind = "steer")
  BY <1>2 DEF Awaiting, Starting, TypeInv, MessagesInFlight
<1> QED BY <1>4, <1>5, <1>6, <1>7, <1>8, <1>9

LEMMA ReconnectLearns ==
  ASSUME QuietContext, ResultInvariant, Reconnect
  PROVE  ResultInvariant'
<1>1. UNCHANGED <<turns, wire, op, cache, loaded, uTurn, waiting, verdict>> /\ req' = NoReq /\ link = "down"
  BY DEF Reconnect, session, history
<1>2. TypeInv /\ Grown /\ StartInvariant BY <1>1, QuietFacts, SameGrown DEF Context
<1>3. ~Awaiting("mutate") BY <1>1, <1>2 DEF StartInvariant, LostIsSilent, Awaiting
<1>4. PromptsKnowHistory' /\ AppliedIsTrue' /\ SoundNext(cache')
  BY <1>1, <1>2, PromptsLearn, SameVerdict, Truths DEF ResultInvariant
<1> QED BY <1>1, <1>2, <1>3, <1>4, AsideLearns

LEMMA CrashLearns ==
  ASSUME QuietContext, ResultInvariant, Crash
  PROVE  ResultInvariant'
<1>1. /\ DOMAIN turns' = DOMAIN turns /\ Len(turns') = Len(turns)
      /\ \A t \in DOMAIN turns : turns'[t].msgs = turns[t].msgs
      /\ OnWire(wire') \subseteq OnWire(wire)
      /\ ~alive' /\ req' = NoReq /\ UNCHANGED <<op, cache, loaded, uTurn, waiting, verdict>>
  BY QuietFacts, CrashMeans DEF session
<1>2. TypeInv /\ Grown BY <1>1, QuietFacts, Places DEF Grown
<1>3. PromptsKnowHistory' /\ AppliedIsTrue' /\ SoundNext(cache')
  BY <1>1, <1>2, PromptsLearn, VerdictLearns, Truths DEF ResultInvariant, AppliedIsTrue
<1>4. \A l, k \in OnWire(wire) : l.kind = "reply" /\ k.kind = "reply" => l = k
  BY <1>2 DEF TypeInv, AnswerAwaited, OnWire
<1>5. \/ \A l \in OnWire(wire) : l.kind = "reply" => l \in OnWire(wire')
      \/ \A l \in OnWire(wire') : l.kind # "reply"
  BY <1>1, <1>4
<1> QED BY <1>1, <1>2, <1>3, <1>5, AsideLearns

----
(* The App Server. *)

\* It answers, and makes no Turn.
LEMMA ServedLearns ==
  ASSUME QuietContext, ResultInvariant, Grown, Len(turns') = Len(turns), alive,
         UNCHANGED <<alive, session, verdict>>, req' \in {req, NoReq},
         \A l \in OnWire(wire) : l.kind = "reply" => l \in OnWire(wire'),
         \A l \in OnWire(wire') : l \in OnWire(wire) \/ Answers(l)
  PROVE  ResultInvariant'
<1>1. UNCHANGED <<op, cache, loaded, uTurn, waiting, verdict>> BY DEF session
<1>2. PromptsKnowHistory' BY <1>1, PromptsLearn DEF ResultInvariant
<1>3. AppliedIsTrue' /\ SoundNext(cache') BY <1>1, VerdictLearns, Truths DEF ResultInvariant
<1> QED BY <1>1, <1>2, <1>3, AsideLearns

LEMMA RefusalAnswers ==
  ASSUME QuietContext, Grown, alive
  PROVE  Answers(Refused)
<1>1. ~Refused.ok BY DEF Refused, Reply
<1> QED BY <1>1, QuietFacts, StillSound DEF Answers

LEMMA ReadsServedLearn ==
  ASSUME QuietContext, ResultInvariant, ServeRead \/ ServeResume
  PROVE  ResultInvariant'
<1>1. PICK view \in {turns, NoTurns} :
        /\ OnWire(wire') = OnWire(wire) \cup {Reply(TRUE, 0, view)}
        /\ ReadsHistory => view = turns
        /\ alive /\ req.kind \in {"read", "resume"} /\ req' = NoReq /\ UNCHANGED <<turns, alive, session, verdict>>
  <2>1. CASE ServeRead BY <2>1, QuietFacts, ReadServed
  <2>2. CASE ServeResume
    <3>1. /\ OnWire(wire') = OnWire(wire) \cup {Resumption} /\ alive /\ req.kind = "resume" /\ req' = NoReq
          /\ UNCHANGED <<turns, alive, session, verdict>>
      BY <2>2, QuietFacts, ResumeServed DEF QuietContext, QuietChild
    <3>2. op.phase = "resume" BY <3>1, QuietFacts DEF Awaiting
    <3>3. ReadsHistory => ~Paginated BY <3>2 DEF ReadsHistory
    <3> QED BY <3>1, <3>3 DEF Resumption
  <2> QED BY <2>1, <2>2
<1>2. TypeInv /\ Grown /\ NoReplies(wire) /\ Len(turns') = Len(turns) BY <1>1, QuietFacts, SameGrown
<1> DEFINE line == Reply(TRUE, 0, view)
<1>3. line.turn = 0 /\ line.view = view BY DEF Reply, Line
<1>4. SoundNext(view) /\ (ReadsHistory => ShowsLast(view))
  <2>1. SoundNext(turns) /\ ShowsLast(turns) BY <1>1, <1>2, Places DEF SoundNext, ShowsLast
  <2>2. SoundNext(NoTurns) BY <1>2, StillSound
  <2> QED BY <1>1, <2>1, <2>2
<1>5. Answers(line) BY <1>1, <1>3, <1>4 DEF Answers, SoundLineNext
<1> HIDE DEF line
<1>6. /\ \A l \in OnWire(wire) : l.kind = "reply" => l \in OnWire(wire')
      /\ \A l \in OnWire(wire') : l \in OnWire(wire) \/ Answers(l)
  BY <1>1, <1>5 DEF line
<1> QED BY <1>1, <1>2, <1>6, ServedLearns

\* The last request is served by a refusal.
LEMMA DeclinedLearns ==
  ASSUME QuietContext, ResultInvariant, Declined, alive, Sends(req), req' = NoReq, UNCHANGED <<alive, session, verdict>>
  PROVE  ResultInvariant'
<1>1. Grown /\ Len(turns') = Len(turns) /\ NoReplies(wire) BY QuietFacts, SameGrown DEF Declined, Sends
<1>2. Answers(Refused) BY <1>1, RefusalAnswers
<1>3. \A l \in OnWire(wire') : l \in OnWire(wire) \/ Answers(l) BY <1>2 DEF Declined
<1>4. \A l \in OnWire(wire) : l.kind # "reply" BY <1>1 DEF NoReplies, OnWire
<1> QED BY <1>1, <1>3, <1>4, ServedLearns

LEMMA ServeSteerLearns ==
  ASSUME QuietContext, ResultInvariant, ServeSteer
  PROVE  ResultInvariant'
<1> DEFINE rec == [turns[req.turn] EXCEPT !.msgs = {req.msg}]
           item == TurnLine("item", req.turn, rec)
           answer == Reply(TRUE, req.turn, NoTurns)
<1>1. alive /\ req.kind = "steer" /\ Sends(req) /\ req' = NoReq /\ UNCHANGED <<alive, session, verdict>>
  BY QuietFacts, SteerServed DEF Sends
<1>2. CASE Declined BY <1>1, <1>2, DeclinedLearns
<1>3. CASE /\ Len(turns') = Len(turns) /\ DOMAIN turns' = DOMAIN turns /\ req.turn \in DOMAIN turns
           /\ \A t \in DOMAIN turns : turns[t].msgs \subseteq turns'[t].msgs
           /\ turns'[req.turn].msgs = turns[req.turn].msgs \cup {req.msg}
           /\ OnWire(wire') \subseteq OnWire(wire) \cup {item, answer}
  <2>1. TypeInv /\ NoReplies(wire) /\ op.phase = "mutate" BY <1>1, QuietFacts DEF Awaiting
  <2>2. Grown BY <1>3, <2>1, Places DEF Grown
  <2>3. item.turn = req.turn /\ item.rec.msgs = {req.msg} /\ item.view = NoTurns /\ item.kind = "item"
    <3>1. turns[req.turn] \in Turn BY <1>3, <2>1, Places
    <3>2. rec.msgs = {req.msg} BY <3>1 DEF Turn
    <3> HIDE DEF rec
    <3> QED BY <3>2 DEF TurnLine, Line
  <2>4. answer.turn = req.turn /\ answer.rec.msgs = {} /\ answer.view = NoTurns BY DEF Reply, Line, EndedTurn
  <2>5. SoundNext(NoTurns) BY <2>1, <2>2, StillSound
  <2> HIDE DEF item, answer
  <2>6. Answers(item) BY <1>3, <2>3, <2>5 DEF Answers, SoundLineNext
  <2>7. Answers(answer) BY <1>1, <2>1, <2>4, <2>5 DEF Answers, SoundLineNext, ReadsHistory
  <2>8. /\ \A l \in OnWire(wire) : l.kind # "reply"
        /\ \A l \in OnWire(wire') : l \in OnWire(wire) \/ Answers(l)
    BY <1>3, <2>1, <2>6, <2>7 DEF NoReplies, OnWire
  <2> QED BY <1>1, <1>3, <2>2, <2>8, ServedLearns
<1> QED BY <1>2, <1>3, QuietFacts, SteerServed

LEMMA EndTurnLearns ==
  ASSUME QuietContext, ResultInvariant, EndTurn
  PROVE  ResultInvariant'
<1>1. TypeInv /\ StartInvariant BY QuietFacts DEF Context
<1>2. PICK t \in DOMAIN turns :
         /\ alive /\ DOMAIN turns' = DOMAIN turns /\ Len(turns') = Len(turns)
         /\ \A s \in DOMAIN turns : turns'[s].msgs = turns[s].msgs
         /\ UNCHANGED <<alive, req, session, verdict>>
         /\ OnWire(wire) \subseteq OnWire(wire')
         /\ OnWire(wire') \subseteq OnWire(wire) \cup {TurnLine("completed", t, turns'[t]), Line("idle")}
  BY <1>1, EndMeans
<1>3. Grown BY <1>1, <1>2, Places DEF Grown
<1> DEFINE completed == TurnLine("completed", t, turns'[t])
           idle == Line("idle")
<1>4. /\ completed.turn = t /\ completed.rec = turns'[t] /\ completed.view = NoTurns /\ completed.kind = "completed"
      /\ idle.turn = 0 /\ idle.view = NoTurns /\ idle.kind = "idle"
  BY DEF TurnLine, Line
<1>5. Answers(completed) /\ Answers(idle) BY <1>1, <1>3, <1>4, StillSound DEF Answers, SoundLineNext
<1> HIDE DEF completed, idle
<1>6. \A l \in OnWire(wire') : l \in OnWire(wire) \/ Answers(l) BY <1>2, <1>5 DEF completed, idle
<1> QED BY <1>2, <1>3, <1>6, ServedLearns

LEMMA ServeStartLearns ==
  ASSUME QuietContext, ResultInvariant, ServeStart
  PROVE  ResultInvariant'
<1>1. alive /\ req.kind = "start" /\ Sends(req) /\ req' = NoReq /\ UNCHANGED <<alive, session, verdict>>
  BY QuietFacts, StartServed DEF Sends
<1>2. CASE Declined BY <1>1, <1>2, DeclinedLearns
<1>3. CASE /\ Len(turns) + 1 <= MaxTurns /\ turns' = Append(turns, NewTurn)
           /\ NewAnswer \in OnWire(wire')
           /\ OnWire(wire') \subseteq OnWire(wire) \cup
                  {Line("active"), TurnLine("started", Len(turns) + 1, NewTurn), NewAnswer}
  <2> DEFINE t == Len(turns) + 1
             active == Line("active")
             started == TurnLine("started", t, NewTurn)
  <2>1. /\ TypeInv /\ NoReplies(wire) /\ UNCHANGED <<op, cache, loaded, uTurn, waiting, verdict>>
        /\ Starting /\ op.phase = "mutate" /\ op.reply = NoReply
    BY <1>1, QuietFacts DEF Awaiting, Starting, session
  <2>2. /\ NewTurn \in Turn /\ NewTurn.msgs = {req.msg}
        /\ NewAnswer.kind = "reply" /\ NewAnswer.ok /\ NewAnswer.turn = t
        /\ NewAnswer.view = NoTurns /\ NewAnswer.rec.msgs = {}
    BY <1>1, <1>3, <2>1, NewLines
  <2>3. /\ Len(turns) \in Nat /\ t \in Nat /\ Len(turns') = t /\ turns'[t] = NewTurn
        /\ \A s \in DOMAIN turns : s \in DOMAIN turns' /\ turns'[s] = turns[s]
    BY <1>3, <2>1, <2>2, Places
  <2>4. Grown BY <2>3 DEF Grown
  <2>5. /\ active.turn = 0 /\ active.view = NoTurns
        /\ started.turn = t /\ started.rec = NewTurn /\ started.view = NoTurns
    BY DEF TurnLine, Line
  <2>6. /\ Len(turns) = op.base /\ req.msg = op.msg BY <1>1 DEF ResultInvariant, BaselinesAreLast
  <2>7. uTurn.msg = NoMsg BY <1>1 DEF QuietContext, PendingInvariant, PendingIsQuiet, Pending
  <2>8. OnWire(wire') \subseteq OnWire(wire) \cup {active, started, NewAnswer} BY <1>3
  <2>9. Len(turns') = Len(turns) + 1 BY <2>3
  <2> HIDE DEF t, active, started
  <2>10. SoundLineNext(active) /\ SoundLineNext(started) /\ SoundLineNext(NewAnswer)
    BY <2>1, <2>2, <2>3, <2>4, <2>5, StillSound DEF SoundLineNext
  <2>11. ViewsAreTrue'
    <3>1. SoundNext(cache') /\ SoundNext(op'.view) /\ SoundLineNext(op'.reply)
      BY <2>1, <2>4, Truths DEF ResultInvariant
    <3> QED BY <2>4, <2>8, <2>10, <3>1, ViewsLearn DEF ResultInvariant
  <2>12. ReadsAreWhole' BY <2>1 DEF ReadsAreWhole, ReadsHistory
  <2>13. PromptsKnowHistory' /\ AppliedIsTrue' BY <2>1, <2>4, PromptsLearn, VerdictLearns DEF ResultInvariant
  <2>14. CacheIsComplete'
    <3>1. PICK answer \in OnWire(wire') : answer.kind = "reply" /\ answer.ok /\ answer.turn = Len(turns')
      BY <1>3, <2>2, <2>3
    <3>2. \E l \in OnWire(wire)' : IsNewest(l)' BY <3>1 DEF IsNewest, OnWire
    <3>3. Unanswered' BY <2>1, <3>2 DEF Unanswered, Starting
    <3> QED BY <3>3 DEF CacheIsComplete
  <2>15. BaselinesAreLast'
    <3>1. op.base + 1 = t /\ op.msg \in turns'[op.base + 1].msgs BY <2>2, <2>3, <2>6 DEF t
    <3> QED BY <1>1, <2>1, <2>3, <2>7, <3>1, NoOpMeans DEF BaselinesAreLast, FollowedBy
  <2> QED BY <2>11, <2>12, <2>13, <2>14, <2>15 DEF ResultInvariant
<1> QED BY <1>2, <1>3, QuietFacts, StartServed

LEMMA NextLearns ==
  ASSUME QuietContext, HistoryKnown, ResultInvariant, Next
  PROVE  ResultInvariant'
<1>1. CASE Submit BY <1>1, QuietStepsLearn DEF Submit
<1>2. CASE Begin BY <1>2, BeginStartLearns, BeginSteerLearns, BeginReadLearns, BeginResolveLearns DEF Begin
<1>3. CASE Continue
  BY <1>3, BeginReadLearns, ResumedLearns, ReadDoneLearns, DelayOverLearns, ResolveReadLearns,
    ResolveNotAppliedLearns, SendLearns, RespondedLearns DEF Continue
<1>4. CASE Handle BY <1>4, HandleReplyLearns, HandleOthersLearns DEF Handle
<1>5. CASE FinishTimer BY <1>5, QuietStepsLearn
<1>6. CASE Lose
  BY <1>6, ReadTimeoutLearns, CrashLearns DEF Lose, MutationTimeout, SocketLost, QuietContext, QuietChild
<1>7. CASE Recover BY <1>7, TransportClosedLearns, ReconnectLearns, QuietStepsLearn DEF Recover
<1>8. CASE Serve \/ EndTurn
  BY <1>8, ServeStartLearns, ServeSteerLearns, ReadsServedLearn, EndTurnLearns DEF Serve
<1>9. CASE ServeStray BY <1>9, NoStrays DEF QuietContext, Context, QuietChild
<1> QED BY <1>1, <1>2, <1>3, <1>4, <1>5, <1>6, <1>7, <1>8, <1>9 DEF Next

LEMMA InitLearns == Init => ResultInvariant
<1> SUFFICES ASSUME Init PROVE ResultInvariant OBVIOUS
<1>1. /\ op = NoOp /\ req = NoReq /\ wire = << >> /\ cache = NoTurns /\ loaded = "absent"
      /\ uTurn = NoUncertainTurn /\ waiting = {} /\ verdict = [m \in Msgs |-> "none"]
  BY DEF Init
<1>2. ViewsAreTrue BY <1>1, NoOpMeans DEF ViewsAreTrue, Sound, SoundLine, OnWire
<1>3. ReadsAreWhole /\ PromptsKnowHistory /\ CacheIsComplete
  BY <1>1, NoOpMeans DEF ReadsAreWhole, ReadsHistory, PromptsKnowHistory, Prompts, CacheIsComplete, HasHistory
<1>4. BaselinesAreLast /\ AppliedIsTrue BY <1>1, NoOpMeans DEF BaselinesAreLast, Starting, AppliedIsTrue
<1> QED BY <1>2, <1>3, <1>4 DEF ResultInvariant

LEMMA StutterLearns ==
  ASSUME QuietContext, ResultInvariant, UNCHANGED vars
  PROVE  ResultInvariant'
<1>1. UNCHANGED <<turns, alive, req, wire, op, cache, loaded, uTurn, waiting, verdict>>
  BY DEF vars, server, transport, session, history
<1>2. TypeInv /\ Grown BY <1>1, QuietFacts, SameGrown
<1>3. PromptsKnowHistory' /\ AppliedIsTrue' /\ SoundNext(cache')
  BY <1>1, <1>2, PromptsLearn, SameVerdict, Truths DEF ResultInvariant
<1> QED BY <1>1, <1>2, <1>3, AsideLearns

\* Snapshots show only Turns that are, those a start goes out over show the last,
\* and an uncertain start has made the Turn after its baseline or none.
THEOREM ResultsInductive ==
  ASSUME QuietChild, HistoryKnown
  PROVE  Spec => [](TypeInv /\ MessageInvariant /\ StartInvariant /\ SharedInv /\ PendingInvariant /\ ResultInvariant)
<1>1. Init => ResultInvariant BY InitLearns
<1>2. ASSUME TypeInv, MessageInvariant, StartInvariant, SharedInv, PendingInvariant, ResultInvariant,
             TypeInv', PendingInvariant', [Next]_vars
      PROVE  ResultInvariant'
  BY <1>2, NextLearns, StutterLearns DEF QuietContext, Context
<1>3. /\ TypeInv /\ MessageInvariant /\ StartInvariant /\ SharedInv /\ PendingInvariant
      /\ (TypeInv /\ MessageInvariant /\ StartInvariant /\ SharedInv /\ PendingInvariant)'
      /\ ResultInvariant /\ [Next]_vars
      => ResultInvariant'
  BY <1>2
<1> QED BY <1>1, <1>3, PendingInductive, PTL DEF Spec

\* A browser that is told its prompt was applied, and drops it, is told the truth:
\* the message is in a Turn of the session.
THEOREM TruthfulAcceptance == ASSUME QuietChild, HistoryKnown PROVE Spec => []AppliedIsTrue
<1>1. ResultInvariant => AppliedIsTrue BY DEF ResultInvariant
<1> QED BY <1>1, ResultsInductive, PTL

----
(* At rest the runtime shows a Turn as running only while it is. *)

\* The App Server is a child that ends with its connection and answers mutations
\* in time.
OrderlyChild == ~SharedServer /\ ~SlowServer

IsShown(r) == r.state = "running" \/ r.active # 0

\* What makes the runtime show a Turn: place 0 is what has been handled, a higher
\* one a line on the wire.  A Turn whose end was handled before startTurn went on
\* does not count.
Tells(line) == line.kind \in {"active", "started"} \/ (line.kind = "reply" /\ line.ok /\ Starting)
ShowsOne(r) == IsShown(r) /\ r.active \notin overtaken
WillShow == Starting /\ op.reply # NoReply /\ op.reply.ok /\ op.reply.turn \notin overtaken
Raises(i) == IF i = 0 THEN ShowsOne(reg) \/ WillShow ELSE Tells(wire[i])

Positions == 0 .. Len(wire)

\* After the end of the last Turn, whatever shows one is followed by a line that
\* tells of the end.
EndsAreTold ==
  alive /\ ~LiveTurn =>
      \A i \in Positions : Raises(i) => \E e \in DOMAIN wire : i < e /\ Clears(wire[e])

\* The Turn of a start runs, or its own end follows the response.
Ends(lines, t, i) == \E e \in DOMAIN lines : i < e /\ lines[e].kind = "completed" /\ lines[e].turn = t
StartsEnd ==
  alive /\ Starting =>
      /\ WillShow => LiveAt(turns, op.reply.turn) \/ Ends(wire, op.reply.turn, 0)
      /\ \A i \in DOMAIN wire : wire[i].kind = "reply" /\ wire[i].ok =>
            LiveAt(turns, wire[i].turn) \/ Ends(wire, wire[i].turn, i)

\* Of what the connection would not hear the end, nothing is shown.
UnheardIsNotShown == (alive /\ ~subscribed) \/ link = "down" => \A i \in Positions : ~Raises(i)

ChildEnds ==
  /\ link # "closing" /\ ~req.orphan
  /\ link = "down" => ~alive
  /\ LiveTurn => alive /\ subscribed

KnownActive(r) == (r.active # 0 => r.state = "running") /\ r.active <= Len(turns)
ActiveIsKnown == KnownActive(reg) /\ (op.kind = "steer" => op.turn <= Len(turns))

\* The Turn of an uncertain steer ended with the connection, and an answer that
\* may settle the steer says so.
Coming == {l \in OnWire(wire) : l.kind = "reply"} \cup ({op.reply} \ {NoReply})
IsOver(view) == uSteer.turn \in DOMAIN view /\ ~Running(view[uSteer.turn])
SteersAreOver ==
  /\ uSteer.msg # NoMsg =>
       /\ IsOver(turns)
       /\ op.phase = "read" => \A l \in Coming : l.ok => IsOver(l.view)
  /\ op.phase = "settle" => ~LiveAt(op.view, op.turn)

RestInvariant ==
  EndsAreTold /\ StartsEnd /\ UnheardIsNotShown /\ ChildEnds /\ ActiveIsKnown /\ SteersAreOver

RestContext == Context /\ RestInvariant /\ overtaken \subseteq overtaken'

LEMMA RestFacts ==
  ASSUME RestContext
  PROVE  /\ Context /\ TypeInv /\ TypeInv' /\ op \in Operations /\ reg \in Runtime
         /\ wire \in Seq(Lines) /\ Len(wire) \in Nat /\ DOMAIN wire = 1 .. Len(wire)
         /\ turns \in Seq(Turn) /\ Len(turns) \in Nat /\ DOMAIN turns = 1 .. Len(turns)
         /\ CleanEnds /\ ~req.orphan
         /\ uSteer.msg = NoMsg <=> uSteer.turn = 0
         /\ KnownActive(reg)
<1>1. Context /\ TypeInv /\ TypeInv' BY DEF RestContext, Context
<1>2. op \in Operations /\ reg \in Runtime BY <1>1, TypedParts
<1>3. CleanEnds /\ ~req.orphan BY DEF RestContext, RestInvariant, ChildEnds, CleanEnds
<1>4. uSteer.msg = NoMsg <=> uSteer.turn = 0 BY <1>1, PendingParts
<1> QED BY <1>1, <1>2, <1>3, <1>4, Places DEF RestContext, RestInvariant, ActiveIsKnown

\* Turns that ended stay so, and stay.
EndedStay ==
  /\ Len(turns) <= Len(turns')
  /\ \A t \in DOMAIN turns : t \in DOMAIN turns' /\ (Running(turns'[t]) => Running(turns[t]))

LEMMA SameStay == ASSUME TypeInv, UNCHANGED turns PROVE EndedStay /\ LiveTurn' = LiveTurn
BY Places, LivesOn DEF EndedStay

LEMMA ActiveStays ==
  ASSUME RestContext, Len(turns) <= Len(turns'),
         UNCHANGED reg \/ KnownActive(reg'),
         op'.kind = "steer" => op'.turn <= Len(turns) \/ (op.kind = "steer" /\ op'.turn = op.turn)
  PROVE  ActiveIsKnown'
<1>1. Len(turns) \in Nat /\ Len(turns') \in Nat /\ reg.active \in Nat /\ reg'.active \in Nat
      /\ op.turn \in Nat /\ op'.turn \in Nat
  <2>1. \A n \in MaybeNumber : n \in Nat BY DEF MaybeNumber
  <2>2. reg \in Runtime /\ op \in Operations BY RestFacts
  <2>3. reg' \in Runtime /\ op' \in Operations /\ turns' \in Seq(Turn)
    BY RestFacts DEF TypeInv, TypeOK, OpTypeOK, Operations, ServerTypeOK
  <2>4. reg.active \in MaybeNumber /\ reg'.active \in MaybeNumber /\ op.turn \in MaybeNumber /\ op'.turn \in MaybeNumber
    BY <2>2, <2>3 DEF Runtime, Operations
  <2> QED BY <2>1, <2>3, <2>4, RestFacts
<1>2. KnownActive(reg) /\ (op.kind = "steer" => op.turn <= Len(turns))
  BY DEF RestContext, RestInvariant, ActiveIsKnown
<1> QED BY <1>1, <1>2 DEF ActiveIsKnown, KnownActive

LEMMA SteersStay ==
  ASSUME RestContext, EndedStay,
         UNCHANGED uSteer \/ uSteer'.msg = NoMsg,
         op'.phase = "read" /\ uSteer'.msg # NoMsg =>
            \A l \in Coming' : (op.phase = "read" /\ l \in Coming) \/ ~l.ok \/ IsOver(l.view),
         op'.phase = "settle" =>
            (op.phase = "settle" /\ op'.view = op.view /\ op'.turn = op.turn) \/ ~LiveAt(op'.view, op'.turn)
  PROVE  SteersAreOver'
<1>1. ASSUME uSteer'.msg # NoMsg PROVE IsOver(turns)'
  <2>1. UNCHANGED uSteer /\ IsOver(turns) BY <1>1 DEF RestContext, RestInvariant, SteersAreOver
  <2> QED BY <2>1 DEF IsOver, EndedStay
<1>2. ASSUME uSteer'.msg # NoMsg, op'.phase = "read", NEW l \in Coming', l.ok PROVE IsOver(l.view)'
  <2>1. UNCHANGED uSteer BY <1>2
  <2>2. IsOver(l.view) BY <1>2, <2>1 DEF RestContext, RestInvariant, SteersAreOver
  <2> QED BY <2>1, <2>2 DEF IsOver
<1>3. op'.phase = "settle" => ~LiveAt(op'.view, op'.turn) BY DEF RestContext, RestInvariant, SteersAreOver
<1> QED BY <1>1, <1>2, <1>3 DEF SteersAreOver, IsOver

LEMMA StartsEndOn ==
  ASSUME RestContext, UNCHANGED <<turns, op, wire>>, alive' => alive \/ ~Starting, WillShow' => WillShow
  PROVE  StartsEnd'
BY DEF RestContext, RestInvariant, StartsEnd, Starting, Ends, LiveAt

----
(* Operations take the lock and continue; the wire stays. *)

LEMMA HolderAtRest ==
  ASSUME RestContext, NoneAwaited, UNCHANGED <<turns, alive, subscribed, link, wire>>,
         req'.orphan => req' = req,
         ShowsOne(reg') => Raises(0), UNCHANGED reg \/ KnownActive(reg'),
         UNCHANGED uSteer \/ uSteer'.msg = NoMsg,
         op'.phase \in {"read", "mutate"} => op'.reply \in {NoReply, Refused},
         op'.kind = "steer" => op'.turn <= Len(turns) \/ (op.kind = "steer" /\ op'.turn = op.turn),
         op'.phase = "settle" => ~LiveAt(op'.view, op'.turn)
  PROVE  RestInvariant'
<1>1. TypeInv /\ NoReplies(wire) /\ EndedStay /\ LiveTurn' = LiveTurn /\ ~Refused.ok
  BY RestFacts, NoneAwaitedMeans, SameStay DEF Refused, Reply, Line
<1>2. ASSUME NEW i \in Positions', Raises(i)' PROVE i \in Positions /\ Raises(i)
  <2>1. i \in Positions BY DEF Positions
  <2>2. CASE i = 0
    <3>1. ~WillShow' BY <1>1 DEF WillShow, Starting
    <3>2. ShowsOne(reg') BY <1>2, <2>2, <3>1 DEF Raises, ShowsOne, RestContext
    <3> QED BY <2>1, <2>2, <3>2
  <2>3. CASE i # 0
    <3>1. i \in DOMAIN wire BY <2>1, <2>3, RestFacts DEF Positions
    <3>2. wire[i].kind # "reply" BY <1>1, <3>1 DEF NoReplies
    <3> QED BY <1>2, <2>1, <2>3, <3>2 DEF Raises, Tells
  <2> QED BY <2>2, <2>3
<1>3. EndsAreTold'
  <2> SUFFICES ASSUME alive', ~LiveTurn', NEW i \in Positions', Raises(i)'
               PROVE  \E e \in DOMAIN wire' : i < e /\ Clears(wire'[e])
    BY DEF EndsAreTold, Clears
  <2>1. \E e \in DOMAIN wire : i < e /\ Clears(wire[e])
    BY <1>1, <1>2 DEF RestContext, RestInvariant, EndsAreTold
  <2> QED BY <2>1
<1>4. UnheardIsNotShown' BY <1>2 DEF RestContext, RestInvariant, UnheardIsNotShown
<1>5. ChildEnds' BY <1>1 DEF RestContext, RestInvariant, ChildEnds
<1>6. ActiveIsKnown' BY <1>1, RestFacts, ActiveStays
<1>7. SteersAreOver'
  <2>1. op'.phase = "read" => \A l \in Coming' : ~l.ok BY <1>1 DEF Coming, OnWire, NoReplies
  <2> QED BY <1>1, <2>1, SteersStay
<1>8. StartsEnd'
  <2>1. ~WillShow' BY <1>1 DEF WillShow, Starting
  <2>2. \A i \in DOMAIN wire' : wire'[i].kind # "reply" BY <1>1 DEF NoReplies
  <2> QED BY <2>1, <2>2 DEF StartsEnd
<1> QED BY <1>3, <1>4, <1>5, <1>6, <1>7, <1>8 DEF RestInvariant

LEMMA AskAtRest ==
  ASSUME RestContext, NoneAwaited, UNCHANGED <<turns, alive, subscribed, link, wire, reg, uSteer>>,
         NEW o \in Operations, NEW phase \in Awaits, NEW m, NEW t, Ask(o, phase, m, t),
         o.kind = "steer" => o.turn <= Len(turns) \/ (op.kind = "steer" /\ o.turn = op.turn)
  PROVE  RestInvariant'
<1>1. op'.kind = o.kind /\ op'.phase = phase /\ op'.turn = o.turn /\ op'.reply \in {NoReply, Refused} /\ phase # "settle"
  BY AskMeans DEF Awaits
<1>2. req'.orphan => req' = req BY AskOrphan
<1>3. ShowsOne(reg') => Raises(0) BY DEF Raises
<1> QED BY <1>1, <1>2, <1>3, HolderAtRest

LEMMA TurnedAwayAtRest ==
  ASSUME RestContext, NoneAwaited, UNCHANGED <<turns, alive, subscribed, link, wire, reg, uSteer, req>>,
         op' = op \/ op' = NoOp, op.phase \in {"none", "resume"}
  PROVE  RestInvariant'
<1>1. op'.phase \notin {"read", "mutate", "settle"} /\ (op'.kind = "steer" => op.kind = "steer" /\ op'.turn = op.turn)
  BY NoOpMeans
<1>2. ShowsOne(reg') => Raises(0) BY DEF Raises
<1> QED BY <1>1, <1>2, HolderAtRest

LEMMA FreeLock ==
  ASSUME RestContext, LockFree
  PROVE  NoneAwaited /\ op.phase = "none"
BY RestFacts, LockFreeMeans DEF TypeInv, MessagesInFlight, LockFree

LEMMA QuietStepsAtRest ==
  ASSUME RestContext,
         \/ \E m \in Msgs : AcceptStart(m) \/ AcceptScheduled(m) \/ AcceptSteer(m)
         \/ AcceptResolve
         \/ ListDisconnected
         \/ FinishTimer
  PROVE  RestInvariant'
<1>1. UNCHANGED <<turns, alive, subscribed, req, link, wire, op, uSteer>>
  BY DEF AcceptStart, AcceptScheduled, AcceptSteer, Accept, AcceptResolve, ListDisconnected, FinishTimer,
    server, transport, session
<1>2. UNCHANGED reg \/ (reg.state = "finished" /\ reg' = [reg EXCEPT !.state = "idle"])
  BY DEF AcceptStart, AcceptScheduled, AcceptSteer, Accept, AcceptResolve, ListDisconnected, FinishTimer
<1>3. (UNCHANGED reg \/ KnownActive(reg')) /\ (IsShown(reg') => IsShown(reg))
  BY <1>2, RestFacts DEF Runtime, IsShown, KnownActive
<1>4. EndedStay /\ LiveTurn' = LiveTurn BY <1>1, RestFacts, SameStay
<1>5. \A i : Raises(i)' => Raises(i)
  <2>1. ShowsOne(reg)' => ShowsOne(reg)
    <3>1. reg' = reg \/ ~IsShown(reg') BY <1>2, RestFacts DEF Runtime, IsShown, KnownActive
    <3> QED BY <3>1 DEF ShowsOne, RestContext
  <2>2. WillShow' => WillShow BY <1>1 DEF WillShow, Starting, RestContext
  <2> QED BY <1>1, <2>1, <2>2 DEF Raises, Tells, Starting
<1>6. Positions' = Positions /\ Coming' = Coming BY <1>1 DEF Positions, Coming, OnWire
<1>7. EndsAreTold'
  <2> SUFFICES ASSUME alive', ~LiveTurn', NEW i \in Positions', Raises(i)'
               PROVE  \E e \in DOMAIN wire' : i < e /\ Clears(wire'[e])
    BY DEF EndsAreTold, Clears
  <2>1. \E e \in DOMAIN wire : i < e /\ Clears(wire[e])
    BY <1>1, <1>4, <1>5, <1>6 DEF RestContext, RestInvariant, EndsAreTold
  <2> QED BY <1>1, <2>1
<1>8. UnheardIsNotShown' /\ ChildEnds'
  BY <1>1, <1>4, <1>5, <1>6 DEF RestContext, RestInvariant, UnheardIsNotShown, ChildEnds
<1>9. ActiveIsKnown' /\ SteersAreOver'
  <2>1. Len(turns) <= Len(turns') BY <1>4 DEF EndedStay
  <2> QED BY <1>1, <1>3, <1>4, <1>6, <2>1, ActiveStays, SteersStay
<1>10. StartsEnd'
  <2>1. WillShow' => WillShow BY <1>1 DEF WillShow, Starting, RestContext
  <2> QED BY <1>1, <2>1, StartsEndOn
<1> QED BY <1>7, <1>8, <1>9, <1>10 DEF RestInvariant

LEMMA BeginStartAtRest ==
  ASSUME RestContext, NEW m \in waiting, BeginStart(m) \/ BeginScheduled(m)
  PROVE  RestInvariant'
<1>1. /\ LockFree
      /\ UNCHANGED <<turns, alive, subscribed, link, wire, reg, uSteer>>
  BY DEF BeginStart, BeginScheduled, Take, transport
<1>2. NoneAwaited /\ op.phase = "none" BY <1>1, FreeLock
<1>3. m.kind \in {"start", "scheduled"} => m.msg \in MaybeMsg
  BY RestFacts, Constants DEF TypeInv, MessagesInFlight
<1>4. CASE UNCHANGED <<op, req>> BY <1>1, <1>2, <1>4, TurnedAwayAtRest
<1>5. ASSUME NEW kind \in {"start", "scheduled"}, m.kind = kind,
             Ask([Operation(kind, "resume") EXCEPT !.msg = m.msg], "resume", NoMsg, 0)
      PROVE  RestInvariant'
  <2> DEFINE o == [Operation(kind, "resume") EXCEPT !.msg = m.msg]
  <2>1. o \in Operations /\ o.kind = kind BY <1>3, <1>5, OperationTypes DEF Operations
  <2> HIDE DEF o
  <2>2. Ask(o, "resume", NoMsg, 0) /\ "resume" \in Awaits BY <1>5 DEF o, Awaits
  <2> QED BY <1>1, <1>2, <2>1, <2>2, AskAtRest
<1>6. CASE op' = [Operation("start", "ready") EXCEPT !.msg = m.msg] /\ UNCHANGED req
  <2>1. op'.phase = "ready" /\ op'.kind = "start" BY <1>6 DEF Operation, NoOp
  <2>2. ShowsOne(reg') => Raises(0) BY <1>1 DEF Raises
  <2> QED BY <1>1, <1>2, <1>6, <2>1, <2>2, HolderAtRest
<1>7. CASE BeginStart(m) BY <1>4, <1>5, <1>6, <1>7 DEF BeginStart, Take
<1>8. CASE BeginScheduled(m) BY <1>4, <1>5, <1>8 DEF BeginScheduled, Take
<1> QED BY <1>7, <1>8

LEMMA BeginSteerAtRest ==
  ASSUME RestContext, NEW m \in waiting, BeginSteer(m)
  PROVE  RestInvariant'
<1>1. LockFree /\ UNCHANGED <<turns, alive, subscribed, link, wire, reg, uSteer, req>>
  BY DEF BeginSteer, Take, transport, server
<1>2. NoneAwaited /\ op.phase = "none" BY <1>1, FreeLock
<1>3. CASE UNCHANGED op BY <1>1, <1>2, <1>3, TurnedAwayAtRest
<1>4. CASE reg.active = m.turn /\ op' = [Operation("steer", "ready") EXCEPT !.msg = m.msg, !.turn = m.turn]
  <2>1. op'.phase = "ready" /\ op'.kind = "steer" /\ op'.turn = m.turn BY <1>4 DEF Operation, NoOp
  <2>2. op'.turn <= Len(turns) BY <1>4, <2>1, RestFacts DEF KnownActive
  <2>3. ShowsOne(reg') => Raises(0) BY <1>1 DEF Raises
  <2> QED BY <1>1, <1>2, <2>1, <2>2, <2>3, HolderAtRest
<1> QED BY <1>3, <1>4 DEF BeginSteer

LEMMA BeginReadAtRest ==
  ASSUME RestContext, BeginRead \/ BeginReconcile
  PROVE  RestInvariant'
<1>1. /\ LockFree /\ UNCHANGED <<turns, alive, subscribed, link, wire, reg, uSteer>>
      /\ \E kind \in {"read", "reconcile"} : Ask(Operation(kind, "resume"), "resume", NoMsg, 0)
  BY DEF BeginRead, BeginReconcile, transport
<1>2. PICK kind \in {"read", "reconcile"} : Ask(Operation(kind, "resume"), "resume", NoMsg, 0) BY <1>1
<1>3. Operation(kind, "resume") \in Operations /\ Operation(kind, "resume").kind # "steer"
  BY <1>2, OperationTypes
<1>4. NoneAwaited BY <1>1, FreeLock
<1> QED BY <1>1, <1>2, <1>3, <1>4, AskAtRest DEF Awaits

LEMMA BeginResolveAtRest ==
  ASSUME RestContext, BeginResolve
  PROVE  RestInvariant'
<1> DEFINE o == [Operation("resolve", "read") EXCEPT !.msg = uSteer.msg, !.turn = uSteer.turn, !.base = uTurn.base]
<1>1. /\ LockFree /\ UNCHANGED <<turns, alive, subscribed, link, wire, reg, uSteer>>
      /\ UNCHANGED <<op, req>> \/ Ask(o, "read", NoMsg, 0)
  BY DEF BeginResolve, Take, transport
<1>2. o \in Operations /\ o.kind = "resolve" BY OperationTypes, PendingParts, RestFacts DEF Operations
<1>3. NoneAwaited /\ op.phase = "none" BY <1>1, FreeLock
<1> HIDE DEF o
<1>4. CASE UNCHANGED <<op, req>> BY <1>1, <1>3, <1>4, TurnedAwayAtRest
<1>5. CASE Ask(o, "read", NoMsg, 0) BY <1>1, <1>2, <1>3, <1>5, AskAtRest DEF Awaits
<1> QED BY <1>1, <1>4, <1>5

LEMMA ResumedAtRest ==
  ASSUME RestContext, Resumed
  PROVE  RestInvariant'
<1>1. /\ UNCHANGED <<turns, alive, subscribed, link, wire, reg, uSteer>>
      /\ op.phase = "resume" /\ op \in Operations /\ NoneAwaited
  BY RestFacts DEF Resumed, Settled, transport, NoneAwaited
<1>2. CASE Release(op.kind) /\ UNCHANGED req BY <1>1, <1>2, TurnedAwayAtRest DEF Release
<1>3. CASE op.kind = "start" /\ op' = [op EXCEPT !.phase = "ready", !.reply = NoReply] /\ UNCHANGED req
  <2>1. op'.kind = op.kind /\ op'.phase = "ready" BY <1>1, <1>3 DEF Operations
  <2>2. ShowsOne(reg') => Raises(0) BY <1>1 DEF Raises
  <2> QED BY <1>1, <1>3, <2>1, <2>2, HolderAtRest
<1>4. CASE Ask(op, "read", NoMsg, 0) BY <1>1, <1>4, AskAtRest DEF Awaits
<1> QED BY <1>2, <1>3, <1>4 DEF Resumed

LEMMA DelayOverAtRest ==
  ASSUME RestContext, DelayOver
  PROVE  RestInvariant'
<1>1. /\ UNCHANGED <<turns, alive, subscribed, link, wire, reg, uSteer>>
      /\ Ask(op, "read", NoMsg, 0) /\ op \in Operations /\ NoneAwaited
  BY RestFacts DEF DelayOver, transport, NoneAwaited, Awaits
<1> QED BY <1>1, AskAtRest DEF Awaits

LEMMA SendAtRest ==
  ASSUME RestContext, Send
  PROVE  RestInvariant'
<1> DEFINE o == [op EXCEPT !.base = IF op.kind = "start" THEN LastOf(cache) ELSE @]
<1>1. /\ UNCHANGED <<turns, alive, subscribed, link, wire, reg, uSteer>>
      /\ Ask(o, "mutate", op.msg, op.turn) /\ op \in Operations /\ cache \in View /\ NoneAwaited
  BY RestFacts, TypedParts DEF Send, transport, NoneAwaited, Awaits
<1>2. o \in Operations /\ o.kind = op.kind /\ o.turn = op.turn BY <1>1, LastOfType DEF Operations
<1> HIDE DEF o
<1> QED BY <1>1, <1>2, AskAtRest DEF Awaits

LEMMA RespondedAtRest ==
  ASSUME RestContext, Responded
  PROVE  RestInvariant'
<1>1. /\ UNCHANGED <<turns, alive, subscribed, req, link, wire, uSteer>> /\ op' = NoOp /\ NoneAwaited
      /\ op.phase = "mutate" /\ op.reply # NoReply
      /\ \/ UNCHANGED reg
         \/ op.kind = "start" /\ op.reply.ok /\ reg' = SetActiveTurn(op.reply.turn)
  BY DEF Responded, Release, Settled, server, transport, NoneAwaited
<1>2. ShowsOne(reg') => Raises(0)
  <2>1. CASE UNCHANGED reg BY <2>1 DEF Raises
  <2>2. CASE op.kind = "start" /\ op.reply.ok /\ reg' = SetActiveTurn(op.reply.turn)
    <3>1. reg'.active = op.reply.turn BY <2>2 DEF SetActiveTurn, Idle
    <3> QED BY <1>1, <2>2, <3>1 DEF Raises, ShowsOne, WillShow, Starting
  <2> QED BY <1>1, <2>1, <2>2
<1>3. UNCHANGED reg \/ KnownActive(reg')
  <2>1. op.reply.turn <= Len(turns) BY RestFacts DEF Context, MessageInvariant, KnownTurns, HolderKnown, Known
  <2> QED BY <1>1, <2>1 DEF KnownActive, SetActiveTurn, Idle
<1> QED BY <1>1, <1>2, <1>3, NoOpMeans, HolderAtRest

\* A snapshot makes the runtime show no Turn.
LEMMA ReconcileShows ==
  ASSUME NEW r \in Runtime, NEW view \in View, NEW accept \in BOOLEAN
  PROVE  ~IsShown(ReconcileSnapshot(r, view, accept).reg)
<1> DEFINE last == LastOf(view)
           uncertain == r.interrupted = Unknown /\ r.baseline # Absent
           unchanged == uncertain /\ last \in {0, r.baseline}
           unsettled == r.interrupted > 0 /\ ~(r.interrupted \in DOMAIN view /\ ~LiveAt(view, r.interrupted))
           unresolved == \/ last = 0 /\ ~(unchanged /\ accept)
                         \/ LiveAt(view, last)
                         \/ unsettled
                         \/ unchanged /\ ~accept
           next == ReconcileSnapshot(r, view, accept).reg
<1>1. next = CASE unresolved -> [r EXCEPT !.state = "disconnected", !.active = 0, !.flag = uncertain]
               [] ~unresolved /\ last = 0 -> Idle
               [] OTHER -> Finished
  BY DEF ReconcileSnapshot
<1> HIDE DEF unresolved, next, last
<1>2. \/ next = [r EXCEPT !.state = "disconnected", !.active = 0, !.flag = uncertain]
      \/ next \in {Idle, Finished}
  BY <1>1
<1> HIDE DEF uncertain
<1>3. /\ [r EXCEPT !.state = "disconnected", !.active = 0, !.flag = uncertain].state = "disconnected"
      /\ [r EXCEPT !.state = "disconnected", !.active = 0, !.flag = uncertain].active = 0
  BY DEF Runtime
<1>4. Idle.state = "idle" /\ Idle.active = 0 /\ Finished.state = "finished" /\ Finished.active = 0
  BY DEF Idle, Finished
<1>5. ~IsShown(next) BY <1>2, <1>3, <1>4 DEF IsShown
<1> QED BY <1>5 DEF next

LEMMA ConfirmShows ==
  ASSUME NEW r \in Runtime, NEW view \in View
  PROVE  ~IsShown(ConfirmApplied(r, view, 0)) /\ ~IsShown(ConfirmNotApplied(r, view, 0))
<1>1. [r EXCEPT !.baseline = Absent, !.flag = FALSE] \in Runtime BY DEF Runtime
<1> QED BY <1>1, ReconcileShows DEF ConfirmApplied, ConfirmNotApplied

LEMMA HiddenIsKnown ==
  ASSUME RestContext, UNCHANGED turns, ~IsShown(reg')
  PROVE  KnownActive(reg') /\ (ShowsOne(reg') => Raises(0))
BY RestFacts DEF IsShown, ShowsOne, KnownActive

\* Merging keeps what a response says of the uncertain steer's Turn.
LEMMA MergedIsOver ==
  ASSUME NEW v \in View, NEW w \in View, IsOver(v)
  PROVE  ~LiveAt(Merge(v, w), uSteer.turn)
<1> DEFINE t == uSteer.turn
<1>1. t \in DOMAIN v /\ v[t] \in Turn /\ ~Running(v[t]) BY ViewElements DEF IsOver
<1>2. Merge(v, w)[t] \in {v[t], [v[t] EXCEPT !.msgs = @ \cup w[t].msgs]} BY <1>1 DEF Merge
<1>3. [v[t] EXCEPT !.msgs = @ \cup w[t].msgs].status = v[t].status BY <1>1 DEF Turn
<1> QED BY <1>1, <1>2, <1>3 DEF LiveAt, Running

\* The response that has come says so, too.
LEMMA AnsweredIsOver ==
  ASSUME RestContext, op.phase = "read", op.reply # NoReply, op.reply.ok
  PROVE  uSteer.msg # NoMsg => IsOver(op.reply.view)
BY DEF RestContext, RestInvariant, SteersAreOver, Coming

LEMMA NoTurnIsLive == ASSUME NEW view \in View PROVE ~LiveAt(view, 0)
BY ViewElements, ConstantsAssumption DEF LiveAt, Numbers

\* What an operation is that ends, goes on as a start, or pauses.
LEMMA EndingFields ==
  ASSUME RestContext, NEW view \in View,
         Release(op.kind) \/ Proceed(reg, uTurn) \/ Proceed(reg', uTurn') \/ Retry(view)
  PROVE  /\ op'.phase \in {"none", "ready", "delay"}
         /\ op'.kind = "steer" => op.kind = "steer" /\ op'.turn = op.turn
<1> DEFINE o == [op EXCEPT !.phase = "delay", !.reply = NoReply, !.tries = op.tries + 1, !.view = view]
<1>1. o.phase = "delay" /\ o.kind = op.kind /\ o.turn = op.turn BY RestFacts, DelayFields
<1> HIDE DEF o
<1>2. \/ op' = NoOp
      \/ op' = [Operation("start", "ready") EXCEPT !.msg = op.msg]
      \/ op' = o
  BY DEF Release, Proceed, Retry, o
<1>3. CASE op' = [Operation("start", "ready") EXCEPT !.msg = op.msg]
  <2>1. op'.phase = "ready" /\ op'.kind = "start" BY <1>3 DEF Operation, NoOp
  <2> QED BY <2>1
<1> QED BY <1>1, <1>2, <1>3, NoOpMeans

LEMMA DecidedAtRest ==
  ASSUME RestContext, NoneAwaited, UNCHANGED <<turns, alive, subscribed, req, link, wire>>,
         UNCHANGED reg \/ ~IsShown(reg'),
         uSteer' \in {uSteer, NoUncertainSteer},
         op'.phase \in {"none", "ready", "delay"},
         op'.kind = "steer" => op.kind = "steer" /\ op'.turn = op.turn
  PROVE  RestInvariant'
<1>1. ShowsOne(reg') => Raises(0) BY DEF Raises, ShowsOne
<1>2. UNCHANGED reg \/ KnownActive(reg') BY HiddenIsKnown
<1>3. UNCHANGED uSteer \/ uSteer'.msg = NoMsg BY NoOpMeans
<1> QED BY <1>1, <1>2, <1>3, HolderAtRest

LEMMA ReconcileRuntimeAtRest ==
  ASSUME RestContext, NoneAwaited, UNCHANGED <<turns, alive, subscribed, req, link, wire>>,
         NEW view \in View, uSteer.msg # NoMsg => ~LiveAt(view, uSteer.turn), ReconcileRuntime(view)
  PROVE  RestInvariant'
<1> DEFINE r == ReconcileSnapshot(reg, view, FALSE)
           steered == IF LiveAt(view, uSteer.turn) THEN uSteer.turn ELSE 0
<1>1. uSteer' \in {uSteer, NoUncertainSteer} /\ (Proceed(reg', uTurn') \/ Retry(view)) BY DEF ReconcileRuntime
<1>2. reg \in Runtime /\ r.reg \in Runtime /\ ~IsShown(r.reg) BY RestFacts, ReconcileTypes, ReconcileShows
<1>3. uSteer.msg # NoMsg => steered = 0 OBVIOUS
<1>4. \/ UNCHANGED reg
      \/ reg' = r.reg
      \/ reg' = ConfirmApplied(r.reg, view, 0)
      \/ uSteer.msg # NoMsg /\ reg' = ConfirmApplied(reg, view, steered)
  BY DEF ReconcileRuntime
<1> HIDE DEF r, steered
<1>5. UNCHANGED reg \/ ~IsShown(reg') BY <1>2, <1>3, <1>4, ConfirmShows
<1> QED BY <1>1, <1>5, EndingFields, DecidedAtRest

LEMMA ReadDoneAtRest ==
  ASSUME RestContext, ReadDone
  PROVE  RestInvariant'
<1> DEFINE view == IF op.tries > 0 THEN Merge(op.reply.view, op.view)
                   ELSE IF op.kind = "read" THEN Merge(op.reply.view, cache)
                   ELSE op.reply.view
<1>1. /\ UNCHANGED <<turns, alive, subscribed, link, wire, req>> /\ NoneAwaited
      /\ op.phase = "read" /\ op.reply # NoReply
  BY DEF ReadDone, Settled, server, transport, NoneAwaited
<1>2. op.reply.view \in View /\ op.view \in View /\ cache \in View BY RestFacts, TypedParts
<1>3. CASE UNCHANGED <<reg, uSteer>> /\ (Release(op.kind) \/ Proceed(reg, uTurn))
  BY <1>1, <1>2, <1>3, EndingFields, DecidedAtRest
<1>4. CASE op.reply.ok /\ ReconcileRuntime(view)
  <2>1. view \in View BY <1>2, MergeType
  <2>2. ASSUME uSteer.msg # NoMsg PROVE ~LiveAt(view, uSteer.turn)
    <3>1. IsOver(op.reply.view) BY <1>1, <1>4, <2>2, AnsweredIsOver
    <3>2. ~LiveAt(op.reply.view, uSteer.turn) BY <3>1 DEF IsOver, LiveAt
    <3> QED BY <1>2, <3>1, <3>2, MergedIsOver
  <2> HIDE DEF view
  <2> QED BY <1>1, <1>4, <2>1, <2>2, ReconcileRuntimeAtRest
<1> QED BY <1>3, <1>4 DEF ReadDone

LEMMA ResolveReadAtRest ==
  ASSUME RestContext, ResolveRead
  PROVE  RestInvariant'
<1> DEFINE view == Merge(op.reply.view, cache)
           m == IF op.msg # NoMsg THEN op.msg ELSE uTurn.msg
           steered == IF op.msg # NoMsg /\ LiveAt(view, op.turn) THEN op.turn ELSE 0
<1>1. /\ UNCHANGED <<turns, alive, subscribed, link, wire, req>> /\ op \in Operations
      /\ op.kind = "resolve" /\ op.phase = "read" /\ op.reply # NoReply /\ NoneAwaited
  BY RestFacts DEF ResolveRead, Settled, server, transport, NoneAwaited
<1>2. op.msg = uSteer.msg /\ op.turn = uSteer.turn
  BY <1>1, RestFacts DEF Context, MessageInvariant, Whereabouts, ResolvesWhatItFound
<1>3. op.reply.view \in View /\ cache \in View /\ view \in View /\ reg \in Runtime
  BY RestFacts, TypedParts, MergeType
<1>4. op.reply.ok => ~LiveAt(view, op.turn)
  <2>1. CASE uSteer.msg # NoMsg BY <1>1, <1>2, <1>3, <2>1, AnsweredIsOver, MergedIsOver
  <2>2. CASE uSteer.msg = NoMsg
    <3>1. op.turn = 0 BY <1>2, <2>2, RestFacts
    <3> HIDE DEF view
    <3> QED BY <1>3, <3>1, NoTurnIsLive
  <2> QED BY <2>1, <2>2
<1>5. CASE Release(op.kind) /\ UNCHANGED <<uSteer, reg>> BY <1>1, <1>3, <1>5, EndingFields, DecidedAtRest
<1>6. CASE /\ op.reply.ok /\ uSteer' \in {uSteer, NoUncertainSteer}
           /\ reg' = ConfirmApplied(reg, view, steered)
           /\ Release(op.kind)
  <2>1. steered = 0 BY <1>4, <1>6
  <2>2. ~IsShown(reg') BY <1>3, <1>6, <2>1, ConfirmShows
  <2> HIDE DEF view, steered
  <2> QED BY <1>1, <1>3, <1>6, <2>2, EndingFields, DecidedAtRest
<1>7. CASE /\ op.reply.ok /\ UNCHANGED <<uSteer, reg>>
           /\ op' = [op EXCEPT !.phase = "settle", !.reply = NoReply, !.view = view, !.msg = m]
  <2> HIDE DEF view, m
  <2>1. op'.kind = "resolve" /\ op'.turn = op.turn /\ op'.view = view /\ op'.phase = "settle"
    BY <1>1, <1>3, <1>7, SettleFields
  <2>2. ShowsOne(reg') => Raises(0) BY <1>7 DEF Raises
  <2> QED BY <1>1, <1>4, <1>7, <2>1, <2>2, HolderAtRest
<1> QED BY <1>5, <1>6, <1>7 DEF ResolveRead

LEMMA ResolveNotAppliedAtRest ==
  ASSUME RestContext, ResolveNotApplied
  PROVE  RestInvariant'
<1>1. /\ UNCHANGED <<turns, alive, subscribed, link, wire, req>> /\ op.phase = "settle" /\ Release(op.kind)
      /\ uSteer' \in {uSteer, NoUncertainSteer} /\ NoneAwaited
      /\ reg' = ConfirmNotApplied(reg, op.view, IF LiveAt(op.view, op.turn) THEN op.turn ELSE 0)
  BY DEF ResolveNotApplied, server, transport, NoneAwaited, Awaits
<1>2. ~LiveAt(op.view, op.turn) BY <1>1 DEF RestContext, RestInvariant, SteersAreOver
<1>3. reg \in Runtime /\ op.view \in View BY RestFacts, TypedParts
<1>4. ~IsShown(reg') BY <1>1, <1>2, <1>3, ConfirmShows
<1> QED BY <1>1, <1>3, <1>4, EndingFields, DecidedAtRest

----
(* Lines reach the web server. *)

LEMMA ReceivedAtRest ==
  ASSUME RestContext, NEW kind, Receive(kind),
         UNCHANGED <<turns, alive, subscribed, req, link, uSteer>>,
         kind = "completed" => {Head(wire).turn} \cap StartedHere \subseteq overtaken',
         IF kind = "reply" THEN op' = [op EXCEPT !.reply = Head(wire)] ELSE UNCHANGED op,
         IsShown(reg') => (UNCHANGED reg /\ ~Clears(Head(wire))) \/ Tells(Head(wire)),
         UNCHANGED reg \/ KnownActive(reg')
  PROVE  RestInvariant'
<1>1. /\ Len(wire) \in Nat /\ Len(wire') \in Nat /\ Len(wire) = Len(wire') + 1
      /\ DOMAIN wire = 1 .. Len(wire) /\ DOMAIN wire' = 1 .. Len(wire')
      /\ \A i \in DOMAIN wire' : wire'[i] = wire[i + 1] /\ i + 1 \in DOMAIN wire
      /\ 1 \in DOMAIN wire /\ wire[1].kind = kind /\ Head(wire) = wire[1]
  BY RestFacts, OneLineLess
<1>2. /\ op'.kind = op.kind /\ op'.phase = op.phase /\ op'.turn = op.turn /\ op'.view = op.view
      /\ op'.reply = IF kind = "reply" THEN wire[1] ELSE op.reply
  BY <1>1, RestFacts DEF Operations
<1>3. EndedStay /\ LiveTurn' = LiveTurn BY RestFacts, SameStay
<1>4. WillShow' => WillShow \/ (kind = "reply" /\ Tells(wire[1]))
  <2> SUFFICES ASSUME WillShow' PROVE WillShow \/ (kind = "reply" /\ Tells(wire[1])) OBVIOUS
  <2>1. Starting BY <1>2 DEF WillShow, Starting
  <2> QED BY <1>1, <1>2, <2>1 DEF WillShow, Tells, RestContext
<1>5. ShowsOne(reg)' => (ShowsOne(reg) /\ ~Clears(wire[1])) \/ Tells(wire[1])
  <2> SUFFICES ASSUME ShowsOne(reg)', ~Tells(wire[1]) PROVE ShowsOne(reg) /\ ~Clears(wire[1]) OBVIOUS
  <2>1. IsShown(reg') /\ reg'.active \notin overtaken BY DEF ShowsOne, RestContext
  <2>2. IsShown(reg) /\ ~Clears(wire[1]) /\ reg' = reg BY <1>1, <2>1
  <2> QED BY <2>1, <2>2 DEF ShowsOne
<1>6. ASSUME NEW i \in Positions', Raises(i)', i # 0 PROVE i \in DOMAIN wire' /\ Tells(wire[i + 1])
  <2>1. i \in DOMAIN wire' /\ wire'[i] = wire[i + 1] BY <1>1, <1>6 DEF Positions
  <2> QED BY <1>2, <1>6, <2>1 DEF Raises, Tells, Starting
<1>7. ASSUME NEW i \in Positions', Raises(i)'
      PROVE  /\ \E p \in Positions : Raises(p)
             /\ \/ i = 0 /\ WillShow'
                \/ i = 0 /\ 0 \in Positions /\ Raises(0) /\ ~Clears(wire[1])
                \/ i + 1 \in Positions /\ Raises(i + 1)
  <2>1. i \in Nat /\ i + 1 \in Positions /\ 0 \in Positions /\ 1 \in Positions /\ i + 1 # 0
    BY <1>1 DEF Positions
  <2>2. Tells(wire[1]) => Raises(1) BY DEF Raises
  <2>3. CASE i = 0 /\ WillShow'
    <3>1. Raises(0) \/ Raises(1) BY <1>4, <2>2, <2>3 DEF Raises
    <3> QED BY <2>1, <2>3, <3>1
  <2>4. CASE i = 0 /\ ShowsOne(reg)'
    <3>1. (Raises(0) /\ ~Clears(wire[1])) \/ Raises(1) BY <1>5, <2>2, <2>4 DEF Raises
    <3> QED BY <2>1, <2>4, <3>1
  <2>5. CASE i # 0
    <3>1. Raises(i + 1) BY <1>6, <1>7, <2>1, <2>5 DEF Raises
    <3> QED BY <2>1, <3>1
  <2>6. i = 0 => WillShow' \/ ShowsOne(reg)' BY <1>7 DEF Raises
  <2> QED BY <2>3, <2>4, <2>5, <2>6
<1>13. ASSUME NEW t, NEW i \in Nat, Ends(wire, t, i), i # 0 \/ kind # "completed" \/ wire[1].turn # t
       PROVE  \E e \in DOMAIN wire' : i < e + 1 /\ wire'[e].kind = "completed" /\ wire'[e].turn = t
  <2>1. PICK e \in DOMAIN wire : i < e /\ wire[e].kind = "completed" /\ wire[e].turn = t BY <1>13 DEF Ends
  <2>2. e \in Nat /\ e # 1 BY <1>1, <1>13, <2>1
  <2>3. e - 1 \in DOMAIN wire' /\ wire'[e - 1] = wire[e] /\ i < (e - 1) + 1 BY <1>1, <2>1, <2>2
  <2> QED BY <2>1, <2>3
<1>14. StartsEnd'
  <2> SUFFICES ASSUME alive', Starting' PROVE
        /\ WillShow' => LiveAt(turns, op'.reply.turn) \/ Ends(wire', op'.reply.turn, 0)
        /\ \A i \in DOMAIN wire' : wire'[i].kind = "reply" /\ wire'[i].ok =>
              LiveAt(turns, wire'[i].turn) \/ Ends(wire', wire'[i].turn, i)
    BY DEF StartsEnd, LiveAt
  <2>1. alive /\ Starting BY <1>2 DEF Starting
  <2>2. ASSUME NEW i \in DOMAIN wire', wire'[i].kind = "reply", wire'[i].ok
        PROVE  LiveAt(turns, wire'[i].turn) \/ Ends(wire', wire'[i].turn, i)
    <3>1. i \in Nat /\ i + 1 \in Nat /\ i + 1 # 0 /\ i + 1 \in DOMAIN wire /\ wire'[i] = wire[i + 1] BY <1>1
    <3>2. LiveAt(turns, wire'[i].turn) \/ Ends(wire, wire'[i].turn, i + 1)
      BY <2>1, <2>2, <3>1 DEF RestContext, RestInvariant, StartsEnd
    <3>3. CASE Ends(wire, wire'[i].turn, i + 1)
      <4>1. PICK e \in DOMAIN wire' : i + 1 < e + 1 /\ wire'[e].kind = "completed" /\ wire'[e].turn = wire'[i].turn
        BY <1>13, <3>1, <3>3
      <4>2. i < e BY <1>1, <3>1, <4>1
      <4> QED BY <4>1, <4>2 DEF Ends
    <3> QED BY <3>2, <3>3
  <2>3. ASSUME WillShow' PROVE LiveAt(turns, op'.reply.turn) \/ Ends(wire', op'.reply.turn, 0)
    <3>1. CASE kind = "reply"
      <4>1. op'.reply = wire[1] /\ 1 \in Nat /\ 1 \in DOMAIN wire /\ wire[1].ok /\ wire[1].kind = "reply"
        BY <1>1, <1>2, <2>3, <3>1 DEF WillShow
      <4>2. LiveAt(turns, wire[1].turn) \/ Ends(wire, wire[1].turn, 1)
        BY <2>1, <4>1 DEF RestContext, RestInvariant, StartsEnd
      <4>3. CASE Ends(wire, wire[1].turn, 1)
        <5>1. PICK e \in DOMAIN wire' : 1 < e + 1 /\ wire'[e].kind = "completed" /\ wire'[e].turn = wire[1].turn
          BY <1>13, <4>1, <4>3
        <5>2. 0 < e BY <1>1, <5>1
        <5> QED BY <4>1, <5>1, <5>2 DEF Ends
      <4> QED BY <4>1, <4>2, <4>3
    <3>2. CASE kind # "reply"
      <4>1. op'.reply = op.reply /\ WillShow /\ op.reply.turn \notin overtaken'
        BY <1>2, <1>4, <2>3, <3>2 DEF WillShow
      <4>2. kind = "completed" => wire[1].turn # op.reply.turn
        BY <1>1, <4>1 DEF WillShow, Starting, StartedHere, Settled
      <4>3. LiveAt(turns, op.reply.turn) \/ Ends(wire, op.reply.turn, 0)
        BY <2>1, <4>1 DEF RestContext, RestInvariant, StartsEnd
      <4>4. CASE Ends(wire, op.reply.turn, 0)
        <5>1. PICK e \in DOMAIN wire' : 0 < e + 1 /\ wire'[e].kind = "completed" /\ wire'[e].turn = op.reply.turn
          BY <1>13, <4>2, <4>4
        <5>2. 0 < e BY <1>1, <5>1
        <5> QED BY <4>1, <5>1, <5>2 DEF Ends
      <4> QED BY <4>1, <4>3, <4>4
    <3> QED BY <3>1, <3>2
  <2> QED BY <2>2, <2>3
<1>8. EndsAreTold'
  <2> SUFFICES ASSUME alive', ~LiveTurn', NEW i \in Positions', Raises(i)'
               PROVE  \E e \in DOMAIN wire' : i < e /\ Clears(wire'[e])
    BY DEF EndsAreTold, Clears
  <2>1. CASE i = 0 /\ WillShow'
    <3>1. Starting' BY <2>1 DEF WillShow, Starting
    <3>2. ~LiveAt(turns', op'.reply.turn) BY DEF LiveAt, LiveTurn
    <3>3. PICK e \in DOMAIN wire' : 0 < e /\ wire'[e].kind = "completed"
      BY <1>14, <2>1, <3>1, <3>2 DEF StartsEnd, Ends
    <3> QED BY <2>1, <3>3 DEF Clears
  <2>2. ASSUME NEW p \in {0, i + 1}, p \in Positions, Raises(p), p = 0 => i = 0 /\ ~Clears(wire[1])
        PROVE  \E e \in DOMAIN wire' : i < e /\ Clears(wire'[e])
    <3>1. PICK e \in DOMAIN wire : p < e /\ Clears(wire[e])
      BY <1>3, <2>2 DEF RestContext, RestInvariant, EndsAreTold
    <3>2. i \in Nat /\ e \in Nat /\ e # 1 BY <1>1, <2>2, <3>1 DEF Positions
    <3>3. e - 1 \in DOMAIN wire' /\ i < e - 1 BY <1>1, <2>2, <3>1, <3>2
    <3>4. wire'[e - 1] = wire[e] BY <1>1, <3>2, <3>3
    <3> QED BY <3>1, <3>3, <3>4
  <2>3. i + 1 # 0 BY <1>1 DEF Positions
  <2> QED BY <1>7, <2>1, <2>2, <2>3
<1>9. UnheardIsNotShown' BY <1>7 DEF RestContext, RestInvariant, UnheardIsNotShown
<1>10. ChildEnds' BY <1>3 DEF RestContext, RestInvariant, ChildEnds
<1>11. ActiveIsKnown' BY <1>2, <1>3, ActiveStays DEF EndedStay
<1>12. SteersAreOver'
  <2>1. OnWire(wire') \subseteq OnWire(wire) /\ wire[1] \in OnWire(wire) BY <1>1 DEF OnWire
  <2>2. Coming' \subseteq Coming BY <1>1, <1>2, <2>1 DEF Coming
  <2> QED BY <1>2, <1>3, <2>2, SteersStay DEF RestContext, RestInvariant, SteersAreOver
<1> QED BY <1>8, <1>9, <1>10, <1>11, <1>12, <1>14 DEF RestInvariant

LEMMA HandleAtRest ==
  ASSUME RestContext, Handle
  PROVE  RestInvariant'
<1> DEFINE l == Head(wire)
<1>1. UNCHANGED <<turns, alive, subscribed, req, link, uSteer>>
  BY DEF Handle, HandleReply, HandleLate, HandleStatus, HandleTurnStarted, HandleTurnCompleted, HandleItem,
    server, session
<1>2. reg \in Runtime /\ KnownActive(reg) /\ 0 <= Len(turns) BY RestFacts
<1>3. ASSUME NEW kind, Receive(kind) PROVE l.kind = kind /\ l.turn <= Len(turns)
  BY <1>3, RestFacts, ReceiveMeans, ReceiveTakes DEF Context, MessageInvariant, KnownTurns, Known
<1>4. CASE HandleReply
  <2>1. ~Clears(l) BY <1>3, <1>4 DEF HandleReply, Clears
  <2> QED BY <1>1, <1>4, <2>1, ReceivedAtRest DEF HandleReply
<1>5. CASE HandleLate \/ HandleItem
  <2>1. PICK kind \in {"late", "item"} : Receive(kind) /\ UNCHANGED <<op, reg>>
    BY <1>5 DEF HandleLate, HandleItem, session
  <2>2. ~Clears(l) /\ kind # "reply" BY <1>3, <2>1 DEF Clears
  <2> QED BY <1>1, <2>1, <2>2, ReceivedAtRest
<1>6. CASE HandleStatus
  <2>1. UNCHANGED op BY <1>6 DEF HandleStatus, session
  <2>2. CASE Receive("active") /\ reg' = StatusActive(reg)
    <3>1. Tells(l) /\ KnownActive(reg') BY <1>2, <1>3, <2>2 DEF Tells, StatusActive, KnownActive, Runtime
    <3> QED BY <1>1, <2>1, <2>2, <3>1, ReceivedAtRest
  <2>3. CASE Receive("idle") /\ reg' = StatusIdle(reg)
    <3>1. ~IsShown(reg') BY <1>2, <2>3 DEF IsShown, StatusIdle, KnownActive, Runtime
    <3>2. KnownActive(reg') BY <1>1, <3>1, HiddenIsKnown
    <3> QED BY <1>1, <2>1, <2>3, <3>1, <3>2, ReceivedAtRest
  <2> QED BY <1>6, <2>2, <2>3 DEF HandleStatus
<1>7. CASE HandleTurnStarted
  <2>1. Receive("started") /\ UNCHANGED op /\ reg' = SetActiveTurn(l.turn) BY <1>7 DEF HandleTurnStarted
  <2>2. Tells(l) /\ KnownActive(reg') BY <1>3, <2>1 DEF Tells, SetActiveTurn, Idle, KnownActive
  <2> QED BY <1>1, <2>1, <2>2, ReceivedAtRest
<1>8. CASE HandleTurnCompleted
  <2>1. /\ Receive("completed") /\ UNCHANGED op /\ reg' = Finished
        /\ {l.turn} \cap StartedHere \subseteq overtaken'
    BY <1>8 DEF HandleTurnCompleted
  <2>2. ~IsShown(reg') BY <2>1 DEF Finished, Idle, IsShown
  <2>3. KnownActive(reg') BY <1>1, <2>2, HiddenIsKnown
  <2> QED BY <1>1, <2>1, <2>2, <2>3, ReceivedAtRest
<1> QED BY <1>4, <1>5, <1>6, <1>7, <1>8 DEF Handle

----
(* A request times out; the connection is lost and comes back. *)

LEMMA ReadTimeoutAtRest ==
  ASSUME RestContext, ReadTimeout
  PROVE  RestInvariant'
<1>1. /\ UNCHANGED <<turns, alive, subscribed, link, uSteer, reg>> /\ req' = NoReq /\ wire' = Late(wire)
      /\ op' = [op EXCEPT !.reply = Refused] /\ op \in Operations /\ op.phase \in {"resume", "read"}
  BY RestFacts DEF ReadTimeout, Awaiting
<1>2. op'.kind = op.kind /\ op'.phase = op.phase /\ op'.turn = op.turn /\ op'.view = op.view /\ op'.reply = Refused
  BY <1>1, RejectedFields
<1>3. DOMAIN wire' = DOMAIN wire /\ Positions' = Positions
  <2>1. TypeInv /\ TypeInv' BY RestFacts
  <2>2. DOMAIN wire' = DOMAIN wire BY <1>1 DEF Late
  <2>3. wire' \in Seq(Lines) /\ wire \in Seq(Lines) BY <1>1, <2>1, LateMeans, Places
  <2>4. Len(wire') = Len(wire) BY <2>2, <2>3
  <2> QED BY <2>2, <2>4 DEF Positions
<1>4. \A i \in DOMAIN wire :
        wire'[i] = IF wire[i].kind = "reply" THEN Line("late") ELSE wire[i]
  BY <1>1 DEF Late
<1>5. Line("late").kind = "late" BY DEF Line
<1>6. \A i \in DOMAIN wire : Clears(wire[i]) => Clears(wire'[i]) BY <1>4 DEF Clears
<1>7. ASSUME NEW i \in Positions, Raises(i)' PROVE Raises(i)
  <2>1. ~Starting /\ ~Starting' BY <1>1, <1>2 DEF Starting
  <2>2. CASE i = 0
    <3>1. ~WillShow' BY <2>1 DEF WillShow
    <3>2. ShowsOne(reg) BY <1>1, <1>7, <2>2, <3>1 DEF Raises, ShowsOne, RestContext
    <3> QED BY <2>2, <3>2 DEF Raises
  <2>3. CASE i # 0
    <3>1. i \in DOMAIN wire BY <2>3, RestFacts DEF Positions
    <3> QED BY <1>4, <1>5, <1>7, <2>1, <2>3, <3>1 DEF Raises, Tells
  <2> QED BY <2>2, <2>3
<1>8. EndedStay /\ LiveTurn' = LiveTurn /\ ~NoReq.orphan BY <1>1, RestFacts, SameStay DEF NoReq
<1>9. EndsAreTold'
  <2> SUFFICES ASSUME alive', ~LiveTurn', NEW i \in Positions', Raises(i)'
               PROVE  \E e \in DOMAIN wire' : i < e /\ Clears(wire'[e])
    BY DEF EndsAreTold, Clears
  <2>1. \E e \in DOMAIN wire : i < e /\ Clears(wire[e])
    BY <1>1, <1>3, <1>7, <1>8 DEF RestContext, RestInvariant, EndsAreTold
  <2> QED BY <1>3, <1>6, <2>1
<1>10. UnheardIsNotShown' /\ ChildEnds'
  BY <1>1, <1>3, <1>7, <1>8 DEF RestContext, RestInvariant, UnheardIsNotShown, ChildEnds
<1>11. ActiveIsKnown' BY <1>1, <1>2, <1>8, ActiveStays DEF EndedStay
<1>12. SteersAreOver'
  <2>1. NoReplies(wire)' /\ ~Refused.ok BY <1>1, RestFacts, LateMeans DEF Refused, Reply, Line
  <2>2. \A l \in Coming' : ~l.ok BY <1>2, <2>1 DEF Coming, OnWire, NoReplies
  <2> QED BY <1>1, <1>2, <1>8, <2>2, SteersStay
<1>13. StartsEnd' BY <1>1, <1>2 DEF StartsEnd, Starting
<1> QED BY <1>9, <1>10, <1>11, <1>12, <1>13 DEF RestInvariant

\* When its process dies every Turn has ended, and nothing is shown for it to end.
LEMMA CrashAtRest ==
  ASSUME RestContext, Crash
  PROVE  RestInvariant'
<1>1. /\ UNCHANGED <<link, op, uSteer, reg>> /\ req' = NoReq /\ alive /\ ~alive' /\ ~LiveTurn'
      /\ DOMAIN turns' = DOMAIN turns /\ Len(turns') = Len(turns)
      /\ OnWire(wire') \subseteq OnWire(wire)
  BY RestFacts, CrashMeans DEF session
<1>2. EndedStay BY <1>1, RestFacts DEF EndedStay, LiveTurn
<1>3. EndsAreTold' /\ StartsEnd' /\ UnheardIsNotShown' /\ ChildEnds'
  BY <1>1 DEF RestContext, RestInvariant, EndsAreTold, StartsEnd, UnheardIsNotShown, ChildEnds, NoReq
<1>4. ActiveIsKnown' BY <1>1, <1>2, ActiveStays DEF EndedStay
<1>5. SteersAreOver'
  <2>1. Coming' \subseteq Coming BY <1>1 DEF Coming
  <2> QED BY <1>1, <1>2, <2>1, SteersStay DEF RestContext, RestInvariant, SteersAreOver
<1> QED BY <1>3, <1>4, <1>5 DEF RestInvariant

LEMMA TransportClosedAtRest ==
  ASSUME RestContext, TransportClosed
  PROVE  RestInvariant'
<1>1. /\ UNCHANGED <<turns, alive>> /\ ~alive /\ ~LiveTurn' /\ wire = << >> /\ wire' = << >>
      /\ req' = NoReq /\ link' = "down" /\ Disconnect("down")
  BY RestFacts, TransportClosedMeans
<1>2. op \in Operations /\ reg \in Runtime /\ KnownActive(reg) /\ EndedStay /\ LiveTurn' = LiveTurn
  BY <1>1, RestFacts, SameStay
<1>3. /\ Starting => Awaiting("mutate")
      /\ Awaiting("mutate") => op' = NoOp
      /\ Awaiting("mutate") \/ (op'.kind = op.kind /\ op'.phase = op.phase /\ op'.view = op.view)
      /\ op'.reply # NoReply /\ op'.reply.ok => op' = op
  BY <1>1, RestFacts, DisconnectMeans
<1>4. ~IsShown(reg') /\ ~Starting'
  <2>1. CASE Awaiting("mutate")
    <3>1. reg' = MarkOperationUncertain(IF op.kind = "start" THEN op.base ELSE op.turn)
      BY <1>1, <2>1 DEF Disconnect
    <3> QED BY <1>3, <2>1, <3>1, NoOpMeans DEF MarkOperationUncertain, IsShown, Starting
  <2>2. CASE ~Awaiting("mutate")
    <3>1. reg' = Disconnected(reg) BY <1>1, <2>2 DEF Disconnect
    <3>2. ~IsShown(reg') BY <1>2, <3>1 DEF Disconnected, IsShown, KnownActive, Runtime
    <3> QED BY <1>3, <2>2, <3>2 DEF Starting
  <2> QED BY <2>1, <2>2
<1>5. Positions' = {0} /\ OnWire(wire') = {} BY <1>1 DEF Positions, OnWire
<1>6. EndsAreTold' /\ StartsEnd' /\ UnheardIsNotShown' /\ ChildEnds'
  <2>1. ~Raises(0)' BY <1>4 DEF Raises, ShowsOne, IsShown, WillShow, Starting
  <2>2. \A i \in Positions' : ~Raises(i)' BY <1>5, <2>1
  <2> QED BY <1>1, <1>4, <2>2 DEF EndsAreTold, StartsEnd, UnheardIsNotShown, ChildEnds, NoReq
<1>7. CASE Awaiting("mutate")
  <2>1. KnownActive(reg') /\ op'.kind = "none" BY <1>1, <1>3, <1>4, <1>7, HiddenIsKnown, NoOpMeans
  <2>2. ActiveIsKnown' BY <1>2, <2>1, ActiveStays DEF EndedStay
  <2>3. uSteer' = IF op.kind = "steer" THEN [msg |-> op.msg, turn |-> op.turn] ELSE uSteer
    BY <1>1, <1>7 DEF Disconnect
  <2>4. op'.phase = "none" BY <1>3, <1>7, NoOpMeans
  <2>5. CASE op.kind = "steer"
    <3>1. op.turn # 0 /\ op.turn <= Len(turns) /\ op.turn \in MaybeNumber
      BY <1>2, <2>5, RestFacts DEF RestContext, RestInvariant, ActiveIsKnown, Operations, Context,
        MessageInvariant, Whereabouts, SteersNameTurns
    <3>2. op.turn \in DOMAIN turns BY <3>1, RestFacts, ConstantsAssumption DEF MaybeNumber
    <3>3. IsOver(turns)' BY <1>1, <2>3, <2>5, <3>2 DEF IsOver, LiveTurn
    <3> QED BY <1>6, <2>2, <2>4, <3>3 DEF RestInvariant, SteersAreOver, IsOver
  <2>6. CASE op.kind # "steer" BY <1>2, <1>6, <2>2, <2>3, <2>4, <2>6, SteersStay DEF RestInvariant
  <2> QED BY <2>5, <2>6
<1>8. CASE ~Awaiting("mutate")
  <2>1. UNCHANGED uSteer /\ op' \in {op, [op EXCEPT !.reply = Refused]}
    BY <1>1, <1>8 DEF Disconnect, RejectPending
  <2>2. /\ op'.kind = op.kind /\ op'.phase = op.phase /\ op'.turn = op.turn /\ op'.view = op.view
        /\ op'.reply \in {op.reply, Refused}
    BY <1>2, <2>1, RejectedFields
  <2>3. KnownActive(reg') BY <1>1, <1>4, HiddenIsKnown
  <2>4. ActiveIsKnown' BY <1>2, <2>2, <2>3, ActiveStays DEF EndedStay
  <2>5. \A l \in Coming' : l \in Coming \/ ~l.ok
    <3>1. ~Refused.ok BY DEF Refused, Reply, Line
    <3> QED BY <1>5, <2>2, <3>1 DEF Coming
  <2>6. SteersAreOver' BY <1>2, <2>1, <2>2, <2>5, SteersStay DEF RestContext, RestInvariant, SteersAreOver
  <2> QED BY <1>6, <2>4, <2>6 DEF RestInvariant
<1> QED BY <1>7, <1>8

LEMMA ReconnectAtRest ==
  ASSUME RestContext, Reconnect
  PROVE  RestInvariant'
<1>1. /\ UNCHANGED <<turns, subscribed, wire, op, uSteer, reg, overtaken>> /\ req' = NoReq /\ ~NoReq.orphan
      /\ link = "down" /\ link' = "up" /\ alive' = TRUE
  BY DEF Reconnect, session, history, NoReq
<1>2. EndedStay /\ LiveTurn' = LiveTurn /\ ~LiveTurn
  BY <1>1, RestFacts, SameStay DEF RestContext, RestInvariant, ChildEnds
<1>3. Positions' = Positions /\ Coming' = Coming /\ \A i : Raises(i)' = Raises(i)
  BY <1>1 DEF Positions, Coming, OnWire, Raises, ShowsOne, IsShown, WillShow, Tells, Starting
<1>4. \A i \in Positions' : ~Raises(i)' BY <1>1, <1>3 DEF RestContext, RestInvariant, UnheardIsNotShown
<1>5. EndsAreTold' /\ UnheardIsNotShown' /\ ChildEnds'
  BY <1>1, <1>2, <1>4 DEF RestContext, RestInvariant, EndsAreTold, UnheardIsNotShown, ChildEnds
<1>7. StartsEnd'
  <2>1. ASSUME Starting PROVE ~WillShow' /\ \A i \in DOMAIN wire' : wire'[i].kind = "reply" => ~wire'[i].ok
    <3>1. 0 \in Positions' /\ ~WillShow' BY <1>4, RestFacts DEF Positions, Raises
    <3>2. ASSUME NEW i \in DOMAIN wire' PROVE ~Tells(wire[i])
      <4>1. i \in Positions' /\ i # 0 BY <1>1, <3>2, RestFacts DEF Positions
      <4>2. ~Raises(i) BY <1>3, <1>4, <4>1
      <4> QED BY <4>1, <4>2 DEF Raises
    <3> QED BY <1>1, <2>1, <3>1, <3>2 DEF Tells
  <2> QED BY <1>1, <2>1 DEF StartsEnd, Starting
<1>6. ActiveIsKnown' /\ SteersAreOver'
  BY <1>1, <1>2, <1>3, ActiveStays, SteersStay DEF EndedStay, RestContext, RestInvariant, SteersAreOver
<1> QED BY <1>5, <1>6, <1>7 DEF RestInvariant

----
(* The App Server serves, and a Turn ends. *)

\* Lines follow those on the wire: none shows a Turn that has ended, and the end of
\* a Turn is the last of them.
LEMMA AppendedAtRest ==
  ASSUME RestContext, EndedStay, NEW u \in Seq(Lines), wire' = wire \o u,
         UNCHANGED <<alive, link, op, uSteer, reg>>, ~req'.orphan,
         LiveTurn' => alive' /\ subscribed',
         \A t \in DOMAIN turns : Running(turns[t]) =>
            LiveAt(turns', t) \/ \E l \in OnWire(u) : l.kind = "completed" /\ l.turn = t,
         Starting => \A l \in OnWire(u) : l.kind = "reply" /\ l.ok => LiveAt(turns', l.turn),
         alive /\ ~LiveTurn' =>
            /\ \A l \in OnWire(u) : ~Tells(l)
            /\ ~LiveTurn \/ (Len(wire') > Len(wire) /\ Clears(wire'[Len(wire')])),
         (alive /\ ~subscribed') \/ link = "down" =>
            /\ (alive /\ ~subscribed) \/ link = "down"
            /\ \A l \in OnWire(u) : ~Tells(l),
         op.phase = "read" /\ uSteer.msg # NoMsg => \A l \in OnWire(u) : l.kind = "reply" => IsOver(l.view)
  PROVE  RestInvariant'
<1>1. /\ Len(wire) \in Nat /\ Len(wire') \in Nat /\ Len(wire) <= Len(wire')
      /\ DOMAIN wire = 1 .. Len(wire) /\ DOMAIN wire' = 1 .. Len(wire')
      /\ \A k \in DOMAIN wire : k \in DOMAIN wire' /\ wire'[k] = wire[k]
      /\ \A k \in DOMAIN wire' : k \in DOMAIN wire \/ (k > Len(wire) /\ wire'[k] \in OnWire(u))
  <2>1. TypeInv BY RestFacts
  <2> QED BY <2>1, MoreLines
<1>2. ASSUME NEW i \in Positions', Raises(i)', \A l \in OnWire(u) : ~Tells(l)
      PROVE  i \in Positions /\ Raises(i)
  <2>1. CASE i = 0
    <3>1. Raises(0) BY <1>2, <2>1 DEF Raises, ShowsOne, IsShown, WillShow, Starting, RestContext
    <3> QED BY <1>1, <2>1, <3>1 DEF Positions
  <2>2. CASE i # 0
    <3>1. i \in DOMAIN wire' BY <1>1, <2>2 DEF Positions
    <3>2. Tells(wire'[i]) BY <1>2, <2>2 DEF Raises, Tells, Starting
    <3>3. i \in DOMAIN wire BY <1>1, <1>2, <3>1, <3>2
    <3> QED BY <1>1, <2>2, <3>2, <3>3 DEF Positions, Raises
  <2> QED BY <2>1, <2>2
<1>3. EndsAreTold'
  <2> SUFFICES ASSUME alive', ~LiveTurn', NEW i \in Positions', Raises(i)'
               PROVE  \E e \in DOMAIN wire' : i < e /\ Clears(wire'[e])
    BY DEF EndsAreTold, Clears
  <2>1. i \in Positions /\ Raises(i) /\ i \in Nat /\ i <= Len(wire) BY <1>1, <1>2 DEF Positions
  <2>2. CASE ~LiveTurn
    <3>1. \E e \in DOMAIN wire : i < e /\ Clears(wire[e])
      BY <2>1, <2>2 DEF RestContext, RestInvariant, EndsAreTold
    <3> QED BY <1>1, <3>1
  <2>3. CASE LiveTurn
    <3>1. Len(wire') \in DOMAIN wire' /\ i < Len(wire') /\ Clears(wire'[Len(wire')]) BY <1>1, <2>1, <2>3
    <3> QED BY <3>1
  <2> QED BY <2>2, <2>3
<1>4. UnheardIsNotShown' BY <1>2 DEF RestContext, RestInvariant, UnheardIsNotShown
<1>5. ChildEnds' BY DEF RestContext, RestInvariant, ChildEnds
<1>6. ActiveIsKnown' BY ActiveStays DEF EndedStay
<1>7. SteersAreOver'
  <2>1. OnWire(wire') = OnWire(wire) \cup OnWire(u)
    <3>1. TypeInv BY RestFacts
    <3> QED BY <3>1, OneMoreLine
  <2>2. ASSUME NEW l \in Coming' PROVE l \in Coming \/ (l \in OnWire(u) /\ l.kind = "reply")
    BY <2>1, <2>2 DEF Coming
  <2>3. op.phase = "settle" => ~LiveAt(op.view, op.turn) BY DEF RestContext, RestInvariant, SteersAreOver
  <2> QED BY <2>2, <2>3, SteersStay
<1>8. ASSUME NEW t, NEW i \in Nat, i <= Len(wire), LiveAt(turns, t) \/ Ends(wire, t, i)
      PROVE  LiveAt(turns', t) \/ Ends(wire', t, i)
  <2>1. CASE Ends(wire, t, i) BY <1>1, <2>1 DEF Ends
  <2>2. CASE LiveAt(turns, t)
    <3>1. LiveAt(turns', t) \/ \E l \in OnWire(u) : l.kind = "completed" /\ l.turn = t BY <2>2 DEF LiveAt
    <3>2. ASSUME NEW l \in OnWire(u), l.kind = "completed", l.turn = t PROVE Ends(wire', t, i)
      <4>1. PICK k \in DOMAIN u : l = u[k] BY <3>2 DEF OnWire
      <4>2. Len(wire) + k \in DOMAIN wire' /\ wire'[Len(wire) + k] = u[k] /\ i < Len(wire) + k
        <5>1. wire \in Seq(Lines) BY RestFacts
        <5> QED BY <1>8, <4>1, <5>1
      <4> QED BY <3>2, <4>1, <4>2 DEF Ends
    <3> QED BY <3>1, <3>2
  <2> QED BY <1>8, <2>1, <2>2
<1>9. StartsEnd'
  <2> SUFFICES ASSUME alive, Starting PROVE
        /\ WillShow' => LiveAt(turns', op.reply.turn) \/ Ends(wire', op.reply.turn, 0)
        /\ \A i \in DOMAIN wire' : wire'[i].kind = "reply" /\ wire'[i].ok =>
              LiveAt(turns', wire'[i].turn) \/ Ends(wire', wire'[i].turn, i)
    BY DEF StartsEnd, Starting, LiveAt
  <2>1. ASSUME WillShow' PROVE LiveAt(turns', op.reply.turn) \/ Ends(wire', op.reply.turn, 0)
    <3>1. WillShow BY <2>1 DEF WillShow, Starting, RestContext
    <3>2. LiveAt(turns, op.reply.turn) \/ Ends(wire, op.reply.turn, 0)
      BY <3>1 DEF RestContext, RestInvariant, StartsEnd
    <3>3. 0 \in Nat /\ 0 <= Len(wire) BY <1>1
    <3> QED BY <1>8, <3>2, <3>3
  <2>2. ASSUME NEW i \in DOMAIN wire', wire'[i].kind = "reply", wire'[i].ok
        PROVE  LiveAt(turns', wire'[i].turn) \/ Ends(wire', wire'[i].turn, i)
    <3>1. CASE i \in DOMAIN wire
      <4>1. i \in Nat /\ i <= Len(wire) /\ wire'[i] = wire[i] BY <1>1, <3>1
      <4>2. LiveAt(turns, wire[i].turn) \/ Ends(wire, wire[i].turn, i)
        BY <2>2, <3>1, <4>1 DEF RestContext, RestInvariant, StartsEnd
      <4> QED BY <1>8, <4>1, <4>2
    <3>2. CASE i \notin DOMAIN wire BY <1>1, <2>2, <3>2
    <3> QED BY <3>1, <3>2
  <2> QED BY <2>1, <2>2
<1> QED BY <1>3, <1>4, <1>5, <1>6, <1>7, <1>9 DEF RestInvariant

LEMMA SameLive ==
  ASSUME UNCHANGED turns
  PROVE  \A t \in DOMAIN turns : Running(turns[t]) => LiveAt(turns', t)
BY DEF LiveAt

\* The App Server serves while the connection is there, and answers.
LEMMA ServedAtRest ==
  ASSUME RestContext, alive, req.kind # "none"
  PROVE  /\ link = "up" /\ ~req.orphan /\ op.reply = NoReply
         /\ req.kind = "start" => Starting
         /\ req.kind = "steer" => op.phase = "mutate" /\ op.kind = "steer"
         /\ req.kind \in {"resume", "read"} => op.phase = req.kind
         /\ LiveTurn => subscribed
         /\ \A line : Respond(line) = <<line>>
BY RestFacts, AskedMeans DEF Context, RestContext, RestInvariant, ChildEnds, Respond

\* turn/start and turn/steer are refused.
LEMMA RefusalAtRest ==
  ASSUME RestContext, alive, req.kind \in {"start", "steer"}, req' = NoReq,
         wire' = wire \o Respond(Refused), UNCHANGED <<turns, alive, subscribed, link, op, uSteer, reg>>
  PROVE  RestInvariant'
<1>1. Respond(Refused) = <<Refused>> /\ op.phase = "mutate" /\ (LiveTurn => subscribed)
  BY ServedAtRest DEF Starting
<1>2. <<Refused>> \in Seq(Lines) /\ OnWire(<<Refused>>) = {Refused} BY ReplyTypes, Spoken
<1>3. ~Tells(Refused) BY DEF Tells, Refused, Reply, Line
<1>4. EndedStay /\ LiveTurn' = LiveTurn /\ ~req'.orphan BY RestFacts, SameStay DEF NoReq
<1>5. ~Refused.ok BY DEF Refused, Reply, Line
<1> HIDE DEF Refused
<1> QED BY <1>1, <1>2, <1>3, <1>4, <1>5, SameLive, AppendedAtRest

LEMMA ServeReadAtRest ==
  ASSUME RestContext, ServeRead
  PROVE  RestInvariant'
<1> DEFINE line == Reply(TRUE, 0, turns)
<1>1. /\ alive /\ req.kind = "read" /\ req' = NoReq /\ wire' = Append(wire, line)
      /\ UNCHANGED <<turns, alive, subscribed, link, op, uSteer, reg>>
  BY DEF ServeRead, session
<1>2. line \in Lines /\ line.kind = "reply" /\ line.view = turns
  <2>1. turns \in View /\ 0 \in MaybeNumber
    BY RestFacts, TurnsAreView, Constants DEF TypeInv, TypeOK, ServerTypeOK
  <2> QED BY <2>1, ReplyTypes DEF Reply, Line
<1> HIDE DEF line
<1>3. wire' = wire \o <<line>> /\ OnWire(<<line>>) = {line} /\ <<line>> \in Seq(Lines)
  <2>1. wire \in Seq(Lines) BY RestFacts
  <2> QED BY <1>1, <1>2, <2>1, Spoken, AppendIsConcat
<1>4. op.phase = "read" /\ link = "up" /\ (LiveTurn => subscribed) BY <1>1, ServedAtRest
<1>5. EndedStay /\ LiveTurn' = LiveTurn /\ ~req'.orphan BY <1>1, RestFacts, SameStay DEF NoReq
<1>6. ~Tells(line) BY <1>2, <1>4 DEF Tells, Starting
<1>7. uSteer.msg # NoMsg => IsOver(turns) BY DEF RestContext, RestInvariant, SteersAreOver
<1>8. ~Starting BY <1>4 DEF Starting
<1> QED BY <1>1, <1>2, <1>3, <1>4, <1>5, <1>6, <1>7, <1>8, SameLive, AppendedAtRest

LEMMA ServeResumeAtRest ==
  ASSUME RestContext, ServeResume
  PROVE  RestInvariant'
<1> DEFINE kind == IF LiveTurn THEN "active" ELSE "idle"
           status == <<Line(kind)>>
           view == IF Paginated THEN NoTurns ELSE turns
           line == Reply(TRUE, 0, view)
           answer == <<line>>
<1>1. /\ alive /\ req.kind = "resume" /\ req' = NoReq /\ subscribed' = TRUE
      /\ UNCHANGED <<turns, alive, link, op, uSteer, reg>>
      /\ \/ wire' = wire \o answer
         \/ wire' = (wire \o status) \o answer
         \/ wire' = (wire \o answer) \o status
  BY DEF ServeResume, session
<1>2. line \in Lines /\ line.kind = "reply"
  <2>1. view \in View BY RestFacts, TurnsAreView, NoTurnsType DEF TypeInv, TypeOK, ServerTypeOK
  <2> HIDE DEF view
  <2> QED BY <2>1, Constants, ReplyTypes DEF Reply, Line
<1>3. Line(kind) \in Lines /\ Line(kind).kind = kind BY LineTypes DEF Line
<1>4. kind \in {"active", "idle"} /\ (~LiveTurn => kind = "idle") OBVIOUS
<1> HIDE DEF line, kind
<1>5. status \in Seq(Lines) /\ answer \in Seq(Lines) /\ OnWire(status) = {Line(kind)} /\ OnWire(answer) = {line}
  BY <1>2, <1>3, Spoken
<1> HIDE DEF status, answer
<1>6. PICK u : wire' = wire \o u /\ (u = answer \/ u \in {status \o answer, answer \o status})
  <2>1. CASE wire' = wire \o answer BY <2>1
  <2>2. CASE wire' \in {(wire \o status) \o answer, (wire \o answer) \o status}
    BY <1>5, <2>2, RestFacts, SaidInOrder
  <2> QED BY <1>1, <2>1, <2>2
<1>7. u \in Seq(Lines) /\ OnWire(u) \subseteq {Line(kind), line} BY <1>5, <1>6, SpokenTogether
<1>8. op.phase = "resume" /\ link = "up" BY <1>1, ServedAtRest
<1>9. EndedStay /\ LiveTurn' = LiveTurn /\ ~req'.orphan BY <1>1, RestFacts, SameStay DEF NoReq
<1>10. ~LiveTurn => \A l \in OnWire(u) : ~Tells(l) BY <1>2, <1>3, <1>4, <1>7, <1>8 DEF Tells, Starting
<1>11. ~Starting BY <1>8 DEF Starting
<1> QED BY <1>1, <1>6, <1>7, <1>8, <1>9, <1>10, <1>11, SameLive, AppendedAtRest

LEMMA ServeSteerAtRest ==
  ASSUME RestContext, ServeSteer
  PROVE  RestInvariant'
<1> DEFINE rec == [turns[req.turn] EXCEPT !.msgs = {req.msg}]
           l == TurnLine("item", req.turn, rec)
           item == Notify(<<l>>)
           line == Reply(TRUE, req.turn, NoTurns)
           answer == Respond(line)
<1>1. /\ alive /\ req.kind = "steer" /\ req' = NoReq /\ UNCHANGED <<alive, subscribed, link, op, uSteer, reg>>
  BY DEF ServeSteer, session
<1>2. CASE wire' = wire \o Respond(Refused) /\ UNCHANGED turns BY <1>1, <1>2, RefusalAtRest
<1>3. CASE /\ LiveAt(turns, req.turn)
           /\ turns' = [turns EXCEPT ![req.turn].msgs = @ \cup {req.msg}]
           /\ wire' \in {wire \o item \o answer, wire \o answer \o item}
  <2>1. req.msg \in Msgs /\ req.turn \in MaybeNumber
    BY <1>1, RestFacts, TypedParts DEF TypeInv, MessagesInFlight, Requests
  <2>2. l \in Lines
    <3>1. rec \in Turn BY <1>3, <2>1, RestFacts, Places DEF Turn, LiveAt
    <3> HIDE DEF rec
    <3> QED BY <2>1, <3>1, LineTypes
  <2>3. line \in Lines BY <2>1, NoTurnsType, ReplyTypes
  <2>4. answer = <<line>> /\ link = "up" /\ op.phase = "mutate" /\ (LiveTurn => subscribed)
    BY <1>1, ServedAtRest
  <2>5. LiveTurn BY <1>3 DEF LiveAt, LiveTurn
  <2> HIDE DEF l, line
  <2>6. item \in Seq(Lines) /\ answer \in Seq(Lines) BY <2>2, <2>3, <2>4, Spoken DEF Notify
  <2> HIDE DEF item, answer
  <2>7. PICK u \in {item \o answer, answer \o item} : wire' = wire \o u BY <1>3, <2>6, RestFacts, SaidInOrder
  <2>8. u \in Seq(Lines) BY <2>6, <2>7, SpokenTogether
  <2>9. /\ Len(turns') = Len(turns) /\ DOMAIN turns' = DOMAIN turns
        /\ \A t \in DOMAIN turns' : turns'[t].status = turns[t].status
    BY <1>3, RestFacts, Places DEF Turn, LiveAt
  <2>10. \A t \in DOMAIN turns : Running(turns'[t]) <=> Running(turns[t]) BY <2>9 DEF Running
  <2>11. EndedStay /\ LiveTurn' = LiveTurn BY <2>9, <2>10, RestFacts DEF EndedStay, LiveTurn
  <2>12. ~req'.orphan BY <1>1 DEF NoReq
  <2>13. \A t \in DOMAIN turns : Running(turns[t]) => LiveAt(turns', t) BY <2>9, <2>10 DEF LiveAt
  <2>14. ~Starting BY <1>1, ServedAtRest DEF Starting
  <2> QED BY <1>1, <2>4, <2>5, <2>7, <2>8, <2>11, <2>12, <2>13, <2>14, AppendedAtRest
<1> QED BY <1>2, <1>3 DEF ServeSteer

LEMMA ServeStartAtRest ==
  ASSUME RestContext, ServeStart
  PROVE  RestInvariant'
<1> DEFINE t == Len(turns) + 1
           fresh == [status |-> "inProgress", msgs |-> {req.msg}, late |-> FALSE]
           active == Line("active")
           started == TurnLine("started", t, fresh)
           news == Notify(<<active, started>>)
           line == [Reply(TRUE, t, NoTurns) EXCEPT !.rec = [fresh EXCEPT !.msgs = {}]]
           answer == Respond(line)
<1>1. /\ alive /\ req.kind = "start" /\ req' = NoReq
      /\ UNCHANGED <<alive, subscribed, link, op, uSteer, reg>>
  BY DEF ServeStart, session
<1>2. req.msg \in Msgs BY <1>1, RestFacts DEF TypeInv, MessagesInFlight
<1>3. CASE ~(subscribed \/ req.orphan) /\ wire' = wire \o Respond(Refused) /\ UNCHANGED turns
  BY <1>1, <1>3, RefusalAtRest
<1>4. CASE /\ subscribed \/ req.orphan
           /\ ~LiveTurn /\ t <= MaxTurns
           /\ turns' = Append(turns, fresh)
           /\ \E i \in 0 .. Len(news) :
                wire' = wire \o SubSeq(news, 1, i) \o answer \o SubSeq(news, i + 1, Len(news))
  <2>1. t \in MaybeNumber BY <1>4, RestFacts, Constants, ConstantsAssumption DEF Numbers
  <2>2. fresh \in Turn /\ [fresh EXCEPT !.msgs = {}] \in Turn /\ Running(fresh) BY <1>2 DEF Turn, Running
  <2> HIDE DEF fresh
  <2>3. EndedStay /\ LiveTurn'
    <3>1. /\ Len(turns') = Len(turns) + 1 /\ DOMAIN turns' = 1 .. Len(turns) + 1
          /\ \A s \in DOMAIN turns : turns'[s] = turns[s]
          /\ turns'[Len(turns) + 1] = fresh
      BY <1>4, <2>2, RestFacts
    <3>2. EndedStay BY <3>1, RestFacts DEF EndedStay
    <3>3. Len(turns) + 1 \in DOMAIN turns' /\ Running(turns'[Len(turns) + 1]) BY <2>2, <3>1, RestFacts
    <3>4. LiveTurn' BY <3>3 DEF LiveTurn
    <3> QED BY <3>2, <3>4
  <2>13. LiveAt(turns', t) /\ \A s \in DOMAIN turns : Running(turns[s]) => LiveAt(turns', s)
    BY <1>4, <2>2, RestFacts DEF LiveAt
  <2> HIDE DEF t
  <2>4. active \in Lines /\ active.kind = "active" BY LineTypes DEF Line
  <2>5. started \in Lines /\ started.kind = "started" BY <2>1, <2>2, LineTypes DEF Line, TurnLine
  <2>6. line \in Lines /\ line.kind = "reply" /\ line.turn = t
    <3>1. Reply(TRUE, t, NoTurns) \in Lines BY <2>1, NoTurnsType, ReplyTypes
    <3>2. Reply(TRUE, t, NoTurns).kind = "reply" /\ Reply(TRUE, t, NoTurns).turn = t BY DEF Reply, Line
    <3> QED BY <2>2, <3>1, <3>2 DEF Lines
  <2> HIDE DEF active, started, line
  <2>7. answer = <<line>> /\ link = "up" /\ op.phase = "mutate" /\ ~req.orphan
    BY <1>1, ServedAtRest DEF Starting
  <2>8. answer \in Seq(Lines) /\ \A l \in OnWire(answer) : l.kind = "reply" /\ l.turn = t BY <2>6, <2>7, Spoken
  <2>9. news \in Seq(Lines) /\ TellsOnce(news) /\ \A l \in OnWire(news) : l.kind # "reply"
    <3>1. /\ <<active, started>> \in Seq(Lines) /\ << >> \in Seq(Lines)
          /\ DOMAIN <<active, started>> = {1, 2} /\ <<active, started>>[1] = active
      BY <2>4, <2>5
    <3>2. TellsOnce(<<active, started>>) /\ TellsOnce(<< >>) BY <2>4, <3>1 DEF TellsOnce, IsNews
    <3>3. OnWire(<<active, started>>) = {active, started} /\ OnWire(<< >>) = {} BY <2>4, <2>5, TwoOnWire, Spoken
    <3> QED BY <2>4, <2>5, <3>1, <3>2, <3>3 DEF Notify
  <2> HIDE DEF news, answer
  <2>10. PICK i \in 0 .. Len(news) :
                wire' = wire \o SubSeq(news, 1, i) \o answer \o SubSeq(news, i + 1, Len(news))
    BY <1>4
  <2>11. PICK u \in Seq(Lines) : wire' = wire \o u /\ OnWire(u) \subseteq OnWire(news) \cup OnWire(answer)
    BY <2>8, <2>9, <2>10, RestFacts, AnswerAmongNews
  <2>12. subscribed /\ ~req'.orphan BY <1>1, <1>4, <2>7 DEF NoReq
  <2>14. \A l \in OnWire(u) : l.kind = "reply" => l.turn = t BY <2>8, <2>9, <2>11
  <2> QED BY <1>1, <2>3, <2>7, <2>11, <2>12, <2>13, <2>14, AppendedAtRest
<1> QED BY <1>3, <1>4 DEF ServeStart

\* The end of a Turn is heard, and told last.
LEMMA EndTurnAtRest ==
  ASSUME RestContext, EndTurn
  PROVE  RestInvariant'
<1>1. PICK t \in DOMAIN turns :
        /\ Running(turns[t])
        /\ turns' = [turns EXCEPT ![t].status = "ended"]
        /\ wire' \in {wire \o Notify(<<TurnLine("completed", t, turns'[t]), Line("idle")>>),
                      wire \o Notify(<<Line("idle"), TurnLine("completed", t, turns'[t])>>)}
  BY DEF EndTurn
<1>2. UNCHANGED <<alive, subscribed, req, link, op, uSteer, reg>> BY DEF EndTurn, session
<1>3. /\ Len(turns') = Len(turns) /\ DOMAIN turns' = DOMAIN turns
      /\ \A s \in DOMAIN turns' : s # t => turns'[s] = turns[s]
      /\ ~Running(turns'[t])
  <2>1. turns \in Seq(Turn) /\ t \in 1 .. Len(turns)
    BY RestFacts, Places DEF Context, TypeInv, TypeOK, ServerTypeOK
  <2>2. /\ Len(turns') = Len(turns) /\ DOMAIN turns' = DOMAIN turns
        /\ \A s \in DOMAIN turns' : s # t => turns'[s] = turns[s]
        /\ turns'[t] = [turns[t] EXCEPT !.status = "ended"]
    BY <1>1, <2>1
  <2>3. turns[t] \in Turn BY <2>1
  <2> QED BY <2>2, <2>3 DEF Turn, Running
<1>4. EndedStay /\ LiveTurn BY <1>1, <1>3, RestFacts DEF EndedStay, LiveTurn
<1>5. ~LiveTurn'
  <2>1. \A s \in DOMAIN turns : Running(turns[s]) => s = Len(turns)
    BY RestFacts DEF Context, StartInvariant, OneAtATime
  <2> QED BY <1>1, <1>3, <2>1 DEF LiveTurn
<1>6. alive /\ subscribed /\ ~req.orphan BY <1>4 DEF RestContext, RestInvariant, ChildEnds
<1> DEFINE completed == TurnLine("completed", t, turns'[t])
<1>7. completed \in Lines /\ completed.kind = "completed" /\ completed.turn = t
  <2>1. t \in MaybeNumber BY <1>1, RestFacts, ConstantsAssumption DEF MaybeNumber, TypeInv, TypeOK, ServerTypeOK
  <2>2. turns'[t] \in Turn BY <1>3, RestFacts, Places DEF TypeInv, TypeOK, ServerTypeOK
  <2> QED BY <2>1, <2>2, LineTypes DEF TurnLine, Line
<1>8. Line("idle") \in Lines /\ Line("idle").kind = "idle" BY LineTypes DEF Line
<1> HIDE DEF completed
<1>9. PICK k \in {completed, Line("idle")}, l \in {completed, Line("idle")} :
        wire' = wire \o <<k, l>> /\ (k = completed \/ l = completed)
  BY <1>1, <1>6 DEF Notify, completed
<1>10. k \in Lines /\ l \in Lines /\ Clears(k) /\ Clears(l) /\ ~Tells(k) /\ ~Tells(l)
  BY <1>7, <1>8, <1>9 DEF Clears, Tells
<1>11. <<k, l>> \in Seq(Lines) /\ OnWire(<<k, l>>) = {k, l} BY <1>10, TwoOnWire
<1>12. Len(wire') > Len(wire) /\ wire'[Len(wire')] = l
  <2>1. wire \in Seq(Lines) BY RestFacts
  <2> QED BY <1>9, <1>10, <2>1
<1>13. \A line \in OnWire(<<k, l>>) : line.kind # "reply" BY <1>10, <1>11 DEF Clears
<1>14. \A s \in DOMAIN turns : Running(turns[s]) =>
          LiveAt(turns', s) \/ \E line \in OnWire(<<k, l>>) : line.kind = "completed" /\ line.turn = s
  <2>2. completed \in OnWire(<<k, l>>) BY <1>9, <1>11
  <2> QED BY <1>3, <1>7, <2>2 DEF LiveAt
<1> QED BY <1>2, <1>4, <1>5, <1>6, <1>9, <1>10, <1>11, <1>12, <1>13, <1>14, AppendedAtRest

----
LEMMA InitAtRest == Init => RestInvariant
<1> SUFFICES ASSUME Init PROVE RestInvariant OBVIOUS
<1>1. /\ op = NoOp /\ req = NoReq /\ wire = << >> /\ link = "up" /\ alive = TRUE /\ subscribed = FALSE
      /\ uSteer = NoUncertainSteer /\ reg = Idle
      /\ turns \in {<< >>, <<EndedTurn>>}
  BY DEF Init
<1>2. \A t \in DOMAIN turns : ~Running(turns[t]) BY <1>1 DEF Running, EndedTurn
<1>3. Positions = {0} /\ Len(turns) \in Nat /\ ~LiveTurn BY <1>1, <1>2 DEF Positions, LiveTurn
<1>4. ~Starting /\ ~IsShown(reg) /\ reg.active = 0 BY <1>1, NoOpMeans DEF Starting, IsShown, Idle
<1>5. EndsAreTold /\ StartsEnd /\ UnheardIsNotShown
  BY <1>3, <1>4 DEF EndsAreTold, StartsEnd, UnheardIsNotShown, Raises, ShowsOne, WillShow
<1>6. ChildEnds BY <1>1, <1>3 DEF ChildEnds, NoReq
<1>7. ActiveIsKnown BY <1>1, <1>3, <1>4, NoOpMeans DEF ActiveIsKnown, KnownActive
<1>8. SteersAreOver BY <1>1, NoOpMeans DEF SteersAreOver, NoUncertainSteer
<1> QED BY <1>5, <1>6, <1>7, <1>8 DEF RestInvariant

LEMMA NextAtRest ==
  ASSUME RestContext, OrderlyChild, Next
  PROVE  RestInvariant'
<1>1. CASE Submit BY <1>1, QuietStepsAtRest DEF Submit
<1>2. CASE Begin BY <1>2, BeginStartAtRest, BeginSteerAtRest, BeginReadAtRest, BeginResolveAtRest DEF Begin
<1>3. CASE Continue
  BY <1>3, BeginReadAtRest, ResumedAtRest, ReadDoneAtRest, DelayOverAtRest, ResolveReadAtRest,
    ResolveNotAppliedAtRest, SendAtRest, RespondedAtRest DEF Continue
<1>4. CASE Handle BY <1>4, HandleAtRest
<1>5. CASE FinishTimer BY <1>5, QuietStepsAtRest
<1>6. CASE Lose
  <2>1. ~MutationTimeout /\ ~SocketLost BY DEF OrderlyChild, MutationTimeout, SocketLost
  <2> QED BY <1>6, <2>1, ReadTimeoutAtRest, CrashAtRest DEF Lose
<1>7. CASE Recover BY <1>7, TransportClosedAtRest, ReconnectAtRest, QuietStepsAtRest DEF Recover
<1>8. CASE Serve BY <1>8, ServeStartAtRest, ServeSteerAtRest, ServeResumeAtRest, ServeReadAtRest DEF Serve
<1>9. CASE EndTurn BY <1>9, EndTurnAtRest
<1>10. CASE ServeStray BY <1>10, NoStrays DEF RestContext, Context, OrderlyChild
<1> QED BY <1>1, <1>2, <1>3, <1>4, <1>5, <1>6, <1>7, <1>8, <1>9, <1>10 DEF Next

LEMMA OvertakenStay == ASSUME [Next]_vars PROVE overtaken \subseteq overtaken'
<1>1. CASE UNCHANGED vars BY <1>1 DEF vars, history
<1>2. CASE Next
  <2>1. \/ UNCHANGED overtaken
        \/ \E s : overtaken' = overtaken \cup s
    BY <1>2 DEF Next, Submit, AcceptStart, AcceptScheduled, AcceptSteer, Accept, AcceptResolve, Begin,
      BeginStart, BeginScheduled, BeginSteer, BeginRead, BeginResolve, Continue, BeginReconcile, Resumed,
      ReadDone, DelayOver, ResolveRead, ResolveNotApplied, Send, Responded, Handle, HandleReply, HandleLate,
      HandleStatus, HandleTurnStarted, HandleTurnCompleted, HandleItem, FinishTimer, Lose, MutationTimeout,
      SocketLost, ReadTimeout, Crash, Recover, TransportClosed, Reconnect, ListDisconnected, Serve, ServeStart,
      ServeSteer, ServeResume, ServeRead, ServeStray, ServeStrayStart, ServeStraySteer, EndTurn, history
  <2> QED BY <2>1
<1> QED BY <1>1, <1>2

LEMMA StutterAtRest == ASSUME RestContext, UNCHANGED vars PROVE RestInvariant'
<1>1. UNCHANGED <<turns, alive, subscribed, req, link, wire, op, uSteer, reg>>
  BY DEF vars, server, transport, session
<1>2. EndedStay /\ LiveTurn' = LiveTurn BY <1>1, RestFacts, SameStay
<1>6. overtaken' = overtaken BY DEF vars, history
<1>3. Positions' = Positions /\ Coming' = Coming /\ \A i : Raises(i)' = Raises(i)
  BY <1>1, <1>6 DEF Positions, Coming, OnWire, Raises, ShowsOne, IsShown, WillShow, Tells, Starting
<1>7. StartsEnd'
  <2>1. WillShow' => WillShow BY <1>1, <1>6 DEF WillShow, Starting
  <2> QED BY <1>1, <2>1, StartsEndOn
<1>4. EndsAreTold' /\ UnheardIsNotShown' /\ ChildEnds'
  BY <1>1, <1>2, <1>3 DEF RestContext, RestInvariant, EndsAreTold, UnheardIsNotShown, ChildEnds
<1>5. ActiveIsKnown' /\ SteersAreOver'
  BY <1>1, <1>2, <1>3, ActiveStays, SteersStay DEF EndedStay, RestContext, RestInvariant, SteersAreOver
<1> QED BY <1>4, <1>5, <1>7 DEF RestInvariant

\* Whatever makes the runtime show a Turn as running - its own state, the response
\* of a start, a line on its way - is followed by the line that ends it, if the Turn
\* has ended, or the Turn is overtaken; and nothing is shown of a thread whose end
\* would not be heard.
THEOREM RestInductive ==
  ASSUME OrderlyChild
  PROVE  Spec => [](TypeInv /\ MessageInvariant /\ StartInvariant /\ SharedInv /\ RestInvariant)
<1>1. Init => RestInvariant BY InitAtRest
<1>2. ASSUME TypeInv, MessageInvariant, StartInvariant, SharedInv, RestInvariant, TypeInv', [Next]_vars
      PROVE  RestInvariant'
  BY <1>2, NextAtRest, StutterAtRest, OvertakenStay DEF RestContext, Context
<1>3. /\ TypeInv /\ MessageInvariant /\ StartInvariant /\ SharedInv
      /\ (TypeInv /\ MessageInvariant /\ StartInvariant /\ SharedInv)'
      /\ RestInvariant /\ [Next]_vars
      => RestInvariant'
  BY <1>2
<1> QED BY <1>1, <1>3, StartsInductive, PTL DEF Spec

\* Once the lines have been handled, the lock is free and the reconciliation is
\* over, no browser is shown a Turn as running that has ended, however the output was
\* cut into chunks; except one that ended before startTurn went on (overtaken), which
\* the code makes active again (session-service.ts:820).
THEOREM ShownAtRest == ASSUME OrderlyChild PROVE Spec => []QuiescentTruth
<1>1. ASSUME TypeInv, RestInvariant PROVE QuiescentTruth
  <2> SUFFICES ASSUME alive, wire = << >>, ~LiveTurn PROVE ~IsShown(reg) \/ reg.active \in overtaken
    BY DEF QuiescentTruth, Quiet, IsShown
  <2>1. 0 \in Positions /\ DOMAIN wire = {} BY DEF Positions
  <2>2. ~Raises(0) BY <1>1, <2>1 DEF RestInvariant, EndsAreTold
  <2> QED BY <2>2 DEF Raises, ShowsOne
<1>2. TypeInv /\ RestInvariant => QuiescentTruth BY <1>1
<1> QED BY <1>2, RestInductive, PTL

====
