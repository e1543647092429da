---- MODULE TurnLifecycleProofs ----
(*
Proofs about TurnLifecycle, for any number of messages and Turns, any
bound on losses and every combination of its switches.

Three invariants, each proved with one lemma per action: TypeInv
(lemmas ...Keeps) says what is well-typed and to whom an answer
belongs, MessageInvariant (lemmas ...Tells) where a message is, and
StartInvariant (lemmas ...Starts) what keeps a second turn/start away
while a Turn is in progress or is still to be told of.
*)
EXTENDS TurnLifecycle, SequenceTheorems, WellFoundedInduction, TLAPS

----
(* Data. *)

\* A finite set of Turn numbers has a largest one.
LEMMA LargestNumber ==
  ASSUME NEW S \in SUBSET Numbers, S # {}
  PROVE  \E t \in S : \A s \in S : s <= t
<1> DEFINE T == {n \in Nat : \E t \in S : n = MaxTurns - t}
<1>1. MaxTurns \in Nat BY ConstantsAssumption
<1>2. \A t \in S : t \in Nat /\ MaxTurns - t \in Nat /\ t <= MaxTurns BY <1>1 DEF Numbers
<1>3. T \subseteq Nat /\ T # {} BY <1>2
<1>4. PICK n \in T : \A k \in T : ~(<<k, n>> \in OpToRel(<, Nat))
  <2> HIDE DEF T
  <2> QED BY <1>3, NatLessThanWellFounded, WFMin
<1>5. PICK t \in S : n = MaxTurns - t BY <1>4
<1>6. ASSUME NEW s \in S PROVE s <= t
  <2>1. MaxTurns - s \in T BY <1>2, <1>6
  <2>2. ~(MaxTurns - s < n) BY <2>1, <1>3, <1>4 DEF OpToRel
  <2> QED BY <2>2, <1>1, <1>2, <1>5, <1>6
<1> QED BY <1>5, <1>6

\* The last Turn of a snapshot is one of its Turns, or 0 if it has none.
LEMMA LastOfType ==
  ASSUME NEW view \in View
  PROVE  /\ LastOf(view) \in MaybeNumber
         /\ DOMAIN view \subseteq Numbers
         /\ DOMAIN view # {} => LastOf(view) \in DOMAIN view
         /\ \A t \in DOMAIN view : t <= LastOf(view)
<1>1. DOMAIN view \in SUBSET Numbers BY DEF View
<1>2. CASE DOMAIN view = {} BY <1>2, ConstantsAssumption DEF LastOf, MaybeNumber
<1>3. CASE DOMAIN view # {}
  <2>1. \E t \in DOMAIN view : \A s \in DOMAIN view : s <= t BY <1>1, <1>3, LargestNumber
  <2>2. /\ LastOf(view) \in DOMAIN view
        /\ \A s \in DOMAIN view : s <= LastOf(view)
    BY <2>1, <1>3 DEF LastOf
  <2> QED BY <2>2, <1>1, <1>3, ConstantsAssumption DEF Numbers, MaybeNumber
<1> QED BY <1>1, <1>2, <1>3

LEMMA ViewElements ==
  ASSUME NEW view \in View, NEW t \in DOMAIN view
  PROVE  t \in Numbers /\ view[t] \in Turn /\ view[t].msgs \subseteq Msgs
BY DEF View, Turn

LEMMA ViewIntro ==
  ASSUME NEW D \in SUBSET Numbers, NEW f \in [D -> Turn]
  PROVE  f \in View
BY DEF View

LEMMA NoTurnsType == NoTurns \in View
<1>1. {} \in SUBSET Numbers OBVIOUS
<1>2. NoTurns \in [{} -> Turn] BY DEF NoTurns
<1> QED BY <1>1, <1>2, ViewIntro

\* Merging two snapshots gives a snapshot.
LEMMA MergeType ==
  ASSUME NEW primary \in View, NEW live \in View
  PROVE  Merge(primary, live) \in View
<1> DEFINE D == DOMAIN primary \cup DOMAIN live
<1>1. D \in SUBSET Numbers BY LastOfType
<1>2. ASSUME NEW t \in D
      PROVE  Merge(primary, live)[t] \in Turn
  <2>1. t \in DOMAIN primary => primary[t] \in Turn BY ViewElements
  <2>2. t \in DOMAIN live => live[t] \in Turn BY ViewElements
  <2> QED BY <2>1, <2>2, <1>2 DEF Merge, Turn
<1>3. Merge(primary, live) \in [D -> Turn] BY <1>2 DEF Merge
<1> QED BY <1>1, <1>3, ViewIntro

LEMMA UpsertType ==
  ASSUME NEW view \in View, NEW t \in Numbers, NEW turn \in Turn
  PROVE  Upsert(view, t, turn) \in View
<1>1. {t} \in SUBSET Numbers OBVIOUS
<1>2. [s \in {t} |-> turn] \in View BY <1>1, ViewIntro
<1> QED BY <1>2, MergeType DEF Upsert

\* The Turns of the App Server are a snapshot.
LEMMA TurnsAreView ==
  ASSUME NEW seq \in Seq(Turn), Len(seq) <= MaxTurns
  PROVE  seq \in View /\ DOMAIN seq = 1 .. Len(seq)
<1>1. Len(seq) \in Nat /\ MaxTurns \in Nat BY ConstantsAssumption
<1>2. DOMAIN seq = 1 .. Len(seq) /\ DOMAIN seq \in SUBSET Numbers BY <1>1 DEF Numbers
<1>3. seq \in [DOMAIN seq -> Turn] OBVIOUS
<1> QED BY <1>2, <1>3, ViewIntro

----
(* Types of the operators the actions are built from. *)

LEMMA LineTypes ==
  ASSUME NEW kind \in {"none", "reply", "late", "active", "idle", "started", "completed", "item"}
  PROVE  /\ Line(kind) \in Lines
         /\ \A t \in MaybeNumber, turn \in Turn : TurnLine(kind, t, turn) \in Lines
<1>1. EndedTurn \in Turn BY DEF EndedTurn, Turn
<1>2. 0 \in MaybeNumber BY ConstantsAssumption DEF MaybeNumber
<1> QED BY <1>1, <1>2, NoTurnsType DEF Line, TurnLine, Lines

LEMMA ReplyTypes ==
  /\ \A ok \in BOOLEAN, t \in MaybeNumber, view \in View : Reply(ok, t, view) \in Lines
  /\ NoReply \in Lines /\ Refused \in Lines
<1>1. 0 \in MaybeNumber BY ConstantsAssumption DEF MaybeNumber
<1>2. Line("reply") \in Lines /\ Line("none") \in Lines BY LineTypes
<1>3. \A ok \in BOOLEAN, t \in MaybeNumber, view \in View : Reply(ok, t, view) \in Lines
  BY <1>2 DEF Reply, Lines
<1> QED BY <1>1, <1>2, <1>3, NoTurnsType DEF NoReply, Refused

Requests == [kind : {"none", "start", "steer", "resume", "read"}, msg : MaybeMsg,
             turn : MaybeNumber, orphan : BOOLEAN]

LEMMA RequestTypes ==
  /\ NoReq \in Requests
  /\ \A kind \in {"start", "steer", "resume", "read"}, m \in MaybeMsg, t \in MaybeNumber :
        Request(kind, m, t) \in Requests
  /\ \A r \in Requests : Orphaned(r) \in Requests
<1>1. NoReq \in Requests BY ConstantsAssumption DEF NoReq, Requests, MaybeMsg, MaybeNumber
<1>2. \A kind \in {"start", "steer", "resume", "read"}, m \in MaybeMsg, t \in MaybeNumber :
          Request(kind, m, t) \in Requests
  BY <1>1 DEF Request, Requests
<1>3. \A r \in Requests : Orphaned(r) \in Requests BY <1>1 DEF Orphaned, Requests
<1> QED BY <1>1, <1>2, <1>3

Operations == [kind : {"none", "start", "scheduled", "steer", "read", "reconcile", "resolve"},
               phase : {"none", "ready", "resume", "read", "mutate", "delay", "settle"},
               reply : Lines, msg : MaybeMsg, turn : MaybeNumber, base : MaybeNumber,
               tries : Nat, view : View]

LEMMA OperationTypes ==
  /\ NoOp \in Operations
  /\ \A kind \in {"start", "scheduled", "steer", "read", "reconcile", "resolve"},
        phase \in {"ready", "resume", "read"} :
          /\ Operation(kind, phase) \in Operations
          /\ Operation(kind, phase).kind = kind /\ Operation(kind, phase).phase = phase
          /\ Operation(kind, phase).reply = NoReply
<1>1. NoOp \in Operations
  BY ReplyTypes, NoTurnsType, ConstantsAssumption DEF NoOp, Operations, MaybeMsg, MaybeNumber
<1>2. NoOp.reply = NoReply BY DEF NoOp
<1> QED BY <1>1, <1>2 DEF Operation, Operations

\* Every change the registry makes to a thread gives a runtime again.
LEMMA RuntimeTypes ==
  /\ Idle \in Runtime /\ Finished \in Runtime
  /\ \A t \in MaybeNumber : SetActiveTurn(t) \in Runtime /\ MarkOperationUncertain(t) \in Runtime
  /\ \A r \in Runtime : Disconnected(r) \in Runtime /\ StatusActive(r) \in Runtime /\ StatusIdle(r) \in Runtime
<1>1. 0 \in MaybeNumber /\ Unknown \in MaybeNumber BY ConstantsAssumption DEF MaybeNumber, Unknown
<1>2. Idle \in Runtime BY <1>1 DEF Idle, Runtime
<1>3. Finished \in Runtime BY <1>1 DEF Idle, Finished, Runtime
<1>4. ASSUME NEW t \in MaybeNumber
      PROVE  SetActiveTurn(t) \in Runtime /\ MarkOperationUncertain(t) \in Runtime
  BY <1>1, <1>2 DEF SetActiveTurn, MarkOperationUncertain, Idle, Runtime
<1>5. ASSUME NEW r \in Runtime
      PROVE  Disconnected(r) \in Runtime /\ StatusActive(r) \in Runtime /\ StatusIdle(r) \in Runtime
  BY <1>1 DEF Disconnected, StatusActive, StatusIdle, Runtime
<1> QED BY <1>2, <1>3, <1>4, <1>5

LEMMA ReconcileTypes ==
  ASSUME NEW r \in Runtime, NEW view \in View, NEW accept \in BOOLEAN
  PROVE  ReconcileSnapshot(r, view, accept).reg \in Runtime
<1> DEFINE last == LastOf(view)
           uncertain == r.interrupted = Unknown /\ r.baseline # Absent
           unchanged == uncertain /\ last \in {0, r.baseline}
           unsettled == r.interrupted > 0 /\ ~(r.interrupted \in DOMAIN view /\ ~LiveAt(view, r.interrupted))
           unresolved == \/ last = 0 /\ ~(unchanged /\ accept)
                         \/ LiveAt(view, last)
                         \/ unsettled
                         \/ unchanged /\ ~accept
<1>1. ReconcileSnapshot(r, view, accept).reg =
        CASE unresolved -> [r EXCEPT !.state = "disconnected", !.active = 0, !.flag = uncertain]
          [] ~unresolved /\ last = 0 -> Idle
          [] OTHER -> Finished
  BY DEF ReconcileSnapshot
<1>2. CASE unresolved
  <2>1. 0 \in MaybeNumber BY ConstantsAssumption DEF MaybeNumber
  <2>2. ReconcileSnapshot(r, view, accept).reg =
          [r EXCEPT !.state = "disconnected", !.active = 0, !.flag = uncertain]
    BY <1>1, <1>2
  <2>3. uncertain \in BOOLEAN OBVIOUS
  <2> HIDE DEF uncertain
  <2> QED BY <2>1, <2>2, <2>3 DEF Runtime
<1>3. CASE ~unresolved
  <2>1. ReconcileSnapshot(r, view, accept).reg \in {Idle, Finished} BY <1>1, <1>3
  <2> QED BY <2>1, RuntimeTypes
<1> QED BY <1>2, <1>3

LEMMA ConfirmTypes ==
  ASSUME NEW r \in Runtime, NEW view \in View, NEW active \in MaybeNumber
  PROVE  ConfirmApplied(r, view, active) \in Runtime /\ ConfirmNotApplied(r, view, active) \in Runtime
<1>1. [r EXCEPT !.baseline = Absent, !.flag = FALSE] \in Runtime BY DEF Runtime
<1>2. SetActiveTurn(active) \in Runtime BY RuntimeTypes
<1>3. /\ ReconcileSnapshot([r EXCEPT !.baseline = Absent, !.flag = FALSE], view, FALSE).reg \in Runtime
      /\ ReconcileSnapshot(r, view, TRUE).reg \in Runtime
  BY <1>1, ReconcileTypes
<1> QED BY <1>2, <1>3 DEF ConfirmApplied, ConfirmNotApplied

LEMMA SnapshotType ==
  ASSUME NEW view \in View, cache \in View
  PROVE  Snapshot(view) \in View
BY DEF Snapshot

\* Lines that are cut off or gone stale leave a sequence of lines.
LEMMA WireTypes ==
  ASSUME NEW w \in Seq(Lines)
  PROVE  /\ Late(w) \in Seq(Lines)
         /\ \A n \in 0 .. Len(w) : SubSeq(w, 1, n) \in Seq(Lines)
<1>1. DOMAIN w = 1 .. Len(w) /\ Len(w) \in Nat /\ \A i \in DOMAIN w : w[i] \in Lines OBVIOUS
<1>2. Line("late") \in Lines BY LineTypes
<1>3. Late(w) \in [1 .. Len(w) -> Lines] BY <1>1, <1>2 DEF Late
<1>4. Late(w) \in Seq(Lines) BY <1>1, <1>3
<1>5. ASSUME NEW n \in 0 .. Len(w) PROVE SubSeq(w, 1, n) \in Seq(Lines) BY <1>1, <1>5, SubSeqProperties
<1> QED BY <1>4, <1>5

----
(* Type correctness. *)

LEMMA Constants ==
  /\ 0 \in MaybeNumber /\ Numbers \subseteq MaybeNumber
  /\ NoMsg \in MaybeMsg /\ Msgs \subseteq MaybeMsg
BY ConstantsAssumption DEF Numbers, MaybeNumber, MaybeMsg

LEMMA InitTyped == Init => TypeOK
<1> SUFFICES ASSUME Init PROVE TypeOK OBVIOUS
<1>1. ServerTypeOK
  <2>1. EndedTurn \in Turn BY DEF EndedTurn, Turn
  <2>2. turns \in Seq(Turn) /\ Len(turns) \in {0, 1}
    <3>1. turns = << >> \/ turns = <<EndedTurn>> BY DEF Init
    <3>2. ASSUME NEW turn \in Turn PROVE <<turn>> \in Seq(Turn) /\ Len(<<turn>>) = 1 OBVIOUS
    <3>3. << >> \in Seq(Turn) /\ Len(<< >>) = 0 OBVIOUS
    <3> QED BY <2>1, <3>1, <3>2, <3>3
  <2>3. Len(turns) <= MaxTurns
    <3>1. Len(turns) \in {0, 1} BY <2>2
    <3>2. MaxTurns \in Nat \ {0} BY ConstantsAssumption
    <3> QED BY <3>1, <3>2
  <2> QED BY <2>2, <2>3, RequestTypes DEF Init, ServerTypeOK, Requests
<1>2. TransportTypeOK BY DEF Init, TransportTypeOK
<1>3. OpTypeOK BY OperationTypes DEF Init, OpTypeOK, Operations
<1>4. SessionTypeOK BY NoTurnsType, Constants DEF Init, SessionTypeOK, NoUncertainTurn, NoUncertainSteer
<1>5. reg \in Runtime BY RuntimeTypes DEF Init
<1>6. RecoveryTypeOK /\ HistoryTypeOK BY DEF Init, RecoveryTypeOK, HistoryTypeOK
<1> QED BY <1>1, <1>2, <1>3, <1>4, <1>5, <1>6 DEF TypeOK

----
(* TypeOK is not inductive: the answer that turns a snapshot or the wire *)
(* into a bad one is excluded because an answer belongs to the request *)
(* that the holder of the lock awaits. *)

Awaits == {"resume", "read", "mutate"}
Asked(o) == IF o.phase = "mutate" THEN o.kind ELSE o.phase

\* Who carries a prompt carries a message; only start and steer are sent.
MessagesInFlight ==
  /\ \A w \in waiting : w.kind # "resolve" => w.msg \in Msgs
  /\ op.kind \in {"start", "scheduled", "steer"} => op.msg \in Msgs
  /\ op.phase \in {"ready", "mutate"} => op.kind \in {"start", "steer"}
  /\ op.kind = "none" => op.phase = "none"
  /\ req.kind \in {"start", "steer"} => req.msg \in Msgs
  /\ req.orphan => req.kind \in {"start", "steer"}

NoReplies(w) == \A i \in DOMAIN w : w[i].kind # "reply"

\* The response of turn/start names a Turn.
TurnAnswer(o, l) == o.phase = "mutate" /\ o.kind = "start" /\ l.ok => l.turn \in Numbers

\* There is one request, one response on the way, or one that has come.
RequestAwaited ==
  req.kind # "none" /\ ~req.orphan =>
      /\ op.phase \in Awaits /\ op.reply = NoReply /\ req.kind = Asked(op)
      /\ NoReplies(wire)

AnswerAwaited ==
  \A i \in DOMAIN wire : wire[i].kind = "reply" =>
      /\ op.phase \in Awaits /\ op.reply = NoReply
      /\ TurnAnswer(op, wire[i])
      /\ \A j \in DOMAIN wire : wire[j].kind = "reply" => i = j

AnswerCame == op.reply # NoReply => TurnAnswer(op, op.reply)

NewsOfTurns == \A i \in DOMAIN wire : wire[i].kind \in {"started", "completed"} => wire[i].turn \in Numbers

TypeInv ==
  /\ TypeOK
  /\ MessagesInFlight
  /\ RequestAwaited /\ AnswerAwaited /\ AnswerCame
  /\ NewsOfTurns

\* Nobody waits for an answer.
NoneAwaited == op.phase \notin Awaits \/ op.reply # NoReply

LEMMA InitTypeInv == Init => TypeInv
<1> SUFFICES ASSUME Init PROVE TypeInv OBVIOUS
<1>1. op = NoOp /\ req = NoReq /\ wire = << >> /\ waiting = {} BY DEF Init
<1>2. MessagesInFlight BY <1>1 DEF MessagesInFlight, NoOp, NoReq
<1>3. RequestAwaited /\ AnswerAwaited /\ AnswerCame /\ NewsOfTurns
  BY <1>1 DEF RequestAwaited, AnswerAwaited, AnswerCame, NewsOfTurns, NoOp, NoReq
<1> QED BY <1>2, <1>3, InitTyped DEF TypeInv

LEMMA NoneAwaitedMeans ==
  ASSUME TypeInv, NoneAwaited
  PROVE  /\ NoReplies(wire)
         /\ req.kind # "none" => req.orphan
BY DEF TypeInv, NoneAwaited, RequestAwaited, AnswerAwaited, NoReplies

\* The lock's holder asks, or is refused; or it ends, or pauses.
LEMMA AskKeeps ==
  ASSUME TypeInv, NoneAwaited, UNCHANGED wire,
         NEW o \in Operations, NEW phase \in Awaits, NEW m \in MaybeMsg, NEW t \in MaybeNumber,
         o.kind # "none",
         phase = "mutate" => o.kind \in {"start", "steer"} /\ m \in Msgs,
         o.kind \in {"start", "scheduled", "steer"} => o.msg \in Msgs,
         Ask(o, phase, m, t)
  PROVE  /\ OpTypeOK' /\ req' \in Requests
         /\ (UNCHANGED waiting \/ waiting' \subseteq waiting) => MessagesInFlight'
         /\ RequestAwaited' /\ AnswerAwaited' /\ AnswerCame' /\ NewsOfTurns'
<1>1. NoReplies(wire) /\ (req.kind # "none" => req.orphan) BY NoneAwaitedMeans
<1>2. req \in Requests BY DEF TypeInv, TypeOK, ServerTypeOK, Requests
<1>3. Refused # NoReply /\ ~Refused.ok BY DEF Refused, NoReply, Reply, Line
<1>4. CASE link = "up"
  <2>1. /\ op' = [o EXCEPT !.phase = phase, !.reply = NoReply]
        /\ req' = Request(IF phase = "mutate" THEN o.kind ELSE phase, m, t)
    BY <1>4 DEF Ask
  <2>2. req' \in Requests /\ req'.kind = (IF phase = "mutate" THEN o.kind ELSE phase) /\ req'.msg = m /\ ~req'.orphan
    BY <2>1, RequestTypes DEF Awaits, Request, NoReq
  <2>3. /\ op' \in Operations
        /\ op'.phase = phase /\ op'.kind = o.kind /\ op'.msg = o.msg /\ op'.reply = NoReply
    BY <2>1, ReplyTypes DEF Operations, Awaits
  <2>4. MessagesInFlight' \/ ~(UNCHANGED waiting \/ waiting' \subseteq waiting)
    BY <2>2, <2>3 DEF TypeInv, MessagesInFlight, Awaits
  <2>5. RequestAwaited' /\ AnswerAwaited' /\ AnswerCame'
    BY <1>1, <2>2, <2>3 DEF RequestAwaited, AnswerAwaited, AnswerCame, NoReplies, Asked
  <2> QED BY <2>2, <2>3, <2>4, <2>5 DEF TypeInv, NewsOfTurns, OpTypeOK, Operations
<1>5. CASE link # "up"
  <2>1. op' = [o EXCEPT !.phase = phase, !.reply = Refused] /\ req' = req BY <1>5 DEF Ask
  <2>2. /\ op' \in Operations
        /\ op'.phase = phase /\ op'.kind = o.kind /\ op'.msg = o.msg /\ op'.reply = Refused
    BY <2>1, ReplyTypes DEF Operations, Awaits
  <2>3. MessagesInFlight' \/ ~(UNCHANGED waiting \/ waiting' \subseteq waiting)
    BY <2>1, <2>2 DEF TypeInv, MessagesInFlight, Awaits
  <2>4. RequestAwaited' /\ AnswerAwaited' /\ AnswerCame'
    BY <1>1, <1>3, <2>1, <2>2 DEF RequestAwaited, AnswerAwaited, AnswerCame, NoReplies, TurnAnswer
  <2> QED BY <1>2, <2>1, <2>2, <2>3, <2>4 DEF TypeInv, NewsOfTurns, OpTypeOK, Operations
<1> QED BY <1>4, <1>5

LEMMA RestKeeps ==
  ASSUME TypeInv, NoneAwaited, UNCHANGED <<wire, req>>,
         op' \in Operations, op'.phase \notin Awaits, op'.reply = NoReply,
         op'.kind \in {"start", "scheduled", "steer"} => op'.msg \in Msgs,
         op'.phase = "ready" => op'.kind \in {"start", "steer"},
         op'.kind = "none" => op'.phase = "none"
  PROVE  /\ OpTypeOK'
         /\ (UNCHANGED waiting \/ waiting' \subseteq waiting) => MessagesInFlight'
         /\ RequestAwaited' /\ AnswerAwaited' /\ AnswerCame' /\ NewsOfTurns'
<1>1. NoReplies(wire) /\ (req.kind # "none" => req.orphan) BY NoneAwaitedMeans
<1>2. MessagesInFlight' \/ ~(UNCHANGED waiting \/ waiting' \subseteq waiting)
  BY DEF TypeInv, MessagesInFlight, Awaits
<1>3. RequestAwaited' /\ AnswerAwaited' /\ AnswerCame'
  BY <1>1 DEF RequestAwaited, AnswerAwaited, AnswerCame, NoReplies
<1> QED BY <1>2, <1>3 DEF TypeInv, NewsOfTurns, OpTypeOK, Operations

LEMMA ReleaseKeeps ==
  ASSUME TypeInv, NoneAwaited, UNCHANGED <<wire, req, waiting, queued>>, NEW kind, Release(kind)
  PROVE  /\ OpTypeOK' /\ MessagesInFlight' /\ RecoveryTypeOK'
         /\ RequestAwaited' /\ AnswerAwaited' /\ AnswerCame' /\ NewsOfTurns'
<1>1. op' = NoOp /\ NoOp \in Operations BY OperationTypes DEF Release
<1>2. RecoveryTypeOK' BY DEF Release, TypeInv, TypeOK, RecoveryTypeOK
<1>3. op'.kind = "none" /\ op'.phase = "none" /\ op'.reply = NoReply /\ op' \in Operations BY <1>1 DEF NoOp
<1> QED BY <1>2, <1>3, RestKeeps DEF Awaits

----
(* One lemma per action. *)

LEMMA AcceptKeeps ==
  ASSUME TypeInv, NEW m \in Msgs, AcceptStart(m) \/ AcceptScheduled(m) \/ AcceptSteer(m)
  PROVE  TypeInv'
<1>1. PICK kind \in {"start", "scheduled", "steer"}, t \in MaybeNumber : Accept(kind, m, t)
  BY Constants DEF AcceptStart, AcceptScheduled, AcceptSteer, TypeInv, TypeOK, Runtime
<1>2. /\ submitted' = submitted \cup {m}
      /\ waiting' = waiting \cup {[kind |-> kind, msg |-> m, turn |-> t]}
      /\ verdict' = [verdict EXCEPT ![m] = "none"]
      /\ UNCHANGED <<server, transport, op, cache, loaded, uTurn, uSteer, reg, recovering>>
      /\ UNCHANGED <<lateMsgs, overtaken, losses, timeouts>>
  BY <1>1 DEF Accept
<1>3. TypeOK'
  <2>4. TransportTypeOK' BY <1>2 DEF TypeInv, TypeOK, TransportTypeOK, transport
  <2>1. ServerTypeOK' /\ OpTypeOK' BY <1>2 DEF TypeInv, TypeOK, ServerTypeOK, OpTypeOK, server
  <2>2. SessionTypeOK' BY <1>2, Constants DEF TypeInv, TypeOK, SessionTypeOK
  <2>3. HistoryTypeOK' BY <1>2 DEF TypeInv, TypeOK, HistoryTypeOK
  <2> QED BY <1>2, <2>1, <2>2, <2>3, <2>4 DEF TypeInv, TypeOK, RecoveryTypeOK, recovering
<1>4. MessagesInFlight' BY <1>2 DEF TypeInv, MessagesInFlight, server
<1> QED BY <1>2, <1>3, <1>4 DEF TypeInv, RequestAwaited, AnswerAwaited, AnswerCame, NewsOfTurns, NoReplies,
        server, transport

LEMMA AcceptResolveKeeps ==
  ASSUME TypeInv, AcceptResolve
  PROVE  TypeInv'
<1>1. TypeOK'
  <2>1. SessionTypeOK' BY Constants DEF AcceptResolve, Resolution, TypeInv, TypeOK, SessionTypeOK
  <2>2. TransportTypeOK' BY DEF AcceptResolve, TypeInv, TypeOK, TransportTypeOK, transport
  <2>3. ServerTypeOK' /\ OpTypeOK' BY DEF AcceptResolve, TypeInv, TypeOK, ServerTypeOK, OpTypeOK, server
  <2> QED BY <2>1, <2>2, <2>3 DEF AcceptResolve, TypeInv, TypeOK, RecoveryTypeOK, HistoryTypeOK, recovering, history
<1>2. MessagesInFlight' BY DEF AcceptResolve, Resolution, TypeInv, MessagesInFlight, server
<1> QED BY <1>1, <1>2 DEF AcceptResolve, TypeInv, RequestAwaited, AnswerAwaited, AnswerCame, NewsOfTurns,
        NoReplies, server, transport

\* What an operation that takes the lock leaves alone.
LEMMA BeginKeeps ==
  ASSUME TypeInv, OpTypeOK', req' \in Requests, waiting' \subseteq waiting, RecoveryTypeOK',
         MessagesInFlight', RequestAwaited', AnswerAwaited', AnswerCame', NewsOfTurns',
         UNCHANGED <<turns, alive, subscribed, transport, cache, loaded, uTurn, uSteer, submitted, reg, history>>
  PROVE  TypeInv'
BY DEF TypeInv, TypeOK, ServerTypeOK, TransportTypeOK, SessionTypeOK, HistoryTypeOK, Requests, transport, history

LEMMA LockFreeMeans == ASSUME TypeInv, LockFree PROVE NoneAwaited
BY DEF TypeInv, MessagesInFlight, LockFree, NoneAwaited, Awaits

\* The lock is taken and given back at once.
LEMMA TurnedAwayKeeps ==
  ASSUME TypeInv, waiting' \subseteq waiting,
         UNCHANGED <<server, transport, op, cache, loaded, uTurn, uSteer, submitted, reg, recovering, history>>
  PROVE  TypeInv'
<1>1. OpTypeOK' /\ req' \in Requests /\ RecoveryTypeOK'
  BY DEF TypeInv, TypeOK, OpTypeOK, ServerTypeOK, Requests, RecoveryTypeOK, server, recovering
<1>2. MessagesInFlight' BY DEF TypeInv, MessagesInFlight, server
<1>3. RequestAwaited' /\ AnswerAwaited' /\ AnswerCame' /\ NewsOfTurns'
  BY DEF TypeInv, RequestAwaited, AnswerAwaited, AnswerCame, NewsOfTurns, NoReplies, server, transport
<1> QED BY <1>1, <1>2, <1>3, BeginKeeps DEF server

LEMMA BeginStartKeeps ==
  ASSUME TypeInv, NEW m \in waiting, BeginStart(m)
  PROVE  TypeInv'
<1>1. LockFree /\ m.kind = "start" /\ waiting' \subseteq waiting BY DEF BeginStart, Take
<1>2. m.msg \in Msgs /\ m.msg \in MaybeMsg BY <1>1, Constants DEF TypeInv, MessagesInFlight
<1>3. /\ UNCHANGED <<turns, alive, subscribed, transport, cache, loaded, uTurn, uSteer, submitted, reg, history>>
      /\ UNCHANGED recovering /\ UNCHANGED wire
  BY DEF BeginStart, transport
<1>4. RecoveryTypeOK' BY <1>3 DEF TypeInv, TypeOK, RecoveryTypeOK, recovering
<1>5. CASE UNCHANGED <<op, req>> BY <1>1, <1>3, <1>5, TurnedAwayKeeps DEF server
<1>6. CASE Ask([Operation("start", "resume") EXCEPT !.msg = m.msg], "resume", NoMsg, 0)
  <2> DEFINE o == [Operation("start", "resume") EXCEPT !.msg = m.msg]
  <2>1. o \in Operations /\ o.kind = "start" /\ o.msg = m.msg BY <1>2, OperationTypes DEF Operations
  <2>2. /\ OpTypeOK' /\ req' \in Requests /\ MessagesInFlight'
        /\ RequestAwaited' /\ AnswerAwaited' /\ AnswerCame' /\ NewsOfTurns'
    <3> HIDE DEF o
    <3> QED BY <1>1, <1>2, <1>3, <1>6, <2>1, LockFreeMeans, AskKeeps, Constants DEF Awaits, o
  <2> QED BY <2>2, <1>1, <1>3, <1>4, BeginKeeps
<1>7. CASE op' = [Operation("start", "ready") EXCEPT !.msg = m.msg] /\ UNCHANGED req
  <2>1. /\ op' \in Operations /\ op'.phase = "ready" /\ op'.reply = NoReply /\ op'.kind = "start"
        /\ op'.msg \in Msgs
    BY <1>2, <1>7, OperationTypes DEF Operations
  <2>2. OpTypeOK' /\ MessagesInFlight' /\ RequestAwaited' /\ AnswerAwaited' /\ AnswerCame' /\ NewsOfTurns'
    BY <1>1, <1>3, <1>7, <2>1, LockFreeMeans, RestKeeps DEF Awaits
  <2>3. req' \in Requests BY <1>7 DEF TypeInv, TypeOK, ServerTypeOK, Requests
  <2> QED BY <2>2, <2>3, <1>1, <1>3, <1>4, BeginKeeps
<1> QED BY <1>5, <1>6, <1>7 DEF BeginStart

LEMMA BeginScheduledKeeps ==
  ASSUME TypeInv, NEW m \in waiting, BeginScheduled(m)
  PROVE  TypeInv'
<1>1. LockFree /\ m.kind = "scheduled" /\ waiting' \subseteq waiting BY DEF BeginScheduled, Take
<1>2. m.msg \in Msgs /\ m.msg \in MaybeMsg BY <1>1, Constants DEF TypeInv, MessagesInFlight
<1>3. /\ UNCHANGED <<turns, alive, subscribed, transport, cache, loaded, uTurn, uSteer, submitted, reg, history>>
      /\ UNCHANGED recovering /\ UNCHANGED wire
  BY DEF BeginScheduled, transport
<1>4. RecoveryTypeOK' BY <1>3 DEF TypeInv, TypeOK, RecoveryTypeOK, recovering
<1>5. CASE UNCHANGED <<op, req>> BY <1>1, <1>3, <1>5, TurnedAwayKeeps DEF server
<1>6. CASE Ask([Operation("scheduled", "resume") EXCEPT !.msg = m.msg], "resume", NoMsg, 0)
  <2> DEFINE o == [Operation("scheduled", "resume") EXCEPT !.msg = m.msg]
  <2>1. o \in Operations /\ o.kind = "scheduled" /\ o.msg = m.msg BY <1>2, OperationTypes DEF Operations
  <2>2. /\ OpTypeOK' /\ req' \in Requests /\ MessagesInFlight'
        /\ RequestAwaited' /\ AnswerAwaited' /\ AnswerCame' /\ NewsOfTurns'
    <3> HIDE DEF o
    <3> QED BY <1>1, <1>2, <1>3, <1>6, <2>1, LockFreeMeans, AskKeeps, Constants DEF Awaits, o
  <2> QED BY <2>2, <1>1, <1>3, <1>4, BeginKeeps
<1> QED BY <1>5, <1>6 DEF BeginScheduled

LEMMA BeginSteerKeeps ==
  ASSUME TypeInv, NEW m \in waiting, BeginSteer(m)
  PROVE  TypeInv'
<1>1. LockFree /\ m.kind = "steer" /\ waiting' \subseteq waiting BY DEF BeginSteer, Take
<1>2. m.msg \in Msgs /\ m.msg \in MaybeMsg /\ m.turn \in MaybeNumber
  BY <1>1, Constants DEF TypeInv, MessagesInFlight, TypeOK, SessionTypeOK
<1>3. UNCHANGED <<server, transport, cache, loaded, uTurn, uSteer, submitted, reg, recovering, history>>
  BY DEF BeginSteer
<1>4. CASE UNCHANGED op BY <1>1, <1>3, <1>4, TurnedAwayKeeps
<1>5. CASE op' = [Operation("steer", "ready") EXCEPT !.msg = m.msg, !.turn = m.turn]
  <2>1. /\ op' \in Operations /\ op'.phase = "ready" /\ op'.reply = NoReply /\ op'.kind = "steer"
        /\ op'.msg \in Msgs
    BY <1>2, <1>5, OperationTypes DEF Operations
  <2>2. OpTypeOK' /\ MessagesInFlight' /\ RequestAwaited' /\ AnswerAwaited' /\ AnswerCame' /\ NewsOfTurns'
    BY <1>1, <1>3, <2>1, LockFreeMeans, RestKeeps DEF Awaits, server, transport
  <2>3. req' \in Requests /\ RecoveryTypeOK'
    BY <1>3 DEF TypeInv, TypeOK, ServerTypeOK, Requests, RecoveryTypeOK, server, recovering
  <2> QED BY <2>2, <2>3, <1>1, <1>3, BeginKeeps DEF server
<1> QED BY <1>4, <1>5 DEF BeginSteer

LEMMA BeginReadKeeps == ASSUME TypeInv, BeginRead PROVE TypeInv'
<1>1. /\ LockFree /\ Ask(Operation("read", "resume"), "resume", NoMsg, 0)
      /\ UNCHANGED <<turns, alive, subscribed, transport, cache, loaded, uTurn, uSteer, submitted, reg, history>>
      /\ UNCHANGED waiting /\ UNCHANGED recovering /\ UNCHANGED wire
  BY DEF BeginRead, transport
<1>2. Operation("read", "resume") \in Operations /\ Operation("read", "resume").kind = "read" BY OperationTypes
<1>3. RecoveryTypeOK' BY <1>1 DEF TypeInv, TypeOK, RecoveryTypeOK, recovering
<1>4. /\ OpTypeOK' /\ req' \in Requests /\ MessagesInFlight'
      /\ RequestAwaited' /\ AnswerAwaited' /\ AnswerCame' /\ NewsOfTurns'
  BY <1>1, <1>2, LockFreeMeans, AskKeeps, Constants DEF Awaits
<1> QED BY <1>1, <1>3, <1>4, BeginKeeps

LEMMA BeginReconcileKeeps == ASSUME TypeInv, BeginReconcile PROVE TypeInv'
<1>1. /\ LockFree /\ Ask(Operation("reconcile", "resume"), "resume", NoMsg, 0)
      /\ UNCHANGED <<turns, alive, subscribed, transport, cache, loaded, uTurn, uSteer, submitted, reg, history>>
      /\ UNCHANGED waiting /\ UNCHANGED wire
  BY DEF BeginReconcile, transport
<1>2. Operation("reconcile", "resume") \in Operations /\ Operation("reconcile", "resume").kind = "reconcile"
  BY OperationTypes
<1>3. RecoveryTypeOK' BY DEF BeginReconcile, TypeInv, TypeOK, RecoveryTypeOK
<1>4. /\ OpTypeOK' /\ req' \in Requests /\ MessagesInFlight'
      /\ RequestAwaited' /\ AnswerAwaited' /\ AnswerCame' /\ NewsOfTurns'
  BY <1>1, <1>2, LockFreeMeans, AskKeeps, Constants DEF Awaits
<1> QED BY <1>1, <1>3, <1>4, BeginKeeps

LEMMA BeginResolveKeeps == ASSUME TypeInv, BeginResolve PROVE TypeInv'
<1>1. /\ LockFree /\ waiting' \subseteq waiting
      /\ UNCHANGED <<turns, alive, subscribed, transport, cache, loaded, uTurn, uSteer, submitted, reg, history>>
      /\ UNCHANGED recovering /\ UNCHANGED wire
  BY DEF BeginResolve, Take, transport
<1>2. CASE UNCHANGED <<op, req>> BY <1>1, <1>2, TurnedAwayKeeps DEF server
<1> DEFINE o == [Operation("resolve", "read") EXCEPT !.msg = uSteer.msg, !.turn = uSteer.turn, !.base = uTurn.base]
<1>3. CASE Ask(o, "read", NoMsg, 0)
  <2>1. o \in Operations /\ o.kind = "resolve" BY OperationTypes DEF Operations, TypeInv, TypeOK, SessionTypeOK
  <2>2. RecoveryTypeOK' BY <1>1 DEF TypeInv, TypeOK, RecoveryTypeOK, recovering
  <2> HIDE DEF o
  <2>3. /\ OpTypeOK' /\ req' \in Requests /\ MessagesInFlight'
        /\ RequestAwaited' /\ AnswerAwaited' /\ AnswerCame' /\ NewsOfTurns'
    BY <1>1, <1>3, <2>1, LockFreeMeans, AskKeeps, Constants DEF Awaits
  <2> QED BY <2>2, <2>3, <1>1, BeginKeeps
<1> QED BY <1>2, <1>3 DEF BeginResolve

LEMMA SettledMeans ==
  ASSUME TypeInv
  PROVE  /\ \A phase : Settled(phase) => NoneAwaited /\ op.phase = phase
         /\ op.phase \notin Awaits => NoneAwaited
BY DEF Settled, NoneAwaited

\* What the continuation of an operation leaves alone.
LEMMA ContinueKeeps ==
  ASSUME TypeInv, OpTypeOK', req' \in Requests, SessionTypeOK', reg' \in Runtime, RecoveryTypeOK', HistoryTypeOK',
         MessagesInFlight', RequestAwaited', AnswerAwaited', AnswerCame', NewsOfTurns',
         UNCHANGED <<turns, alive, subscribed, transport>>
  PROVE  TypeInv'
BY DEF TypeInv, TypeOK, ServerTypeOK, TransportTypeOK, Requests, transport

LEMMA TypedParts ==
  ASSUME TypeInv
  PROVE  /\ req \in Requests /\ op \in Operations /\ cache \in View /\ reg \in Runtime
         /\ SessionTypeOK /\ RecoveryTypeOK /\ HistoryTypeOK
         /\ op.reply.view \in View /\ op.view \in View /\ op.turn \in MaybeNumber
BY DEF TypeInv, TypeOK, ServerTypeOK, OpTypeOK, SessionTypeOK, Requests, Operations, Lines

LEMMA TellAppliedType == ASSUME TypeInv, NEW published \in BOOLEAN PROVE
    TellApplied(published) \in [Msgs -> {"none", "applied", "notApplied"}]
BY DEF TellApplied, TypeInv, TypeOK, HistoryTypeOK

\* A scheduled prompt goes on as a start, any other operation ends.
LEMMA ProceedKeeps ==
  ASSUME TypeInv, NoneAwaited, UNCHANGED <<wire, req, waiting, queued>>,
         \/ Release(op.kind)
         \/ /\ op.kind = "scheduled" /\ UNCHANGED recovery
            /\ op' = [Operation("start", "ready") EXCEPT !.msg = op.msg]
  PROVE  /\ OpTypeOK' /\ MessagesInFlight' /\ RecoveryTypeOK'
         /\ RequestAwaited' /\ AnswerAwaited' /\ AnswerCame' /\ NewsOfTurns'
<1>1. CASE Release(op.kind) BY <1>1, ReleaseKeeps
<1>2. CASE /\ op.kind = "scheduled" /\ UNCHANGED recovery
           /\ op' = [Operation("start", "ready") EXCEPT !.msg = op.msg]
  <2>1. op.msg \in Msgs /\ op.msg \in MaybeMsg BY <1>2, Constants DEF TypeInv, MessagesInFlight
  <2>2. /\ op' \in Operations /\ op'.phase = "ready" /\ op'.reply = NoReply /\ op'.kind = "start"
        /\ op'.msg \in Msgs
    BY <1>2, <2>1, OperationTypes DEF Operations
  <2>3. RecoveryTypeOK' BY <1>2 DEF TypeInv, TypeOK, RecoveryTypeOK
  <2> QED BY <2>2, <2>3, RestKeeps DEF Awaits
<1> QED BY <1>1, <1>2

LEMMA DelayTypes ==
  ASSUME NEW o \in Operations, NEW view \in View, NEW n \in Nat
  PROVE  LET p == [o EXCEPT !.phase = "delay", !.reply = NoReply, !.tries = n, !.view = view]
         IN  /\ p \in Operations /\ p.phase = "delay" /\ p.reply = NoReply
             /\ p.kind = o.kind /\ p.msg = o.msg
<1>1. NoReply \in Lines BY ReplyTypes
<1> DEFINE p == [o EXCEPT !.phase = "delay", !.reply = NoReply, !.tries = n, !.view = view]
<1>2. p \in Operations BY <1>1 DEF Operations
<1>3. p.phase = "delay" /\ p.reply = NoReply /\ p.kind = o.kind /\ p.msg = o.msg BY DEF Operations
<1> QED BY <1>2, <1>3

LEMMA RetryKeeps ==
  ASSUME TypeInv, Settled("read"), UNCHANGED <<wire, req, waiting, queued>>, NEW view \in View, Retry(view)
  PROVE  /\ OpTypeOK' /\ MessagesInFlight' /\ RecoveryTypeOK'
         /\ RequestAwaited' /\ AnswerAwaited' /\ AnswerCame' /\ NewsOfTurns'
<1>1. NoneAwaited BY SettledMeans
<1>2. CASE Proceed(reg', uTurn') BY <1>1, <1>2, ProceedKeeps DEF Proceed
<1>3. CASE /\ op' = [op EXCEPT !.phase = "delay", !.reply = NoReply, !.tries = @ + 1, !.view = view]
           /\ UNCHANGED recovery
  <2>1. /\ op' \in Operations /\ op'.phase = "delay" /\ op'.reply = NoReply
        /\ op'.kind = op.kind /\ op'.msg = op.msg
    <3>1. op.tries + 1 \in Nat BY TypedParts DEF Operations
    <3> QED BY <1>3, <3>1, TypedParts, DelayTypes
  <2>2. RecoveryTypeOK' BY <1>3 DEF TypeInv, TypeOK, RecoveryTypeOK
  <2>3. /\ op.kind \in {"start", "scheduled", "steer"} => op.msg \in Msgs
        /\ op.kind # "none"
    BY DEF TypeInv, MessagesInFlight, Settled
  <2> QED BY <1>1, <2>1, <2>2, <2>3, RestKeeps DEF Awaits
<1> QED BY <1>2, <1>3 DEF Retry

LEMMA ResumedKeeps == ASSUME TypeInv, Resumed PROVE TypeInv'
<1>1. /\ NoneAwaited /\ op.phase = "resume"
      /\ UNCHANGED <<turns, alive, subscribed, transport, uTurn, uSteer, submitted, waiting, reg, queued, history>>
      /\ UNCHANGED wire
  BY SettledMeans DEF Resumed, transport
<1>2. reg' \in Runtime /\ HistoryTypeOK' BY <1>1, TypedParts DEF HistoryTypeOK, history
<1>3. CASE Release(op.kind) /\ UNCHANGED <<req, cache, loaded>>
  <2>1. req' \in Requests /\ SessionTypeOK' BY <1>1, <1>3, TypedParts DEF SessionTypeOK
  <2>2. /\ OpTypeOK' /\ MessagesInFlight' /\ RecoveryTypeOK'
        /\ RequestAwaited' /\ AnswerAwaited' /\ AnswerCame' /\ NewsOfTurns'
    BY <1>1, <1>3, ReleaseKeeps
  <2> QED BY <1>1, <1>2, <2>1, <2>2, ContinueKeeps
<1>4. CASE /\ cache' = Merge(op.reply.view, cache)
           /\ loaded' = (IF loaded = "absent" THEN "resumed" ELSE loaded)
           /\ IF op.kind = "start"
              THEN op' = [op EXCEPT !.phase = "ready", !.reply = NoReply] /\ UNCHANGED req
              ELSE Ask(op, "read", NoMsg, 0)
           /\ UNCHANGED recovery
  <2>1. SessionTypeOK' /\ RecoveryTypeOK' BY <1>1, <1>4, TypedParts, MergeType DEF SessionTypeOK, RecoveryTypeOK
  <2>2. /\ op.kind \in {"start", "scheduled", "steer"} => op.msg \in Msgs
        /\ op.kind # "none"
    BY <1>1 DEF TypeInv, MessagesInFlight
  <2>3. CASE op' = [op EXCEPT !.phase = "ready", !.reply = NoReply] /\ UNCHANGED req /\ op.kind = "start"
    <3>1. /\ op' \in Operations /\ op'.phase = "ready" /\ op'.reply = NoReply
          /\ op'.kind = "start" /\ op'.msg = op.msg
      BY <2>3, TypedParts, ReplyTypes DEF Operations
    <3>2. OpTypeOK' /\ MessagesInFlight' /\ RequestAwaited' /\ AnswerAwaited' /\ AnswerCame' /\ NewsOfTurns'
      BY <1>1, <2>2, <2>3, <3>1, RestKeeps DEF Awaits
    <3> QED BY <1>1, <1>2, <2>1, <2>3, <3>2, TypedParts, ContinueKeeps
  <2>4. CASE Ask(op, "read", NoMsg, 0)
    <3>1. /\ OpTypeOK' /\ req' \in Requests /\ MessagesInFlight'
          /\ RequestAwaited' /\ AnswerAwaited' /\ AnswerCame' /\ NewsOfTurns'
      BY <1>1, <2>2, <2>4, TypedParts, AskKeeps, Constants DEF Awaits
    <3> QED BY <1>1, <1>2, <2>1, <3>1, ContinueKeeps
  <2> QED BY <1>4, <2>3, <2>4
<1> QED BY <1>3, <1>4 DEF Resumed

LEMMA ReconcileRuntimeKeeps ==
  ASSUME TypeInv, Settled("read"), NEW view \in View, ReconcileRuntime(view),
         UNCHANGED <<server, transport, submitted, waiting, queued, lateMsgs, overtaken, losses, timeouts>>
  PROVE  TypeInv'
<1> DEFINE r == ReconcileSnapshot(reg, view, FALSE)
           applied == uTurn.msg # NoMsg /\ StartApplied(view, uTurn.base)
           steered == IF LiveAt(view, uSteer.turn) THEN uSteer.turn ELSE 0
<1>1. r.reg \in Runtime BY TypedParts, ReconcileTypes
<1>2. steered \in MaybeNumber BY Constants, TypedParts DEF SessionTypeOK
<1>3. NoneAwaited BY SettledMeans
<1>4. /\ UNCHANGED <<turns, alive, subscribed, transport>> /\ UNCHANGED <<wire, req, waiting, queued>>
      /\ UNCHANGED <<submitted, lateMsgs, overtaken, losses, timeouts>>
  BY DEF server, transport
<1>5. cache' = view /\ loaded' = "read" BY DEF ReconcileRuntime
<1>6. NoUncertainTurn \in [msg : MaybeMsg, base : MaybeNumber] /\ NoUncertainSteer \in [msg : MaybeMsg, turn : MaybeNumber]
  BY Constants DEF NoUncertainTurn, NoUncertainSteer
<1>7. CASE /\ uSteer' = NoUncertainSteer
           /\ verdict' = TellApplied(TRUE)
           /\ reg' = ConfirmApplied(reg, view, steered)
           /\ UNCHANGED uTurn
           /\ Proceed(reg', uTurn')
  <2>1. reg' \in Runtime BY <1>2, <1>7, TypedParts, ConfirmTypes
  <2>2. SessionTypeOK' /\ HistoryTypeOK'
    BY <1>4, <1>5, <1>6, <1>7, TypedParts, TellAppliedType DEF SessionTypeOK, HistoryTypeOK
  <2>3. /\ OpTypeOK' /\ MessagesInFlight' /\ RecoveryTypeOK'
        /\ RequestAwaited' /\ AnswerAwaited' /\ AnswerCame' /\ NewsOfTurns'
    BY <1>3, <1>4, <1>7, ProceedKeeps DEF Proceed
  <2> QED BY <1>4, <2>1, <2>2, <2>3, TypedParts, ContinueKeeps
<1>8. CASE UNCHANGED <<uSteer, uTurn, reg, verdict>> /\ Retry(view)
  <2>1. reg' \in Runtime /\ SessionTypeOK' /\ HistoryTypeOK'
    BY <1>4, <1>5, <1>8, TypedParts DEF SessionTypeOK, HistoryTypeOK
  <2>2. /\ OpTypeOK' /\ MessagesInFlight' /\ RecoveryTypeOK'
        /\ RequestAwaited' /\ AnswerAwaited' /\ AnswerCame' /\ NewsOfTurns'
    BY <1>4, <1>8, RetryKeeps
  <2> QED BY <1>4, <2>1, <2>2, TypedParts, ContinueKeeps
<1>9. CASE reg' = r.reg /\ UNCHANGED <<uSteer, uTurn, verdict>> /\ Retry(view)
  <2>1. reg' \in Runtime /\ SessionTypeOK' /\ HistoryTypeOK'
    BY <1>1, <1>4, <1>5, <1>9, TypedParts DEF SessionTypeOK, HistoryTypeOK
  <2>2. /\ OpTypeOK' /\ MessagesInFlight' /\ RecoveryTypeOK'
        /\ RequestAwaited' /\ AnswerAwaited' /\ AnswerCame' /\ NewsOfTurns'
    BY <1>4, <1>9, RetryKeeps
  <2> QED BY <1>4, <2>1, <2>2, TypedParts, ContinueKeeps
<1>10. CASE /\ reg' = (IF applied /\ r.outcome = "unresolved" THEN ConfirmApplied(r.reg, view, 0) ELSE r.reg)
            /\ uTurn' = (IF applied THEN NoUncertainTurn ELSE uTurn)
            /\ verdict' = TellApplied(r.published \/ (applied /\ r.outcome = "unresolved"))
            /\ UNCHANGED uSteer
            /\ Proceed(reg', uTurn')
  <2>1. reg' \in Runtime
    <3>1. ConfirmApplied(r.reg, view, 0) \in Runtime BY <1>1, Constants, ConfirmTypes
    <3> QED BY <1>1, <1>10, <3>1
  <2>2. verdict' \in [Msgs -> {"none", "applied", "notApplied"}]
    BY <1>10 DEF TellApplied, TypeInv, TypeOK, HistoryTypeOK
  <2>3. SessionTypeOK' /\ HistoryTypeOK'
    BY <1>4, <1>5, <1>6, <1>10, <2>2, TypedParts DEF SessionTypeOK, HistoryTypeOK
  <2>4. /\ OpTypeOK' /\ MessagesInFlight' /\ RecoveryTypeOK'
        /\ RequestAwaited' /\ AnswerAwaited' /\ AnswerCame' /\ NewsOfTurns'
    BY <1>3, <1>4, <1>10, ProceedKeeps DEF Proceed
  <2> QED BY <1>4, <2>1, <2>3, <2>4, TypedParts, ContinueKeeps
<1> QED
  <2> HIDE DEF r, applied, steered
  <2> QED BY <1>7, <1>8, <1>9, <1>10 DEF ReconcileRuntime, r, applied, steered

LEMMA ReadDoneKeeps == ASSUME TypeInv, ReadDone PROVE TypeInv'
<1> DEFINE view == IF op.tries > 0 THEN Merge(op.reply.view, op.view)
                   ELSE IF op.kind = "read" THEN Merge(op.reply.view, cache)
                   ELSE op.reply.view
           conflict == op.kind = "scheduled" /\ op.tries = 0 /\ \E t \in DOMAIN view : LiveAt(view, t)
           reconcile == op.tries > 0 \/ op.kind = "reconcile" \/ reg.state = "disconnected"
<1>1. view \in View BY TypedParts, MergeType
<1>2. /\ Settled("read") /\ NoneAwaited
      /\ UNCHANGED <<server, transport, submitted, waiting, queued, lateMsgs, overtaken, losses, timeouts>>
  BY SettledMeans DEF ReadDone
<1>3. /\ UNCHANGED <<turns, alive, subscribed, transport>> /\ UNCHANGED <<wire, req, waiting, queued>>
      /\ UNCHANGED <<submitted, lateMsgs, overtaken, losses, timeouts>>
  BY <1>2 DEF server, transport
<1>4. CASE Release(op.kind) /\ UNCHANGED <<cache, loaded, uTurn, uSteer, reg, verdict>>
  <2>1. reg' \in Runtime /\ SessionTypeOK' /\ HistoryTypeOK'
    BY <1>3, <1>4, TypedParts DEF SessionTypeOK, HistoryTypeOK
  <2>2. /\ OpTypeOK' /\ MessagesInFlight' /\ RecoveryTypeOK'
        /\ RequestAwaited' /\ AnswerAwaited' /\ AnswerCame' /\ NewsOfTurns'
    BY <1>2, <1>3, <1>4, ReleaseKeeps
  <2> QED BY <1>3, <2>1, <2>2, TypedParts, ContinueKeeps
<1>5. CASE ReconcileRuntime(view) BY <1>1, <1>2, <1>5, ReconcileRuntimeKeeps
<1>6. CASE /\ IF op.kind = "read" THEN cache' = view /\ loaded' = "read" ELSE UNCHANGED <<cache, loaded>>
           /\ UNCHANGED <<uTurn, uSteer, reg, verdict>>
           /\ Proceed(reg, uTurn)
  <2>1. cache' \in View /\ loaded' \in {"absent", "resumed", "read"} BY <1>1, <1>6, TypedParts DEF SessionTypeOK
  <2>2. reg' \in Runtime /\ SessionTypeOK' /\ HistoryTypeOK'
    BY <1>3, <1>6, <2>1, TypedParts DEF SessionTypeOK, HistoryTypeOK
  <2>3. /\ OpTypeOK' /\ MessagesInFlight' /\ RecoveryTypeOK'
        /\ RequestAwaited' /\ AnswerAwaited' /\ AnswerCame' /\ NewsOfTurns'
    BY <1>2, <1>3, <1>6, ProceedKeeps DEF Proceed
  <2> QED BY <1>3, <2>2, <2>3, TypedParts, ContinueKeeps
<1> QED
  <2>1. CASE ~op.reply.ok \/ conflict BY <2>1, <1>4 DEF ReadDone
  <2>2. CASE op.reply.ok /\ ~conflict /\ reconcile BY <2>2, <1>5 DEF ReadDone
  <2>3. CASE op.reply.ok /\ ~conflict /\ ~reconcile BY <2>3, <1>6 DEF ReadDone
  <2> QED BY <2>1, <2>2, <2>3

LEMMA DelayOverKeeps == ASSUME TypeInv, DelayOver PROVE TypeInv'
<1>1. /\ op.phase = "delay" /\ Ask(op, "read", NoMsg, 0)
      /\ UNCHANGED <<turns, alive, subscribed, transport>>
      /\ UNCHANGED <<cache, loaded, uTurn, uSteer, submitted, waiting, reg, recovering, history>>
      /\ UNCHANGED wire
  BY DEF DelayOver, transport
<1>2. NoneAwaited BY <1>1, SettledMeans DEF Awaits
<1>3. /\ op.kind \in {"start", "scheduled", "steer"} => op.msg \in Msgs
      /\ op.kind # "none"
  BY <1>1 DEF TypeInv, MessagesInFlight
<1>4. /\ OpTypeOK' /\ req' \in Requests /\ MessagesInFlight'
      /\ RequestAwaited' /\ AnswerAwaited' /\ AnswerCame' /\ NewsOfTurns'
  BY <1>1, <1>2, <1>3, TypedParts, AskKeeps, Constants DEF Awaits
<1>5. reg' \in Runtime /\ SessionTypeOK' /\ HistoryTypeOK' /\ RecoveryTypeOK'
  BY <1>1, TypedParts DEF SessionTypeOK, HistoryTypeOK, RecoveryTypeOK, recovering, history
<1> QED BY <1>1, <1>4, <1>5, ContinueKeeps

LEMMA ResolveReadKeeps == ASSUME TypeInv, ResolveRead PROVE TypeInv'
<1> DEFINE view == Merge(op.reply.view, cache)
           steer == op.msg # NoMsg
           steered == IF steer /\ LiveAt(view, op.turn) THEN op.turn ELSE 0
<1>1. view \in View /\ steered \in MaybeNumber BY TypedParts, MergeType, Constants
<1>2. /\ NoneAwaited /\ op.phase = "read" /\ op.kind = "resolve"
      /\ UNCHANGED <<turns, alive, subscribed, transport>> /\ UNCHANGED <<wire, req, waiting, queued>>
      /\ UNCHANGED <<submitted, lateMsgs, overtaken, losses, timeouts>>
  BY SettledMeans DEF ResolveRead, server, transport
<1>3. CASE Release(op.kind) /\ UNCHANGED <<cache, loaded, uTurn, uSteer, reg, verdict>>
  <2>1. reg' \in Runtime /\ SessionTypeOK' /\ HistoryTypeOK'
    BY <1>2, <1>3, TypedParts DEF SessionTypeOK, HistoryTypeOK
  <2>2. /\ OpTypeOK' /\ MessagesInFlight' /\ RecoveryTypeOK'
        /\ RequestAwaited' /\ AnswerAwaited' /\ AnswerCame' /\ NewsOfTurns'
    BY <1>2, <1>3, ReleaseKeeps
  <2> QED BY <1>2, <2>1, <2>2, TypedParts, ContinueKeeps
<1>4. CASE /\ cache' = view /\ loaded' = "read"
           /\ IF steer THEN uSteer' = NoUncertainSteer /\ UNCHANGED uTurn
                       ELSE uTurn' = NoUncertainTurn /\ UNCHANGED uSteer
           /\ verdict' = TellApplied(TRUE)
           /\ reg' = ConfirmApplied(reg, view, steered)
           /\ Release(op.kind)
  <2>1. reg' \in Runtime BY <1>1, <1>4, TypedParts, ConfirmTypes
  <2>2. /\ uTurn' \in [msg : MaybeMsg, base : MaybeNumber]
        /\ uSteer' \in [msg : MaybeMsg, turn : MaybeNumber]
    BY <1>4, TypedParts, Constants DEF SessionTypeOK, NoUncertainTurn, NoUncertainSteer
  <2>3. SessionTypeOK' /\ HistoryTypeOK'
    BY <1>1, <1>2, <1>4, <2>2, TypedParts, TellAppliedType DEF SessionTypeOK, HistoryTypeOK
  <2>4. /\ OpTypeOK' /\ MessagesInFlight' /\ RecoveryTypeOK'
        /\ RequestAwaited' /\ AnswerAwaited' /\ AnswerCame' /\ NewsOfTurns'
    BY <1>2, <1>4, ReleaseKeeps
  <2> QED BY <1>2, <2>1, <2>3, <2>4, TypedParts, ContinueKeeps
<1> DEFINE m == IF steer THEN op.msg ELSE uTurn.msg
<1>5. CASE /\ cache' = view /\ loaded' = "read"
           /\ op' = [op EXCEPT !.phase = "settle", !.reply = NoReply, !.view = view, !.msg = m]
           /\ UNCHANGED <<uTurn, uSteer, reg, verdict, recovery>>
  <2>1. m \in MaybeMsg BY TypedParts DEF Operations, SessionTypeOK
  <2>2. reg' \in Runtime /\ SessionTypeOK' /\ HistoryTypeOK' /\ RecoveryTypeOK'
    BY <1>1, <1>2, <1>5, TypedParts DEF SessionTypeOK, HistoryTypeOK, RecoveryTypeOK
  <2> HIDE DEF view, m
  <2>3. op' \in Operations BY <1>1, <1>5, <2>1, TypedParts, ReplyTypes DEF Operations
  <2>4. op'.phase = "settle" /\ op'.reply = NoReply /\ op'.kind = "resolve"
    BY <1>2, <1>5, TypedParts DEF Operations
  <2>5. OpTypeOK' /\ MessagesInFlight' /\ RequestAwaited' /\ AnswerAwaited' /\ AnswerCame' /\ NewsOfTurns'
    BY <1>2, <2>3, <2>4, RestKeeps DEF Awaits
  <2> QED BY <1>2, <2>2, <2>5, TypedParts, ContinueKeeps
<1> QED BY <1>3, <1>4, <1>5 DEF ResolveRead

LEMMA ResolveNotAppliedKeeps == ASSUME TypeInv, ResolveNotApplied PROVE TypeInv'
<1>1. /\ op.phase = "settle" /\ Release(op.kind)
      /\ UNCHANGED <<turns, alive, subscribed, transport>> /\ UNCHANGED <<wire, req, waiting, queued>>
      /\ UNCHANGED <<cache, loaded, lateMsgs, overtaken, losses, timeouts>>
  BY DEF ResolveNotApplied, server, transport
<1>2. NoneAwaited BY <1>1, SettledMeans DEF Awaits
<1>3. reg' \in Runtime
  <2> DEFINE active == IF LiveAt(op.view, op.turn) THEN op.turn ELSE 0
  <2>1. active \in MaybeNumber BY TypedParts, Constants
  <2>2. reg' = ConfirmNotApplied(reg, op.view, active) BY DEF ResolveNotApplied
  <2> HIDE DEF active
  <2> QED BY <2>1, <2>2, TypedParts, ConfirmTypes
<1>4. /\ uTurn' \in [msg : MaybeMsg, base : MaybeNumber]
      /\ uSteer' \in [msg : MaybeMsg, turn : MaybeNumber]
  BY TypedParts, Constants DEF ResolveNotApplied, SessionTypeOK, NoUncertainTurn, NoUncertainSteer
<1>5. submitted' \subseteq Msgs BY TypedParts DEF ResolveNotApplied, SessionTypeOK
<1>6. HistoryTypeOK' BY <1>1, TypedParts DEF ResolveNotApplied, HistoryTypeOK
<1>7. SessionTypeOK' BY <1>1, <1>4, <1>5, TypedParts DEF SessionTypeOK
<1>8. /\ OpTypeOK' /\ MessagesInFlight' /\ RecoveryTypeOK'
      /\ RequestAwaited' /\ AnswerAwaited' /\ AnswerCame' /\ NewsOfTurns'
  BY <1>1, <1>2, ReleaseKeeps
<1> QED BY <1>1, <1>3, <1>6, <1>7, <1>8, TypedParts, ContinueKeeps

LEMMA SendKeeps == ASSUME TypeInv, Send PROVE TypeInv'
<1> DEFINE base == IF op.kind = "start" THEN LastOf(cache) ELSE op.base
           o == [op EXCEPT !.base = base]
<1>1. /\ op.phase = "ready" /\ Ask(o, "mutate", op.msg, op.turn)
      /\ UNCHANGED <<turns, alive, subscribed, transport>>
      /\ UNCHANGED <<cache, loaded, uTurn, uSteer, submitted, waiting, reg, recovering, history>>
      /\ UNCHANGED wire
  BY DEF Send, transport
<1>2. NoneAwaited BY <1>1, SettledMeans DEF Awaits
<1>3. op.kind \in {"start", "steer"} /\ op.msg \in Msgs BY <1>1 DEF TypeInv, MessagesInFlight
<1>4. base \in MaybeNumber BY TypedParts, LastOfType DEF Operations
<1>5. o \in Operations /\ o.kind = op.kind /\ o.msg = op.msg
  <2> HIDE DEF base
  <2> QED BY <1>4, TypedParts DEF Operations
<1> HIDE DEF base, o
<1>6. /\ OpTypeOK' /\ req' \in Requests /\ MessagesInFlight'
      /\ RequestAwaited' /\ AnswerAwaited' /\ AnswerCame' /\ NewsOfTurns'
  BY <1>1, <1>2, <1>3, <1>5, TypedParts, AskKeeps, Constants DEF Awaits
<1>7. reg' \in Runtime /\ SessionTypeOK' /\ HistoryTypeOK' /\ RecoveryTypeOK'
  BY <1>1, TypedParts DEF SessionTypeOK, HistoryTypeOK, RecoveryTypeOK, recovering, history
<1> QED BY <1>1, <1>6, <1>7, ContinueKeeps

\* The answer of turn/start is what AnswerCame says of it.
LEMMA RespondedKeeps == ASSUME TypeInv, Responded PROVE TypeInv'
<1>1. /\ op.phase = "mutate" /\ op.reply # NoReply /\ NoneAwaited /\ Release(op.kind)
      /\ UNCHANGED <<turns, alive, subscribed, transport>> /\ UNCHANGED <<wire, req, waiting, queued>>
      /\ UNCHANGED <<loaded, uSteer, submitted, history>>
  BY SettledMeans DEF Responded, Settled, server, transport
<1>2. reg' \in Runtime /\ cache' \in View /\ uTurn' \in [msg : MaybeMsg, base : MaybeNumber]
  <2>1. CASE op.kind = "start" /\ op.reply.ok
    <3>1. op.reply.turn \in Numbers BY <1>1, <2>1 DEF TypeInv, AnswerCame, TurnAnswer
    <3>2. op.reply.rec \in Turn BY TypedParts DEF Operations, Lines
    <3> QED BY <2>1, <3>1, <3>2, TypedParts, UpsertType, RuntimeTypes, Constants
            DEF Responded, NoUncertainTurn
  <2>2. CASE ~(op.kind = "start" /\ op.reply.ok) BY <2>2, TypedParts DEF Responded, SessionTypeOK
  <2> QED BY <2>1, <2>2
<1>3. SessionTypeOK' /\ HistoryTypeOK' BY <1>1, <1>2, TypedParts DEF SessionTypeOK, HistoryTypeOK, history
<1>4. /\ OpTypeOK' /\ MessagesInFlight' /\ RecoveryTypeOK'
      /\ RequestAwaited' /\ AnswerAwaited' /\ AnswerCame' /\ NewsOfTurns'
  BY <1>1, ReleaseKeeps
<1> QED BY <1>1, <1>2, <1>3, <1>4, TypedParts, ContinueKeeps

----
(* Lines reach the web server. *)

\* Lines are handled, cut off or gone stale: what is left was on the wire.
LEMMA ThinnerWire ==
  ASSUME TypeInv, UNCHANGED op, NEW d \in Nat,
         \A i \in DOMAIN wire' :
            /\ i \in Nat /\ i + d \in DOMAIN wire
            /\ \/ wire'[i] = wire[i + d]
               \/ wire'[i].kind \notin {"reply", "started", "completed"}
  PROVE  /\ AnswerAwaited' /\ AnswerCame' /\ NewsOfTurns'
         /\ NoReplies(wire) => NoReplies(wire)'
<1>1. ASSUME NEW i \in DOMAIN wire', wire'[i].kind = "reply"
      PROVE  wire'[i] = wire[i + d] /\ i + d \in DOMAIN wire /\ wire[i + d].kind = "reply"
  BY <1>1
<1>2. ASSUME NEW i \in DOMAIN wire', wire'[i].kind \in {"started", "completed"}
      PROVE  wire'[i] = wire[i + d] /\ i + d \in DOMAIN wire
  BY <1>2
<1>3. NoReplies(wire) => NoReplies(wire)' BY <1>1 DEF NoReplies
<1>4. NewsOfTurns' BY <1>2 DEF TypeInv, NewsOfTurns
<1>5. AnswerAwaited'
  <2> SUFFICES ASSUME NEW i \in DOMAIN wire', wire'[i].kind = "reply"
               PROVE  /\ op'.phase \in Awaits /\ op'.reply = NoReply
                      /\ TurnAnswer(op', wire'[i])
                      /\ \A j \in DOMAIN wire' : wire'[j].kind = "reply" => i = j
    BY DEF AnswerAwaited, TurnAnswer
  <2>1. /\ op.phase \in Awaits /\ op.reply = NoReply
        /\ TurnAnswer(op, wire[i + d])
        /\ \A j \in DOMAIN wire : wire[j].kind = "reply" => i + d = j
    BY <1>1 DEF TypeInv, AnswerAwaited
  <2>2. ASSUME NEW j \in DOMAIN wire', wire'[j].kind = "reply" PROVE i = j BY <1>1, <2>1, <2>2
  <2> QED BY <1>1, <2>1, <2>2
<1> QED BY <1>3, <1>4, <1>5 DEF TypeInv, AnswerCame, TurnAnswer

LEMMA ReceiveMeans ==
  ASSUME TypeInv, NEW kind, Receive(kind)
  PROVE  /\ Head(wire) \in Lines /\ Head(wire).kind = kind
         /\ 1 \in DOMAIN wire /\ Head(wire) = wire[1]
         /\ wire' \in Seq(Lines)
         /\ \A i \in DOMAIN wire' : i \in Nat /\ i + 1 \in DOMAIN wire /\ wire'[i] = wire[i + 1] /\ i + 1 # 1
<1>1. wire \in Seq(Lines) /\ wire # << >> /\ wire' = Tail(wire) /\ Head(wire).kind = kind
  BY DEF Receive, TypeInv, TypeOK, TransportTypeOK
<1>2. wire' \in Seq(Lines) /\ Len(wire') = Len(wire) - 1 /\ Len(wire) \in Nat /\ Len(wire) > 0 BY <1>1
<1>3. \A i \in 1 .. Len(wire') : wire'[i] = wire[i + 1] BY <1>1, <1>2
<1>4. DOMAIN wire = 1 .. Len(wire) /\ DOMAIN wire' = 1 .. Len(wire') BY <1>1, <1>2
<1>5. Head(wire) = wire[1] /\ 1 \in DOMAIN wire /\ wire[1] \in Lines BY <1>1, <1>2, <1>4
<1> QED BY <1>1, <1>2, <1>3, <1>4, <1>5

\* A line that is no response leaves the request and its answer as they are.
LEMMA ReceiveKeeps ==
  ASSUME TypeInv, NEW kind, Receive(kind), UNCHANGED <<op, server, link, strays, waiting>>
  PROVE  /\ ServerTypeOK' /\ TransportTypeOK' /\ OpTypeOK'
         /\ MessagesInFlight' /\ RequestAwaited' /\ AnswerAwaited' /\ AnswerCame' /\ NewsOfTurns'
<1>1. AnswerAwaited' /\ AnswerCame' /\ NewsOfTurns' /\ (NoReplies(wire) => NoReplies(wire)')
  BY ReceiveMeans, ThinnerWire
<1>2. RequestAwaited' BY <1>1 DEF TypeInv, RequestAwaited, Asked, server
<1>3. MessagesInFlight' BY DEF TypeInv, MessagesInFlight, server
<1>4. TransportTypeOK'
  <2>1. wire' \in Seq(Lines) BY ReceiveMeans
  <2> QED BY <2>1 DEF TypeInv, TypeOK, TransportTypeOK
<1>5. ServerTypeOK' /\ OpTypeOK' BY DEF TypeInv, TypeOK, ServerTypeOK, OpTypeOK, server
<1> QED BY <1>1, <1>2, <1>3, <1>4, <1>5

LEMMA HandleReplyKeeps == ASSUME TypeInv, HandleReply PROVE TypeInv'
<1>1. /\ Receive("reply") /\ op' = [op EXCEPT !.reply = Head(wire)]
      /\ UNCHANGED <<server, link, strays>>
      /\ UNCHANGED <<cache, loaded, uTurn, uSteer, submitted, waiting, reg, recovering, history>>
  BY DEF HandleReply
<1>2. /\ op.phase \in Awaits /\ op.reply = NoReply /\ TurnAnswer(op, Head(wire))
      /\ \A j \in DOMAIN wire : wire[j].kind = "reply" => j = 1
  BY <1>1, ReceiveMeans DEF TypeInv, AnswerAwaited
<1>3. op' \in Operations /\ op'.kind = op.kind /\ op'.phase = op.phase /\ op'.msg = op.msg /\ op'.reply = Head(wire)
  BY <1>1, ReceiveMeans, TypedParts DEF Operations
<1>4. Head(wire).kind = "reply" /\ Head(wire) # NoReply BY <1>1, ReceiveMeans DEF NoReply, Line
<1>5. NoReplies(wire)' BY <1>1, <1>2, ReceiveMeans DEF NoReplies
<1>6. AnswerAwaited' BY <1>5 DEF AnswerAwaited, NoReplies
<1>7. req.kind = "none" \/ req.orphan BY <1>1, <1>4, ReceiveMeans DEF TypeInv, RequestAwaited, NoReplies
<1>8. RequestAwaited' BY <1>1, <1>7 DEF RequestAwaited, server
<1>9. AnswerCame' BY <1>2, <1>3 DEF AnswerCame, TurnAnswer
<1>10. NewsOfTurns' BY <1>1, ReceiveMeans DEF TypeInv, NewsOfTurns
<1>11. MessagesInFlight' BY <1>1, <1>3 DEF TypeInv, MessagesInFlight, server
<1>12. TypeOK'
  <2>1. wire' \in Seq(Lines) BY <1>1, ReceiveMeans
  <2>2. TransportTypeOK' BY <1>1, <2>1 DEF TypeInv, TypeOK, TransportTypeOK
  <2> QED BY <1>1, <1>3, <2>2 DEF TypeInv, TypeOK, ServerTypeOK, OpTypeOK, SessionTypeOK, Operations,
          RecoveryTypeOK, HistoryTypeOK, server, recovering, history
<1> QED BY <1>6, <1>8, <1>9, <1>10, <1>11, <1>12 DEF TypeInv

LEMMA HandleLateKeeps == ASSUME TypeInv, HandleLate PROVE TypeInv'
<1>1. /\ Receive("late") /\ UNCHANGED <<op, server, link, strays, waiting>>
      /\ UNCHANGED <<session, reg, recovering, history>>
  BY DEF HandleLate, session
<1>2. SessionTypeOK' /\ reg' \in Runtime /\ RecoveryTypeOK' /\ HistoryTypeOK'
  BY <1>1, TypedParts DEF SessionTypeOK, RecoveryTypeOK, HistoryTypeOK, session, recovering, history
<1> QED BY <1>1, <1>2, ReceiveKeeps DEF TypeInv, TypeOK

LEMMA HandleStatusKeeps == ASSUME TypeInv, HandleStatus PROVE TypeInv'
<1>1. PICK kind \in {"active", "idle"} : Receive(kind) /\ reg' \in {StatusActive(reg), StatusIdle(reg)}
  BY DEF HandleStatus
<1>2. UNCHANGED <<op, server, link, strays, waiting>> /\ UNCHANGED <<session, recovering, history>>
  BY DEF HandleStatus, session
<1>3. reg' \in Runtime BY <1>1, TypedParts, RuntimeTypes
<1>4. SessionTypeOK' /\ RecoveryTypeOK' /\ HistoryTypeOK'
  BY <1>2, TypedParts DEF SessionTypeOK, RecoveryTypeOK, HistoryTypeOK, session, recovering, history
<1> QED BY <1>1, <1>2, <1>3, <1>4, ReceiveKeeps DEF TypeInv, TypeOK

\* turn/started and turn/completed carry a Turn.
LEMMA NewsType ==
  ASSUME TypeInv, NEW kind \in {"started", "completed"}, Receive(kind)
  PROVE  /\ Head(wire).turn \in Numbers /\ Head(wire).turn \in MaybeNumber
         /\ Snapshot(Upsert(cache, Head(wire).turn, Head(wire).rec)) \in View
<1>1. Head(wire).turn \in Numbers /\ Head(wire).rec \in Turn BY ReceiveMeans DEF TypeInv, NewsOfTurns, Lines
<1>2. Upsert(cache, Head(wire).turn, Head(wire).rec) \in View BY <1>1, TypedParts, UpsertType
<1> QED BY <1>1, <1>2, TypedParts, SnapshotType, Constants

LEMMA HandleTurnStartedKeeps == ASSUME TypeInv, HandleTurnStarted PROVE TypeInv'
<1>1. /\ Receive("started") /\ UNCHANGED <<op, server, link, strays, waiting>>
      /\ UNCHANGED <<loaded, uSteer, submitted, recovering, lateMsgs, overtaken, losses, timeouts>>
      /\ uTurn' = NoUncertainTurn
  BY DEF HandleTurnStarted
<1>2. cache' \in View /\ reg' \in Runtime BY <1>1, NewsType, RuntimeTypes DEF HandleTurnStarted
<1>3. HistoryTypeOK' BY <1>1, TellAppliedType, TypedParts DEF HandleTurnStarted, HistoryTypeOK
<1>4. SessionTypeOK' /\ RecoveryTypeOK'
  BY <1>1, <1>2, TypedParts, Constants DEF SessionTypeOK, RecoveryTypeOK, NoUncertainTurn, recovering
<1> QED BY <1>1, <1>2, <1>3, <1>4, ReceiveKeeps DEF TypeInv, TypeOK

LEMMA HandleTurnCompletedKeeps == ASSUME TypeInv, HandleTurnCompleted PROVE TypeInv'
<1>1. /\ Receive("completed") /\ UNCHANGED <<op, server, link, strays, waiting>>
      /\ UNCHANGED <<loaded, uTurn, uSteer, submitted, recovering, verdict, lateMsgs, losses, timeouts>>
      /\ overtaken' \subseteq overtaken \cup {Head(wire).turn}
  BY DEF HandleTurnCompleted
<1>2. cache' \in View /\ reg' \in Runtime BY <1>1, NewsType, RuntimeTypes DEF HandleTurnCompleted
<1>3. SessionTypeOK' /\ RecoveryTypeOK' BY <1>1, <1>2, TypedParts DEF SessionTypeOK, RecoveryTypeOK, recovering
<1>4. HistoryTypeOK' BY <1>1, NewsType, TypedParts DEF HistoryTypeOK
<1> QED BY <1>1, <1>2, <1>3, <1>4, ReceiveKeeps DEF TypeInv, TypeOK

LEMMA HandleItemKeeps == ASSUME TypeInv, HandleItem PROVE TypeInv'
<1>1. /\ Receive("item") /\ UNCHANGED <<op, server, link, strays, waiting>>
      /\ UNCHANGED <<loaded, uTurn, uSteer, submitted, reg, recovering, history>>
  BY DEF HandleItem
<1>2. cache' \in View
  <2>1. DOMAIN cache \in SUBSET Numbers BY TypedParts, LastOfType
  <2>2. Head(wire).rec \in Turn BY <1>1, ReceiveMeans DEF Lines
  <2>3. ASSUME NEW t \in DOMAIN cache
        PROVE  (IF t = Head(wire).turn
                THEN [cache[t] EXCEPT !.msgs = @ \cup Head(wire).rec.msgs] ELSE cache[t]) \in Turn
    BY <2>2, TypedParts, ViewElements DEF Turn
  <2>4. cache' \in [DOMAIN cache -> Turn] BY <2>3 DEF HandleItem
  <2> QED BY <2>1, <2>4, ViewIntro
<1>3. SessionTypeOK' /\ reg' \in Runtime /\ RecoveryTypeOK' /\ HistoryTypeOK'
  BY <1>1, <1>2, TypedParts DEF SessionTypeOK, RecoveryTypeOK, HistoryTypeOK, recovering, history
<1> QED BY <1>1, <1>3, ReceiveKeeps DEF TypeInv, TypeOK

\* The request, its answer and who carries it are as they were.
LEMMA TalkKeeps ==
  ASSUME TypeInv, UNCHANGED <<op, req, wire, waiting>>
  PROVE  MessagesInFlight' /\ RequestAwaited' /\ AnswerAwaited' /\ AnswerCame' /\ NewsOfTurns' /\ OpTypeOK'
<1>1. MessagesInFlight' /\ OpTypeOK' BY DEF TypeInv, MessagesInFlight, TypeOK, OpTypeOK
<1>2. RequestAwaited' /\ AnswerAwaited' /\ AnswerCame' /\ NewsOfTurns'
  BY DEF TypeInv, RequestAwaited, AnswerAwaited, AnswerCame, NewsOfTurns, NoReplies
<1> QED BY <1>1, <1>2

LEMMA FinishTimerKeeps == ASSUME TypeInv, FinishTimer PROVE TypeInv'
<1>1. /\ reg' = [reg EXCEPT !.state = "idle"] /\ UNCHANGED <<server, transport, session, recovering, history>>
      /\ UNCHANGED <<op, req, wire, waiting>>
  BY DEF FinishTimer, server, transport, session
<1>2. reg' \in Runtime BY <1>1, TypedParts DEF Runtime
<1>3. ServerTypeOK' /\ TransportTypeOK' /\ SessionTypeOK' /\ RecoveryTypeOK' /\ HistoryTypeOK'
  BY <1>1 DEF TypeInv, TypeOK, ServerTypeOK, TransportTypeOK, SessionTypeOK, RecoveryTypeOK, HistoryTypeOK,
    server, transport, session, recovering, history
<1> QED BY <1>1, <1>2, <1>3, TalkKeeps DEF TypeInv, TypeOK

----
(* The connection is lost and comes back. *)

\* Lines of a closing process are no responses any more.
LEMMA LateMeans ==
  ASSUME TypeInv, wire' = Late(wire)
  PROVE  wire' \in Seq(Lines) /\ NoReplies(wire)' /\ NewsOfTurns'
<1>1. wire \in Seq(Lines) /\ wire' \in Seq(Lines) BY WireTypes DEF TypeInv, TypeOK, TransportTypeOK
<1>2. DOMAIN wire' = DOMAIN wire BY DEF Late
<1>3. \A i \in DOMAIN wire :
        wire'[i] = IF wire[i].kind = "reply" THEN Line("late") ELSE wire[i]
  BY DEF Late
<1>4. Line("late").kind = "late" BY DEF Line
<1>5. NoReplies(wire)' BY <1>2, <1>3, <1>4 DEF NoReplies
<1>6. NewsOfTurns' BY <1>2, <1>3, <1>4 DEF TypeInv, NewsOfTurns
<1> QED BY <1>1, <1>5, <1>6

LEMMA NoLines ==
  ASSUME wire' = << >>
  PROVE  wire' \in Seq(Lines) /\ NoReplies(wire)' /\ NewsOfTurns'
BY DEF NoReplies, NewsOfTurns

\* What was written is not awaited any more.
LEMMA OrphanMeans ==
  ASSUME TypeInv, req' \in {NoReq, Orphaned(req)}
  PROVE  /\ req' \in Requests
         /\ req'.kind # "none" => req'.orphan
         /\ req'.kind \in {"start", "steer"} => req'.msg \in Msgs
         /\ req'.orphan => req'.kind \in {"start", "steer"}
<1>1. req \in Requests /\ req' \in Requests BY TypedParts, RequestTypes
<1>2. req' = NoReq \/ (req.kind \in {"start", "steer"} /\ req' = [req EXCEPT !.orphan = TRUE]) BY DEF Orphaned
<1>3. NoReq.kind = "none" /\ ~NoReq.orphan BY DEF NoReq
<1>4. CASE req' = NoReq BY <1>1, <1>3, <1>4
<1>5. CASE req.kind \in {"start", "steer"} /\ req' = [req EXCEPT !.orphan = TRUE]
  <2>1. req'.orphan /\ req'.msg = req.msg /\ req'.kind = req.kind BY <1>1, <1>5 DEF Requests
  <2> QED BY <1>1, <1>5, <2>1 DEF TypeInv, MessagesInFlight
<1> QED BY <1>2, <1>4, <1>5

\* Every promise that waited has been rejected.
LEMMA DisconnectOp ==
  ASSUME TypeInv, NEW to, Disconnect(to)
  PROVE  /\ op' \in Operations
         /\ op'.phase \in Awaits => op'.reply # NoReply
         /\ op'.reply # NoReply => TurnAnswer(op', op'.reply)
         /\ op'.kind \in {"start", "scheduled", "steer"} => op'.msg \in Msgs
         /\ op'.phase \in {"ready", "mutate"} => op'.kind \in {"start", "steer"}
         /\ op'.kind = "none" => op'.phase = "none"
<1>1. Refused # NoReply /\ ~Refused.ok BY DEF Refused, NoReply, Reply, Line
<1>2. CASE Awaiting("mutate")
  <2>1. op' = NoOp BY <1>2 DEF Disconnect, Awaiting
  <2>2. NoOp.kind = "none" /\ NoOp.phase = "none" /\ NoOp.reply = NoReply BY DEF NoOp
  <2> QED BY <2>1, <2>2, OperationTypes DEF Awaits
<1>3. CASE ~Awaiting("mutate") /\ (Awaiting("resume") \/ Awaiting("read"))
  <2>1. op' = [op EXCEPT !.reply = Refused] BY <1>3 DEF Disconnect, RejectPending
  <2>2. op' \in Operations /\ op'.reply = Refused /\ op'.phase = op.phase /\ op'.kind = op.kind /\ op'.msg = op.msg
    BY <2>1, TypedParts, ReplyTypes DEF Operations
  <2> QED BY <1>1, <2>2 DEF TypeInv, MessagesInFlight, TurnAnswer
<1>4. CASE ~Awaiting("mutate") /\ ~(Awaiting("resume") \/ Awaiting("read"))
  <2>1. op' = op BY <1>4 DEF Disconnect
  <2>2. op.phase \in Awaits => op.reply # NoReply BY <1>4 DEF Awaiting, Awaits
  <2> QED BY <2>1, <2>2, TypedParts DEF TypeInv, AnswerCame, MessagesInFlight, TurnAnswer
<1> QED BY <1>2, <1>3, <1>4

LEMMA DisconnectKeeps ==
  ASSUME TypeInv, NEW to \in {"closing", "down"}, Disconnect(to),
         wire' \in Seq(Lines), NoReplies(wire)', NewsOfTurns',
         req' \in {NoReq, Orphaned(req)},
         UNCHANGED <<turns, alive, strays>>, subscribed' \in BOOLEAN, HistoryTypeOK'
  PROVE  TypeInv'
<1>1. /\ link' = to /\ recovery' = "closed" /\ UNCHANGED <<cache, loaded, submitted, waiting, queued>>
  BY DEF Disconnect
<1>2. ServerTypeOK' /\ TransportTypeOK' /\ OpTypeOK' /\ RecoveryTypeOK'
  BY <1>1, OrphanMeans, DisconnectOp, TypedParts DEF TypeInv, TypeOK, ServerTypeOK, TransportTypeOK, OpTypeOK,
    RecoveryTypeOK, Requests, Operations
<1>3. reg' \in Runtime
  <2>1. op.base \in MaybeNumber /\ op.turn \in MaybeNumber BY TypedParts DEF Operations
  <2>2. /\ MarkOperationUncertain(op.base) \in Runtime /\ MarkOperationUncertain(op.turn) \in Runtime
        /\ Disconnected(reg) \in Runtime
    BY <2>1, TypedParts, RuntimeTypes
  <2> QED BY <2>2 DEF Disconnect
<1>4. /\ uTurn' \in [msg : MaybeMsg, base : MaybeNumber]
      /\ uSteer' \in [msg : MaybeMsg, turn : MaybeNumber]
  BY TypedParts DEF Disconnect, SessionTypeOK, Operations
<1>5. SessionTypeOK' BY <1>1, <1>4, TypedParts DEF SessionTypeOK
<1>6. MessagesInFlight' BY <1>1, OrphanMeans, DisconnectOp DEF TypeInv, MessagesInFlight
<1>7. RequestAwaited' BY OrphanMeans DEF RequestAwaited
<1>8. AnswerAwaited' /\ AnswerCame' BY DisconnectOp DEF AnswerAwaited, AnswerCame, NoReplies, TurnAnswer
<1> QED BY <1>2, <1>3, <1>5, <1>6, <1>7, <1>8 DEF TypeInv, TypeOK

LEMMA LossHistory ==
  ASSUME TypeInv, losses' \in {losses, losses + 1}, timeouts' \in {timeouts, timeouts + 1},
         UNCHANGED <<verdict, lateMsgs, overtaken>>
  PROVE  HistoryTypeOK'
BY TypedParts DEF HistoryTypeOK

LEMMA MutationTimeoutKeeps == ASSUME TypeInv, MutationTimeout PROVE TypeInv'
<1>1. PICK to \in {"closing", "down"} : Disconnect(to) BY DEF MutationTimeout
<1>2. wire' \in Seq(Lines) /\ NoReplies(wire)' /\ NewsOfTurns' BY LateMeans, NoLines DEF MutationTimeout
<1>3. req' \in {NoReq, Orphaned(req)} /\ UNCHANGED <<turns, alive, strays>> /\ subscribed' \in BOOLEAN
  BY DEF MutationTimeout
<1>4. HistoryTypeOK' BY LossHistory DEF MutationTimeout
<1> QED BY <1>1, <1>2, <1>3, <1>4, DisconnectKeeps

LEMMA SocketLostKeeps == ASSUME TypeInv, SocketLost PROVE TypeInv'
<1>1. Disconnect("down") BY DEF SocketLost
<1>2. wire' \in Seq(Lines) /\ NoReplies(wire)' /\ NewsOfTurns' BY NoLines DEF SocketLost
<1>3. req' \in {NoReq, Orphaned(req)} /\ UNCHANGED <<turns, alive, strays>> /\ subscribed' \in BOOLEAN
  BY DEF SocketLost
<1>4. HistoryTypeOK' BY LossHistory DEF SocketLost
<1> QED BY <1>1, <1>2, <1>3, <1>4, DisconnectKeeps

LEMMA TransportClosedKeeps == ASSUME TypeInv, TransportClosed PROVE TypeInv'
<1>1. /\ wire' = << >> /\ wire = << >> /\ req' = NoReq
      /\ UNCHANGED <<turns, alive, strays>> /\ subscribed' \in BOOLEAN
  BY DEF TransportClosed, TypeInv, TypeOK, ServerTypeOK
<1>2. HistoryTypeOK' BY LossHistory DEF TransportClosed, history
<1>3. CASE Disconnect("down") BY <1>1, <1>2, <1>3, NoLines, DisconnectKeeps
<1>4. CASE link' = "down" /\ UNCHANGED <<session, reg, recovering>>
  <2>3. TransportTypeOK' BY <1>1, <1>4 DEF TypeInv, TypeOK, TransportTypeOK
  <2>1. ServerTypeOK' /\ TransportTypeOK' /\ OpTypeOK' /\ SessionTypeOK' /\ reg' \in Runtime /\ RecoveryTypeOK'
    BY <1>1, <1>4, <2>3, TypedParts, RequestTypes DEF TypeInv, TypeOK, ServerTypeOK, OpTypeOK, SessionTypeOK,
      RecoveryTypeOK, Requests, session, recovering
  <2>2. req'.kind = "none" /\ ~req'.orphan /\ NoReplies(wire)' BY <1>1 DEF NoReq, NoReplies
  <2>4. MessagesInFlight' /\ RequestAwaited' /\ AnswerAwaited' /\ AnswerCame' /\ NewsOfTurns'
    BY <1>1, <1>4, <2>2 DEF TypeInv, MessagesInFlight, RequestAwaited, AnswerAwaited, AnswerCame, NewsOfTurns,
      NoReplies, session
  <2> QED BY <1>2, <2>1, <2>4 DEF TypeInv, TypeOK
<1> QED BY <1>3, <1>4 DEF TransportClosed

LEMMA ReadTimeoutKeeps == ASSUME TypeInv, ReadTimeout PROVE TypeInv'
<1>1. /\ op' = [op EXCEPT !.reply = Refused] /\ req' = NoReq /\ wire' = Late(wire)
      /\ op.phase \in {"resume", "read"}
      /\ UNCHANGED <<turns, alive, subscribed, link, strays>>
      /\ UNCHANGED <<cache, loaded, uTurn, uSteer, submitted, waiting, reg, recovering>>
  BY DEF ReadTimeout, Awaiting
<1>2. HistoryTypeOK' BY LossHistory DEF ReadTimeout
<1>3. op' \in Operations /\ op'.kind = op.kind /\ op'.msg = op.msg /\ op'.phase = op.phase /\ op'.reply = Refused
  BY <1>1, TypedParts, ReplyTypes DEF Operations
<1>4. req'.kind = "none" /\ ~req'.orphan /\ req' \in Requests /\ ~Refused.ok
  BY <1>1, RequestTypes DEF NoReq, Refused, Reply, Line
<1>5. wire' \in Seq(Lines) /\ NoReplies(wire)' /\ NewsOfTurns' BY <1>1, LateMeans
<1>6. ServerTypeOK' /\ TransportTypeOK' /\ OpTypeOK' /\ SessionTypeOK' /\ reg' \in Runtime /\ RecoveryTypeOK'
  BY <1>1, <1>3, <1>4, <1>5, TypedParts DEF TypeInv, TypeOK, ServerTypeOK, TransportTypeOK, OpTypeOK,
    SessionTypeOK, RecoveryTypeOK, Requests, Operations, recovering
<1>7. MessagesInFlight' /\ RequestAwaited' /\ AnswerAwaited' /\ AnswerCame'
  BY <1>1, <1>3, <1>4, <1>5 DEF TypeInv, MessagesInFlight, RequestAwaited, AnswerAwaited, AnswerCame,
    TurnAnswer, NoReplies
<1> QED BY <1>2, <1>5, <1>6, <1>7 DEF TypeInv, TypeOK

\* An orphan is a start or a steer, with its message.
LEMMA ReconnectKeeps == ASSUME TypeInv, Reconnect PROVE TypeInv'
<1>1. /\ link' = "up" /\ alive' = TRUE /\ recovery' = "due" /\ req' = NoReq
      /\ UNCHANGED <<op, wire, waiting, turns, subscribed, session, reg, queued, history>>
  BY DEF Reconnect, session
<1>2. req' \in Requests /\ req'.kind = "none" /\ ~req'.orphan BY <1>1, RequestTypes DEF NoReq
<1>3. TransportTypeOK'
  <2>1. req \in Requests /\ (req.orphan => req.kind \in {"start", "steer"} /\ req.msg \in Msgs)
    BY TypedParts DEF TypeInv, MessagesInFlight
  <2>2. strays' \subseteq strays \cup {r \in {req} : r.orphan} BY DEF Reconnect
  <2>3. req.orphan => req \in [kind : {"start", "steer"}, msg : Msgs, turn : MaybeNumber, orphan : {TRUE}]
    BY <2>1 DEF Requests
  <2> QED BY <1>1, <2>2, <2>3 DEF TypeInv, TypeOK, TransportTypeOK
<1>4. ServerTypeOK' /\ SessionTypeOK' /\ reg' \in Runtime /\ RecoveryTypeOK' /\ HistoryTypeOK'
  BY <1>1, <1>2 DEF TypeInv, TypeOK, ServerTypeOK, SessionTypeOK, RecoveryTypeOK, HistoryTypeOK, Requests,
    session, history
<1>5. MessagesInFlight' /\ RequestAwaited' /\ OpTypeOK'
  BY <1>1, <1>2 DEF TypeInv, MessagesInFlight, RequestAwaited, TypeOK, OpTypeOK
<1>6. AnswerAwaited' /\ AnswerCame' /\ NewsOfTurns'
  BY <1>1 DEF TypeInv, AnswerAwaited, AnswerCame, NewsOfTurns, TurnAnswer
<1> QED BY <1>3, <1>4, <1>5, <1>6 DEF TypeInv, TypeOK

LEMMA ListDisconnectedKeeps == ASSUME TypeInv, ListDisconnected PROVE TypeInv'
<1>1. UNCHANGED <<server, transport, session, reg, history>> /\ UNCHANGED <<op, req, wire, waiting>>
  BY DEF ListDisconnected, server, transport, session
<1>2. RecoveryTypeOK' BY TypedParts DEF ListDisconnected, RecoveryTypeOK
<1>3. ServerTypeOK' /\ TransportTypeOK' /\ SessionTypeOK' /\ reg' \in Runtime /\ HistoryTypeOK'
  BY <1>1 DEF TypeInv, TypeOK, ServerTypeOK, TransportTypeOK, SessionTypeOK, HistoryTypeOK, server, transport,
    session, history
<1> QED BY <1>1, <1>2, <1>3, TalkKeeps DEF TypeInv, TypeOK

----
(* The App Server. *)

GoodWire(w) ==
  /\ w \in Seq(Lines)
  /\ \A i \in DOMAIN w : w[i].kind \in {"started", "completed"} => w[i].turn \in Numbers
OneAnswer(o, w) ==
  \A i \in DOMAIN w : w[i].kind = "reply" =>
      /\ TurnAnswer(o, w[i])
      /\ \A j \in DOMAIN w : w[j].kind = "reply" => i = j

LEMMA Concatenation ==
  ASSUME NEW v, NEW w, NEW o, GoodWire(v), GoodWire(w)
  PROVE  /\ GoodWire(v \o w)
         /\ NoReplies(v) /\ NoReplies(w) => NoReplies(v \o w)
         /\ OneAnswer(o, v) /\ NoReplies(w) => OneAnswer(o, v \o w)
         /\ NoReplies(v) /\ OneAnswer(o, w) => OneAnswer(o, v \o w)
<1>1. /\ v \in Seq(Lines) /\ w \in Seq(Lines) /\ v \o w \in Seq(Lines)
      /\ DOMAIN v = 1 .. Len(v) /\ DOMAIN w = 1 .. Len(w) /\ DOMAIN (v \o w) = 1 .. Len(v \o w)
      /\ Len(v) \in Nat /\ Len(w) \in Nat /\ Len(v \o w) = Len(v) + Len(w)
  BY DEF GoodWire
<1>2. ASSUME NEW i \in DOMAIN (v \o w)
      PROVE  /\ i <= Len(v) => i \in DOMAIN v /\ (v \o w)[i] = v[i]
             /\ i > Len(v) => i - Len(v) \in DOMAIN w /\ (v \o w)[i] = w[i - Len(v)]
             /\ i \in Nat
  BY <1>1
<1> DEFINE u == v \o w
<1>3. DOMAIN u \subseteq Nat /\ Len(v) \in Nat BY <1>1
<1>4. \A i \in DOMAIN u : /\ i <= Len(v) => i \in DOMAIN v /\ u[i] = v[i]
                          /\ i > Len(v) => i - Len(v) \in DOMAIN w /\ u[i] = w[i - Len(v)]
  BY <1>2
<1>5. u \in Seq(Lines) BY <1>1
<1> HIDE DEF u
<1>6. GoodWire(u) BY <1>3, <1>4, <1>5 DEF GoodWire
<1>7. NoReplies(v) /\ NoReplies(w) => NoReplies(u) BY <1>3, <1>4 DEF NoReplies
<1>8. ASSUME OneAnswer(o, v), NoReplies(w) PROVE OneAnswer(o, u)
  <2>1. \A i \in DOMAIN u : u[i].kind = "reply" => i \in DOMAIN v /\ u[i] = v[i]
    BY <1>3, <1>4, <1>8 DEF NoReplies
  <2> QED BY <2>1, <1>8 DEF OneAnswer
<1>9. ASSUME NoReplies(v), OneAnswer(o, w) PROVE OneAnswer(o, u)
  <2>1. \A i \in DOMAIN u : u[i].kind = "reply" =>
          i \in Nat /\ i - Len(v) \in DOMAIN w /\ u[i] = w[i - Len(v)]
    BY <1>3, <1>4, <1>9 DEF NoReplies
  <2>2. ASSUME NEW i \in DOMAIN u, u[i].kind = "reply", NEW j \in DOMAIN u, u[j].kind = "reply"
        PROVE  TurnAnswer(o, u[i]) /\ i = j
    <3>1. TurnAnswer(o, w[i - Len(v)]) /\ i - Len(v) = j - Len(v) BY <1>9, <2>1, <2>2 DEF OneAnswer
    <3> QED BY <1>3, <2>1, <2>2, <3>1
  <2> QED BY <2>2 DEF OneAnswer
<1> QED BY <1>6, <1>7, <1>8, <1>9 DEF u

LEMMA SingleLine ==
  ASSUME NEW o, NEW l \in Lines, l.kind \in {"started", "completed"} => l.turn \in Numbers
  PROVE  /\ GoodWire(<<l>>) /\ GoodWire(<< >>) /\ NoReplies(<< >>) /\ OneAnswer(o, << >>)
         /\ l.kind # "reply" => NoReplies(<<l>>)
         /\ TurnAnswer(o, l) => OneAnswer(o, <<l>>)
<1>1. <<l>> \in Seq(Lines) /\ DOMAIN <<l>> = {1} /\ <<l>>[1] = l OBVIOUS
<1>2. << >> \in Seq(Lines) /\ DOMAIN << >> = {} OBVIOUS
<1> QED BY <1>1, <1>2 DEF GoodWire, NoReplies, OneAnswer

LEMMA TwoLines ==
  ASSUME NEW k \in Lines, NEW l \in Lines, k.kind # "reply", l.kind # "reply",
         k.kind \in {"started", "completed"} => k.turn \in Numbers,
         l.kind \in {"started", "completed"} => l.turn \in Numbers
  PROVE  GoodWire(<<k, l>>) /\ NoReplies(<<k, l>>) /\ Len(<<k, l>>) = 2
<1>1. <<k, l>> \in Seq(Lines) /\ DOMAIN <<k, l>> = {1, 2} /\ <<k, l>>[1] = k /\ <<k, l>>[2] = l OBVIOUS
<1> QED BY <1>1 DEF GoodWire, NoReplies

LEMMA CutNews ==
  ASSUME NEW s, GoodWire(s), NoReplies(s), NEW i \in 0 .. Len(s)
  PROVE  /\ GoodWire(SubSeq(s, 1, i)) /\ NoReplies(SubSeq(s, 1, i))
         /\ GoodWire(SubSeq(s, i + 1, Len(s))) /\ NoReplies(SubSeq(s, i + 1, Len(s)))
<1>1. s \in Seq(Lines) /\ Len(s) \in Nat /\ DOMAIN s = 1 .. Len(s) BY DEF GoodWire
<1>2. /\ SubSeq(s, 1, i) \in Seq(Lines) /\ SubSeq(s, i + 1, Len(s)) \in Seq(Lines)
      /\ \A k \in DOMAIN SubSeq(s, 1, i) : k \in DOMAIN s /\ SubSeq(s, 1, i)[k] = s[k]
      /\ \A k \in DOMAIN SubSeq(s, i + 1, Len(s)) :
            k + i \in DOMAIN s /\ SubSeq(s, i + 1, Len(s))[k] = s[k + i]
  BY <1>1
<1> QED BY <1>2 DEF GoodWire, NoReplies

\* A response goes only to a holder of the lock that awaits it.
LEMMA ServedKeeps ==
  ASSUME TypeInv, UNCHANGED <<op, waiting>>, GoodWire(wire'), OneAnswer(op, wire'),
         NoReplies(wire) => NoReplies(wire') \/ (req.kind # "none" /\ ~req.orphan),
         \/ req' = NoReq
         \/ req' = req /\ (NoReplies(wire) => NoReplies(wire'))
  PROVE  /\ MessagesInFlight' /\ RequestAwaited' /\ AnswerAwaited' /\ AnswerCame' /\ NewsOfTurns'
         /\ wire' \in Seq(Lines) /\ OpTypeOK' /\ req' \in Requests
<1>1. NoReq.kind = "none" /\ ~NoReq.orphan BY DEF NoReq
<1>2. MessagesInFlight' /\ OpTypeOK' /\ req' \in Requests
  BY <1>1, TypedParts, RequestTypes DEF TypeInv, MessagesInFlight, TypeOK, OpTypeOK
<1>3. RequestAwaited' BY <1>1 DEF TypeInv, RequestAwaited, Asked, NoReplies
<1>4. AnswerAwaited'
  <2>1. ~NoReplies(wire) => op.phase \in Awaits /\ op.reply = NoReply BY DEF TypeInv, AnswerAwaited, NoReplies
  <2>2. req.kind # "none" /\ ~req.orphan => op.phase \in Awaits /\ op.reply = NoReply
    BY DEF TypeInv, RequestAwaited
  <2>3. ~NoReplies(wire') => op.phase \in Awaits /\ op.reply = NoReply BY <2>1, <2>2
  <2> QED BY <2>3 DEF AnswerAwaited, OneAnswer, NoReplies, TurnAnswer
<1>5. AnswerCame' /\ NewsOfTurns' /\ wire' \in Seq(Lines)
  BY DEF TypeInv, AnswerCame, TurnAnswer, NewsOfTurns, GoodWire
<1> QED BY <1>2, <1>3, <1>4, <1>5

\* What the App Server leaves alone.
LEMMA ServerKeeps ==
  ASSUME TypeInv, MessagesInFlight', RequestAwaited', AnswerAwaited', AnswerCame', NewsOfTurns',
         wire' \in Seq(Lines), OpTypeOK', req' \in Requests,
         turns' \in Seq(Turn), Len(turns') <= MaxTurns, alive' \in BOOLEAN, subscribed' \in BOOLEAN,
         UNCHANGED <<link, session, reg, recovering>>, strays' \subseteq strays, HistoryTypeOK'
  PROVE  TypeInv'
BY DEF TypeInv, TypeOK, ServerTypeOK, TransportTypeOK, SessionTypeOK, RecoveryTypeOK, Requests, session, recovering

LEMMA SameHistory == ASSUME TypeInv, UNCHANGED history PROVE HistoryTypeOK'
BY DEF TypeInv, TypeOK, HistoryTypeOK, history

LEMMA WireNow ==
  ASSUME TypeInv
  PROVE  GoodWire(wire) /\ OneAnswer(op, wire)
BY DEF TypeInv, TypeOK, TransportTypeOK, NewsOfTurns, AnswerAwaited, GoodWire, OneAnswer

\* A response among the notifications of a new Turn.
LEMMA Spliced ==
  ASSUME NEW o, NEW x, NEW v, NEW a, NEW w,
         GoodWire(x), GoodWire(v), NoReplies(v), GoodWire(a), GoodWire(w), NoReplies(w)
  PROVE  /\ x \o v \o a \o w = x \o (v \o a \o w)
         /\ GoodWire(v \o a \o w)
         /\ NoReplies(a) => NoReplies(v \o a \o w)
         /\ OneAnswer(o, a) => OneAnswer(o, v \o a \o w)
<1>1. /\ GoodWire(v \o a)
      /\ NoReplies(a) => NoReplies(v \o a)
      /\ OneAnswer(o, a) => OneAnswer(o, v \o a)
  BY Concatenation
<1>2. /\ GoodWire(v \o a \o w)
      /\ NoReplies(a) => NoReplies(v \o a \o w)
      /\ OneAnswer(o, a) => OneAnswer(o, v \o a \o w)
  BY <1>1, Concatenation
<1>3. x \in Seq(Lines) /\ v \in Seq(Lines) /\ a \in Seq(Lines) /\ w \in Seq(Lines) /\ v \o a \in Seq(Lines)
  BY <1>1 DEF GoodWire
<1>4. (x \o v) \o a = x \o (v \o a) BY <1>3, ConcatAssociative
<1> DEFINE e == v \o a
<1>5. (x \o e) \o w = x \o (e \o w)
  <2>1. e \in Seq(Lines) BY <1>3
  <2> HIDE DEF e
  <2> QED BY <1>3, <2>1, ConcatAssociative
<1> QED BY <1>2, <1>4, <1>5

LEMMA ServeStartKeeps == ASSUME TypeInv, ServeStart PROVE TypeInv'
<1> DEFINE t == Len(turns) + 1
           fresh == [status |-> "inProgress", msgs |-> {req.msg}, late |-> FALSE]
           news == Notify(<<Line("active"), TurnLine("started", t, fresh)>>)
           line == [Reply(TRUE, t, NoTurns) EXCEPT !.rec = [fresh EXCEPT !.msgs = {}]]
           answer == Respond(line)
<1>1. /\ req.kind = "start" /\ req' = NoReq /\ UNCHANGED <<alive, subscribed, link, strays, session, reg, recovering, history>>
      /\ UNCHANGED <<op, waiting>>
  BY DEF ServeStart, session
<1>2. req.msg \in Msgs BY <1>1 DEF TypeInv, MessagesInFlight
<1>3. /\ turns \in Seq(Turn) /\ Len(turns) <= MaxTurns /\ Len(turns) \in Nat
      /\ alive' \in BOOLEAN /\ subscribed' \in BOOLEAN
  BY <1>1 DEF TypeInv, TypeOK, ServerTypeOK
<1>4. ASSUME NEW u, GoodWire(u), wire' = wire \o u, NoReplies(u) \/ (OneAnswer(op, u) /\ ~req.orphan),
             turns' \in Seq(Turn), Len(turns') <= MaxTurns
      PROVE  TypeInv'
  <2>1. ~req.orphan => NoReplies(wire) BY <1>1 DEF TypeInv, RequestAwaited
  <2>2. GoodWire(wire') /\ OneAnswer(op, wire') /\ (NoReplies(wire) => NoReplies(wire') \/ ~req.orphan)
    BY <1>4, <2>1, WireNow, Concatenation
  <2>3. /\ MessagesInFlight' /\ RequestAwaited' /\ AnswerAwaited' /\ AnswerCame' /\ NewsOfTurns'
        /\ wire' \in Seq(Lines) /\ OpTypeOK' /\ req' \in Requests
    BY <1>1, <2>2, ServedKeeps
  <2> QED BY <1>1, <1>3, <1>4, <2>3, SameHistory, ServerKeeps
<1>5. CASE wire' = wire \o Respond(Refused) /\ UNCHANGED turns
  <2>1. Refused \in Lines /\ Refused.kind = "reply" /\ ~Refused.ok BY ReplyTypes DEF Refused, Reply, Line
  <2>2. /\ GoodWire(<<Refused>>) /\ GoodWire(<< >>) /\ NoReplies(<< >>) /\ OneAnswer(op, <<Refused>>)
    BY <2>1, SingleLine DEF TurnAnswer
  <2>3. /\ GoodWire(Respond(Refused))
        /\ NoReplies(Respond(Refused)) \/ (OneAnswer(op, Respond(Refused)) /\ ~req.orphan)
    BY <2>2 DEF Respond
  <2> QED BY <1>3, <1>4, <1>5, <2>3
<1>6. CASE /\ ~LiveTurn /\ t <= MaxTurns
           /\ turns' = Append(turns, fresh)
           /\ \E i \in 0 .. Len(news) :
                wire' = wire \o SubSeq(news, 1, i) \o answer \o SubSeq(news, i + 1, Len(news))
  <2>1. t \in Numbers /\ t \in MaybeNumber BY <1>3, <1>6, Constants, ConstantsAssumption DEF Numbers
  <2>2. fresh \in Turn /\ [fresh EXCEPT !.msgs = {}] \in Turn BY <1>2 DEF Turn
  <2>3. turns' \in Seq(Turn) /\ Len(turns') <= MaxTurns
    <3> HIDE DEF fresh
    <3> QED BY <1>3, <1>6, <2>2
  <2> HIDE DEF t, fresh
  <2>4. Line("active") \in Lines /\ Line("active").kind = "active" BY LineTypes DEF Line
  <2>5. /\ TurnLine("started", t, fresh) \in Lines
        /\ TurnLine("started", t, fresh).kind = "started" /\ TurnLine("started", t, fresh).turn = t
    BY <2>1, <2>2, LineTypes DEF Line, TurnLine
  <2>6. GoodWire(news) /\ NoReplies(news) BY <2>1, <2>4, <2>5, TwoLines, SingleLine DEF Notify
  <2>7. line \in Lines /\ line.kind = "reply" /\ line.turn = t
    <3>1. Reply(TRUE, t, NoTurns) \in Lines BY <2>1, NoTurnsType, ReplyTypes
    <3>2. Reply(TRUE, t, NoTurns).kind = "reply" /\ Reply(TRUE, t, NoTurns).turn = t BY DEF Reply, Line
    <3> QED BY <2>2, <3>1, <3>2 DEF Lines
  <2> HIDE DEF line, news
  <2>8. GoodWire(<<line>>) /\ OneAnswer(op, <<line>>) /\ GoodWire(<< >>) /\ NoReplies(<< >>)
    BY <2>1, <2>7, SingleLine DEF TurnAnswer
  <2>9. GoodWire(answer) /\ (NoReplies(answer) \/ (OneAnswer(op, answer) /\ ~req.orphan)) BY <2>8 DEF Respond
  <2> HIDE DEF answer
  <2>10. PICK i \in 0 .. Len(news) :
            wire' = wire \o SubSeq(news, 1, i) \o answer \o SubSeq(news, i + 1, Len(news))
    BY <1>6
  <2> DEFINE v == SubSeq(news, 1, i)
             w == SubSeq(news, i + 1, Len(news))
  <2>11. GoodWire(v) /\ NoReplies(v) /\ GoodWire(w) /\ NoReplies(w) BY <2>6, <2>10, CutNews
  <2> HIDE DEF v, w
  <2>12. wire' = wire \o v \o answer \o w BY <2>10 DEF v, w
  <2>13. /\ wire' = wire \o (v \o answer \o w)
         /\ GoodWire(v \o answer \o w)
         /\ NoReplies(answer) => NoReplies(v \o answer \o w)
         /\ OneAnswer(op, answer) => OneAnswer(op, v \o answer \o w)
    BY <2>9, <2>11, <2>12, WireNow, Spliced
  <2> QED BY <1>4, <2>3, <2>9, <2>13
<1> QED BY <1>5, <1>6 DEF ServeStart

LEMMA ServeSteerKeeps == ASSUME TypeInv, ServeSteer PROVE TypeInv'
<1>1. /\ req.kind = "steer" /\ req' = NoReq /\ UNCHANGED <<alive, subscribed, link, strays, session, reg, recovering, history>>
      /\ UNCHANGED <<op, waiting>>
  BY DEF ServeSteer, session
<1>2. req.msg \in Msgs /\ req.turn \in MaybeNumber BY <1>1, TypedParts DEF TypeInv, MessagesInFlight, Requests
<1>3. /\ turns \in Seq(Turn) /\ Len(turns) <= MaxTurns /\ Len(turns) \in Nat
      /\ alive' \in BOOLEAN /\ subscribed' \in BOOLEAN
  BY <1>1 DEF TypeInv, TypeOK, ServerTypeOK
<1>4. ASSUME NEW u, GoodWire(u), wire' = wire \o u, NoReplies(u) \/ (OneAnswer(op, u) /\ ~req.orphan),
             turns' \in Seq(Turn), Len(turns') <= MaxTurns
      PROVE  TypeInv'
  <2>1. ~req.orphan => NoReplies(wire) BY <1>1 DEF TypeInv, RequestAwaited
  <2>2. GoodWire(wire') /\ OneAnswer(op, wire') /\ (NoReplies(wire) => NoReplies(wire') \/ ~req.orphan)
    BY <1>4, <2>1, WireNow, Concatenation
  <2>3. /\ MessagesInFlight' /\ RequestAwaited' /\ AnswerAwaited' /\ AnswerCame' /\ NewsOfTurns'
        /\ wire' \in Seq(Lines) /\ OpTypeOK' /\ req' \in Requests
    BY <1>1, <2>2, ServedKeeps
  <2> QED BY <1>1, <1>3, <1>4, <2>3, SameHistory, ServerKeeps
\* A steer is no turn/start: any answer is well-typed.
<1>5. ASSUME NEW l \in Lines, l.kind = "reply"
      PROVE  GoodWire(Respond(l)) /\ (NoReplies(Respond(l)) \/ (OneAnswer(op, Respond(l)) /\ ~req.orphan))
  <2>1. ~req.orphan => op.kind = "steer" \/ op.phase # "mutate" BY <1>1 DEF TypeInv, RequestAwaited, Asked
  <2>2. ~req.orphan => TurnAnswer(op, l) BY <2>1 DEF TurnAnswer
  <2>3. GoodWire(<<l>>) /\ GoodWire(<< >>) /\ NoReplies(<< >>) /\ (~req.orphan => OneAnswer(op, <<l>>))
    BY <1>5, <2>2, SingleLine
  <2> QED BY <2>3 DEF Respond
<1>6. CASE wire' = wire \o Respond(Refused) /\ UNCHANGED turns
  <2>1. Refused \in Lines /\ Refused.kind = "reply" BY ReplyTypes DEF Refused, Reply, Line
  <2> QED BY <1>3, <1>4, <1>5, <1>6, <2>1
<1> DEFINE l == TurnLine("item", req.turn, [turns[req.turn] EXCEPT !.msgs = {req.msg}])
           item == Notify(<<l>>)
           line == Reply(TRUE, req.turn, NoTurns)
           answer == Respond(line)
<1>7. CASE /\ LiveAt(turns, req.turn)
           /\ turns' = [turns EXCEPT ![req.turn].msgs = @ \cup {req.msg}]
           /\ wire' \in {wire \o item \o answer, wire \o answer \o item}
  <2>1. turns' \in Seq(Turn) /\ Len(turns') <= MaxTurns
    <3> DEFINE k == req.turn
               rec == [turns[k] EXCEPT !.msgs = @ \cup {req.msg}]
    <3>1. k \in DOMAIN turns BY <1>7 DEF LiveAt
    <3>2. turns[k] \in Turn BY <1>3, <3>1
    <3>3. rec \in Turn BY <1>2, <3>2 DEF Turn
    <3>4. turns' = [turns EXCEPT ![k] = rec] BY <1>7, <3>1
    <3> HIDE DEF k, rec
    <3> QED BY <1>3, <3>1, <3>3, <3>4
  <2>2. l \in Lines /\ l.kind = "item"
    <3>1. turns[req.turn] \in Turn BY <1>3, <1>7 DEF LiveAt
    <3>2. [turns[req.turn] EXCEPT !.msgs = {req.msg}] \in Turn BY <1>2, <3>1 DEF Turn
    <3> QED BY <1>2, <3>2, LineTypes DEF TurnLine, Line
  <2> HIDE DEF l
  <2>3. GoodWire(item) /\ NoReplies(item) BY <2>2, SingleLine DEF Notify
  <2>4. line \in Lines /\ line.kind = "reply" BY <1>2, NoTurnsType, ReplyTypes DEF Reply, Line
  <2> HIDE DEF line
  <2>5. GoodWire(answer) /\ (NoReplies(answer) \/ (OneAnswer(op, answer) /\ ~req.orphan)) BY <1>5, <2>4
  <2> HIDE DEF item, answer
  <2>6. PICK u \in {item \o answer, answer \o item} : wire' = wire \o u
    <3>1. wire \in Seq(Lines) /\ item \in Seq(Lines) /\ answer \in Seq(Lines)
      BY <2>3, <2>5, WireNow DEF GoodWire
    <3>2. (wire \o item) \o answer = wire \o (item \o answer) BY <3>1, ConcatAssociative
    <3>3. (wire \o answer) \o item = wire \o (answer \o item) BY <3>1, ConcatAssociative
    <3> QED BY <1>7, <3>2, <3>3
  <2>7. GoodWire(u) /\ (NoReplies(u) \/ (OneAnswer(op, u) /\ ~req.orphan)) BY <2>3, <2>5, Concatenation
  <2> QED BY <1>4, <2>1, <2>6, <2>7
<1> QED BY <1>6, <1>7 DEF ServeSteer

\* What the App Server still does for a replaced connection.
LEMMA StrayKeeps ==
  ASSUME TypeInv, NEW r \in strays, strays' = strays \ {r}, lateMsgs' = lateMsgs \cup {r.msg},
         NEW u, GoodWire(u), NoReplies(u), wire' = wire \o u, turns' \in Seq(Turn), Len(turns') <= MaxTurns,
         UNCHANGED <<alive, subscribed, req, link, session, reg, recovering, verdict, overtaken, losses, timeouts>>
  PROVE  TypeInv'
<1>1. UNCHANGED <<op, waiting, req>> BY DEF session
<1>2. GoodWire(wire') /\ OneAnswer(op, wire') /\ (NoReplies(wire) => NoReplies(wire')) BY WireNow, Concatenation
<1>3. /\ MessagesInFlight' /\ RequestAwaited' /\ AnswerAwaited' /\ AnswerCame' /\ NewsOfTurns'
      /\ wire' \in Seq(Lines) /\ OpTypeOK' /\ req' \in Requests
  BY <1>1, <1>2, ServedKeeps
<1>4. r.msg \in Msgs BY DEF TypeInv, TypeOK, TransportTypeOK
<1>5. HistoryTypeOK' BY <1>4, TypedParts DEF HistoryTypeOK
<1>6. alive' \in BOOLEAN /\ subscribed' \in BOOLEAN BY DEF TypeInv, TypeOK, ServerTypeOK
<1> QED BY <1>3, <1>5, <1>6, ServerKeeps

LEMMA ServeStrayStartKeeps == ASSUME TypeInv, ServeStrayStart PROVE TypeInv'
<1> DEFINE t == Len(turns) + 1
           fresh(r) == [status |-> "inProgress", msgs |-> {r.msg}, late |-> TRUE]
           news(r) == Notify(<<Line("active"), TurnLine("started", t, fresh(r))>>)
<1>1. PICK r \in strays :
        /\ r.kind = "start" /\ strays' = strays \ {r} /\ lateMsgs' = lateMsgs \cup {r.msg}
        /\ turns' = Append(turns, fresh(r)) /\ wire' = wire \o news(r)
  BY DEF ServeStrayStart
<1>2. r.msg \in Msgs BY DEF TypeInv, TypeOK, TransportTypeOK
<1>3. turns \in Seq(Turn) /\ Len(turns) \in Nat BY DEF TypeInv, TypeOK, ServerTypeOK
<1>4. t \in Numbers /\ t \in MaybeNumber /\ t <= MaxTurns
  BY <1>3, Constants, ConstantsAssumption DEF ServeStrayStart, Numbers
<1>5. fresh(r) \in Turn BY <1>2 DEF Turn
<1> HIDE DEF fresh
<1>6. turns' \in Seq(Turn) /\ Len(turns') <= MaxTurns BY <1>1, <1>3, <1>4, <1>5
<1> HIDE DEF t
<1>7. Line("active") \in Lines /\ Line("active").kind = "active" BY LineTypes DEF Line
<1>8. /\ TurnLine("started", t, fresh(r)) \in Lines
      /\ TurnLine("started", t, fresh(r)).kind = "started" /\ TurnLine("started", t, fresh(r)).turn = t
  BY <1>4, <1>5, LineTypes DEF Line, TurnLine
<1>9. GoodWire(news(r)) /\ NoReplies(news(r)) BY <1>4, <1>7, <1>8, TwoLines, SingleLine DEF Notify
<1>10. UNCHANGED <<alive, subscribed, req, link, session, reg, recovering, verdict, overtaken, losses, timeouts>>
  BY DEF ServeStrayStart
<1> HIDE DEF news
<1> QED BY <1>1, <1>6, <1>9, <1>10, StrayKeeps

\* A steer that is served adds its message to the Turn it names.
LEMMA SteeredTurn ==
  ASSUME TypeInv, NEW k \in MaybeNumber, LiveAt(turns, k), NEW m \in Msgs
  PROVE  /\ [turns EXCEPT ![k].msgs = @ \cup {m}] \in Seq(Turn)
         /\ Len([turns EXCEPT ![k].msgs = @ \cup {m}]) = Len(turns)
         /\ TurnLine("item", k, [turns[k] EXCEPT !.msgs = {m}]) \in Lines
         /\ TurnLine("item", k, [turns[k] EXCEPT !.msgs = {m}]).kind = "item"
<1> DEFINE rec == [turns[k] EXCEPT !.msgs = @ \cup {m}]
           told == [turns[k] EXCEPT !.msgs = {m}]
<1>1. turns \in Seq(Turn) BY DEF TypeInv, TypeOK, ServerTypeOK
<1>2. k \in DOMAIN turns /\ turns[k] \in Turn BY <1>1 DEF LiveAt
<1>3. rec \in Turn /\ told \in Turn BY <1>2 DEF Turn
<1>4. [turns EXCEPT ![k].msgs = @ \cup {m}] = [turns EXCEPT ![k] = rec] BY <1>2
<1> HIDE DEF rec, told
<1>5. [turns EXCEPT ![k] = rec] \in Seq(Turn) /\ Len([turns EXCEPT ![k] = rec]) = Len(turns) BY <1>1, <1>2, <1>3
<1>6. TurnLine("item", k, told) \in Lines /\ TurnLine("item", k, told).kind = "item"
  BY <1>3, LineTypes DEF TurnLine, Line
<1> QED BY <1>4, <1>5, <1>6 DEF told

LEMMA ServeStraySteerKeeps == ASSUME TypeInv, ServeStraySteer PROVE TypeInv'
<1> DEFINE l(r) == TurnLine("item", r.turn, [turns[r.turn] EXCEPT !.msgs = {r.msg}])
           item(r) == Notify(<<l(r)>>)
<1>1. PICK r \in strays :
        /\ LiveAt(turns, r.turn) /\ strays' = strays \ {r} /\ lateMsgs' = lateMsgs \cup {r.msg}
        /\ turns' = [turns EXCEPT ![r.turn].msgs = @ \cup {r.msg}] /\ wire' = wire \o item(r)
  BY DEF ServeStraySteer
<1>2. r.msg \in Msgs /\ r.turn \in MaybeNumber BY DEF TypeInv, TypeOK, TransportTypeOK
<1>3. turns' \in Seq(Turn) /\ Len(turns') <= MaxTurns /\ l(r) \in Lines /\ l(r).kind = "item"
  BY <1>1, <1>2, SteeredTurn DEF TypeInv, TypeOK, ServerTypeOK
<1> HIDE DEF l
<1>4. GoodWire(item(r)) /\ NoReplies(item(r)) BY <1>3, SingleLine DEF Notify
<1>5. UNCHANGED <<alive, subscribed, req, link, session, reg, recovering, verdict, overtaken, losses, timeouts>>
  BY DEF ServeStraySteer
<1> HIDE DEF item
<1> QED BY <1>1, <1>3, <1>4, <1>5, StrayKeeps

\* A thread/resume or thread/read that is served is still awaited.
LEMMA StillAwaited ==
  ASSUME TypeInv, req.kind \in {"resume", "read"}
  PROVE  /\ ~req.orphan /\ NoReplies(wire)
         /\ \A l : TurnAnswer(op, l)
<1>1. ~req.orphan BY DEF TypeInv, MessagesInFlight
<1>2. NoReplies(wire) /\ req.kind = Asked(op) BY <1>1 DEF TypeInv, RequestAwaited
<1>3. op.phase = "mutate" => op.kind \in {"start", "steer"} BY DEF TypeInv, MessagesInFlight
<1> QED BY <1>1, <1>2, <1>3 DEF TurnAnswer, Asked

LEMMA ServeResumeKeeps == ASSUME TypeInv, ServeResume PROVE TypeInv'
<1> DEFINE status == <<Line(IF LiveTurn THEN "active" ELSE "idle")>>
           view == IF Paginated THEN NoTurns ELSE turns
           answer == <<Reply(TRUE, 0, view)>>
<1>1. /\ req.kind = "resume" /\ req' = NoReq /\ subscribed' = TRUE
      /\ UNCHANGED <<turns, alive, link, strays, session, reg, recovering, history>> /\ UNCHANGED <<op, waiting>>
  BY DEF ServeResume, session
<1>2. /\ turns \in Seq(Turn) /\ Len(turns) <= MaxTurns /\ alive \in BOOLEAN BY DEF TypeInv, TypeOK, ServerTypeOK
<1>3. ~req.orphan /\ NoReplies(wire) /\ \A l : TurnAnswer(op, l) BY <1>1, StillAwaited
<1>4. GoodWire(status) /\ NoReplies(status)
  <2>1. \A kind \in {"active", "idle"} : Line(kind) \in Lines /\ Line(kind).kind = kind BY LineTypes DEF Line
  <2> QED BY <2>1, SingleLine
<1>5. GoodWire(answer) /\ OneAnswer(op, answer)
  <2>1. view \in View BY <1>2, TurnsAreView, NoTurnsType
  <2> HIDE DEF view
  <2>2. Reply(TRUE, 0, view) \in Lines /\ Reply(TRUE, 0, view).kind = "reply"
    BY <2>1, Constants, ReplyTypes DEF Reply, Line
  <2> QED BY <1>3, <2>2, SingleLine
<1>6. PICK u \in {answer, status \o answer, answer \o status} : wire' = wire \o u
  <2>1. wire \in Seq(Lines) /\ status \in Seq(Lines) /\ answer \in Seq(Lines)
    BY <1>4, <1>5, WireNow DEF GoodWire
  <2>2. \/ wire' = wire \o answer
        \/ wire' = (wire \o status) \o answer
        \/ wire' = (wire \o answer) \o status
    BY DEF ServeResume
  <2> HIDE DEF status, answer
  <2>3. (wire \o status) \o answer = wire \o (status \o answer) BY <2>1, ConcatAssociative
  <2>4. (wire \o answer) \o status = wire \o (answer \o status) BY <2>1, ConcatAssociative
  <2> QED BY <2>2, <2>3, <2>4
<1> HIDE DEF status, answer
<1>7. GoodWire(u) /\ OneAnswer(op, u) BY <1>4, <1>5, <1>6, Concatenation
<1>8. GoodWire(wire') /\ OneAnswer(op, wire') BY <1>3, <1>6, <1>7, WireNow, Concatenation
<1>9. /\ MessagesInFlight' /\ RequestAwaited' /\ AnswerAwaited' /\ AnswerCame' /\ NewsOfTurns'
      /\ wire' \in Seq(Lines) /\ OpTypeOK' /\ req' \in Requests
  BY <1>1, <1>3, <1>8, ServedKeeps
<1>10. subscribed' \in BOOLEAN /\ HistoryTypeOK' BY <1>1, SameHistory
<1> QED BY <1>1, <1>2, <1>9, <1>10, ServerKeeps

LEMMA ServeReadKeeps == ASSUME TypeInv, ServeRead PROVE TypeInv'
<1> DEFINE line == Reply(TRUE, 0, turns)
<1>1. /\ req.kind = "read" /\ req' = NoReq /\ wire' = Append(wire, line)
      /\ UNCHANGED <<turns, alive, subscribed, link, strays, session, reg, recovering, history>> /\ UNCHANGED <<op, waiting>>
  BY DEF ServeRead, session
<1>2. /\ turns \in Seq(Turn) /\ Len(turns) <= MaxTurns /\ alive \in BOOLEAN /\ subscribed \in BOOLEAN
  BY DEF TypeInv, TypeOK, ServerTypeOK
<1>3. ~req.orphan /\ NoReplies(wire) /\ \A l : TurnAnswer(op, l) BY <1>1, StillAwaited
<1>4. line \in Lines /\ line.kind = "reply" BY <1>2, TurnsAreView, Constants, ReplyTypes DEF Reply, Line
<1> HIDE DEF line
<1>5. GoodWire(<<line>>) /\ OneAnswer(op, <<line>>) BY <1>3, <1>4, SingleLine
<1>6. wire' = wire \o <<line>>
  <2>1. wire \in Seq(Lines) BY DEF TypeInv, TypeOK, TransportTypeOK
  <2> QED BY <1>1, <1>4, <2>1, AppendIsConcat
<1>7. GoodWire(wire') /\ OneAnswer(op, wire') BY <1>3, <1>5, <1>6, WireNow, Concatenation
<1>8. /\ MessagesInFlight' /\ RequestAwaited' /\ AnswerAwaited' /\ AnswerCame' /\ NewsOfTurns'
      /\ wire' \in Seq(Lines) /\ OpTypeOK' /\ req' \in Requests
  BY <1>1, <1>3, <1>7, ServedKeeps
<1>9. HistoryTypeOK' BY <1>1, SameHistory
<1> QED BY <1>1, <1>2, <1>8, <1>9, ServerKeeps

LEMMA EndTurnKeeps == ASSUME TypeInv, EndTurn PROVE TypeInv'
<1>1. PICK t \in DOMAIN turns :
        /\ turns' = [turns EXCEPT ![t].status = "ended"]
        /\ wire' \in {wire \o Notify(<<TurnLine("completed", t, turns'[t]), Line("idle")>>),
                      wire \o Notify(<<Line("idle"), TurnLine("completed", t, turns'[t])>>)}
  BY DEF EndTurn
<1>2. /\ UNCHANGED <<alive, subscribed, req, link, strays, session, reg, recovering, history>> /\ UNCHANGED <<op, waiting, req>>
  BY DEF EndTurn, session
<1>3. /\ turns \in Seq(Turn) /\ Len(turns) <= MaxTurns /\ Len(turns) \in Nat /\ alive \in BOOLEAN /\ subscribed \in BOOLEAN
  BY DEF TypeInv, TypeOK, ServerTypeOK
<1> DEFINE turn == [turns[t] EXCEPT !.status = "ended"]
<1>4. turn \in Turn
  <2>1. turns[t] \in Turn BY <1>1, <1>3
  <2> QED BY <2>1 DEF Turn
<1>5. turns' = [turns EXCEPT ![t] = turn] BY <1>1
<1> HIDE DEF turn
<1>6. turns' \in Seq(Turn) /\ Len(turns') = Len(turns) /\ turns'[t] = turn
  <2>1. t \in DOMAIN turns BY <1>1
  <2>2. turns' \in Seq(Turn) /\ Len(turns') = Len(turns) BY <1>3, <1>4, <1>5, <2>1
  <2>3. turns'[t] = turn BY <1>1, <1>5
  <2> QED BY <2>1, <2>2, <2>3
<1> DEFINE completed == TurnLine("completed", t, turns'[t])
<1>7. /\ completed \in Lines /\ completed.kind = "completed" /\ completed.turn \in Numbers
  <2>1. t \in Numbers BY <1>1, <1>3, ConstantsAssumption DEF Numbers
  <2> QED BY <1>4, <1>6, <2>1, Constants, LineTypes DEF TurnLine, Line
<1>8. Line("idle") \in Lines /\ Line("idle").kind = "idle" BY LineTypes DEF Line
<1>9. PICK u \in {Notify(<<completed, Line("idle")>>), Notify(<<Line("idle"), completed>>)} : wire' = wire \o u
  BY <1>1
<1> HIDE DEF completed
<1>10. GoodWire(u) /\ NoReplies(u)
  <2>1. /\ GoodWire(<<completed, Line("idle")>>) /\ NoReplies(<<completed, Line("idle")>>)
        /\ GoodWire(<<Line("idle"), completed>>) /\ NoReplies(<<Line("idle"), completed>>)
        /\ GoodWire(<< >>) /\ NoReplies(<< >>)
    BY <1>7, <1>8, TwoLines, SingleLine
  <2> QED BY <1>9, <2>1 DEF Notify
<1>11. GoodWire(wire') /\ OneAnswer(op, wire') /\ (NoReplies(wire) => NoReplies(wire'))
  BY <1>9, <1>10, WireNow, Concatenation
<1>12. /\ MessagesInFlight' /\ RequestAwaited' /\ AnswerAwaited' /\ AnswerCame' /\ NewsOfTurns'
      /\ wire' \in Seq(Lines) /\ OpTypeOK' /\ req' \in Requests
  BY <1>2, <1>11, ServedKeeps
<1>13. HistoryTypeOK' BY <1>2, SameHistory
<1> QED BY <1>2, <1>3, <1>6, <1>12, <1>13, ServerKeeps

LEMMA CrashKeeps == ASSUME TypeInv, Crash PROVE TypeInv'
<1>1. /\ alive' = FALSE /\ subscribed' = FALSE /\ req' = NoReq
      /\ turns' = [t \in DOMAIN turns |-> [turns[t] EXCEPT !.status = "ended"]]
      /\ losses' \in {losses, losses + 1}
      /\ strays' = {} /\ UNCHANGED <<link, session, reg, recovering, verdict, lateMsgs, overtaken, timeouts>> /\ UNCHANGED <<op, waiting>>
  BY DEF Crash, session
<1>2. /\ turns \in Seq(Turn) /\ Len(turns) <= MaxTurns /\ Len(turns) \in Nat
  BY DEF TypeInv, TypeOK, ServerTypeOK
<1>3. turns' \in Seq(Turn) /\ Len(turns') = Len(turns)
  <2>1. ASSUME NEW t \in 1 .. Len(turns) PROVE [turns[t] EXCEPT !.status = "ended"] \in Turn
    <3>1. turns[t] \in Turn BY <1>2
    <3> QED BY <3>1 DEF Turn
  <2>2. DOMAIN turns = 1 .. Len(turns) BY <1>2
  <2>3. turns' \in [1 .. Len(turns) -> Turn] BY <1>1, <2>1, <2>2
  <2> QED BY <1>2, <2>3
<1>4. PICK n \in 0 .. Len(wire) : wire' = SubSeq(wire, 1, n) BY DEF Crash
<1>5. /\ wire' \in Seq(Lines)
      /\ \A i \in DOMAIN wire' : i \in Nat /\ i + 0 \in DOMAIN wire /\ wire'[i] = wire[i + 0]
  BY <1>4 DEF TypeInv, TypeOK, TransportTypeOK
<1>6. AnswerAwaited' /\ AnswerCame' /\ NewsOfTurns'
  <2>1. 0 \in Nat OBVIOUS
  <2> QED BY <1>1, <1>5, <2>1, ThinnerWire
<1>7. req'.kind = "none" /\ ~req'.orphan /\ req' \in Requests BY <1>1, RequestTypes DEF NoReq
<1>8. MessagesInFlight' /\ RequestAwaited' /\ OpTypeOK'
  BY <1>1, <1>7 DEF TypeInv, MessagesInFlight, RequestAwaited, TypeOK, OpTypeOK
<1>9. HistoryTypeOK' BY <1>1, LossHistory
<1> QED BY <1>1, <1>2, <1>3, <1>5, <1>6, <1>7, <1>8, <1>9, ServerKeeps

----
LEMMA StutterKeeps == ASSUME TypeInv, UNCHANGED vars PROVE TypeInv'
<1>1. UNCHANGED <<server, transport, session, reg, recovering, history>> /\ UNCHANGED <<op, req, wire, waiting>>
  BY DEF vars, server, transport, session
<1>2. ServerTypeOK' /\ TransportTypeOK' /\ SessionTypeOK' /\ reg' \in Runtime /\ RecoveryTypeOK' /\ HistoryTypeOK'
  BY <1>1 DEF TypeInv, TypeOK, ServerTypeOK, TransportTypeOK, SessionTypeOK, RecoveryTypeOK, HistoryTypeOK,
    server, transport, session, recovering, history
<1> QED BY <1>1, <1>2, TalkKeeps DEF TypeInv, TypeOK

LEMMA NextKeeps == ASSUME TypeInv, Next PROVE TypeInv'
<1>1. CASE Submit BY <1>1, AcceptKeeps, AcceptResolveKeeps DEF Submit
<1>2. CASE Begin
  BY <1>2, BeginStartKeeps, BeginScheduledKeeps, BeginSteerKeeps, BeginReadKeeps, BeginResolveKeeps DEF Begin
<1>3. CASE Continue
  BY <1>3, BeginReconcileKeeps, ResumedKeeps, ReadDoneKeeps, DelayOverKeeps, ResolveReadKeeps,
    ResolveNotAppliedKeeps, SendKeeps, RespondedKeeps DEF Continue
<1>4. CASE Handle
  BY <1>4, HandleReplyKeeps, HandleLateKeeps, HandleStatusKeeps, HandleTurnStartedKeeps,
    HandleTurnCompletedKeeps, HandleItemKeeps DEF Handle
<1>5. CASE FinishTimer BY <1>5, FinishTimerKeeps
<1>6. CASE Lose BY <1>6, MutationTimeoutKeeps, SocketLostKeeps, ReadTimeoutKeeps, CrashKeeps DEF Lose
<1>7. CASE Recover BY <1>7, TransportClosedKeeps, ReconnectKeeps, ListDisconnectedKeeps DEF Recover
<1>8. CASE Serve BY <1>8, ServeStartKeeps, ServeSteerKeeps, ServeResumeKeeps, ServeReadKeeps DEF Serve
<1>9. CASE EndTurn BY <1>9, EndTurnKeeps
<1>10. CASE ServeStray BY <1>10, ServeStrayStartKeeps, ServeStraySteerKeeps DEF ServeStray
<1> QED BY <1>1, <1>2, <1>3, <1>4, <1>5, <1>6, <1>7, <1>8, <1>9, <1>10 DEF Next

\* An answer belongs to the request that the holder of the thread's lock awaits:
\* one request, or one answer on the way, or one that has come.
THEOREM AnswerBelongs == Spec => [](RequestAwaited /\ AnswerAwaited /\ AnswerCame)
<1>1. TypeInv /\ [Next]_vars => TypeInv' BY NextKeeps, StutterKeeps
<1>2. TypeInv => RequestAwaited /\ AnswerAwaited /\ AnswerCame BY DEF TypeInv
<1> QED BY <1>1, <1>2, InitTypeInv, PTL DEF Spec

\* Every reachable state of the session, its transport and the App Server is
\* well-typed: no snapshot, runtime or request is malformed.
THEOREM TypeCorrect == Spec => []TypeOK
<1>1. TypeInv /\ [Next]_vars => TypeInv' BY NextKeeps, StutterKeeps
<1>2. TypeInv => TypeOK BY DEF TypeInv
<1> QED BY <1>1, <1>2, InitTypeInv, PTL DEF Spec

----
(* Where a message is.  Most steps leave it there, or drop it. *)

SameMessages ==
  /\ DOMAIN turns \subseteq DOMAIN turns'
  /\ \A t \in DOMAIN turns' : \A m \in TimelyMsgs(t)' : t \in DOMAIN turns /\ m \in TimelyMsgs(t)

SameRequest == Sends(req') => req'.kind = req.kind /\ req'.msg = req.msg /\ req'.turn = req.turn

LessIsKnown ==
  /\ UNCHANGED submitted
  /\ \A w \in waiting' : w \in waiting \/ w.kind = "resolve"
  /\ \A m \in Msgs : verdict'[m] = "notApplied" => verdict[m] = "notApplied"
  /\ uTurn' \in {uTurn, NoUncertainTurn} /\ uSteer' \in {uSteer, NoUncertainSteer}

\* The operation ends, carries nothing, stays what it is, or goes on with the
\* message it holds.
GoesOn ==
  \/ op' = NoOp
  \/ op'.kind \in {"read", "reconcile"} /\ op'.phase \notin {"mutate", "settle"}
  \/ /\ op'.kind = op.kind /\ op'.phase = op.phase /\ op'.msg = op.msg
     /\ op'.turn = op.turn /\ op'.base = op.base
     /\ UNCHANGED uSteer
  \/ /\ op.kind \notin {"none", "resolve"} /\ op.phase \notin {"mutate", "settle"}
     /\ op'.phase \notin {"mutate", "settle"}
     /\ op'.kind = op.kind \/ (op.kind = "scheduled" /\ op'.kind = "start")
     /\ op'.msg = op.msg
     /\ op'.kind = "steer" => op'.turn = op.turn

LEMMA NoOpMeans ==
  /\ NoOp.kind = "none" /\ NoOp.phase = "none" /\ NoOp.msg = NoMsg /\ NoOp.reply = NoReply
  /\ NoOp.turn = 0 /\ NoOp.base = 0 /\ NoOp.view = NoTurns
  /\ NoReply.kind = "none" /\ NoReply.turn = 0 /\ NoReply.view = NoTurns
  /\ NoUncertainTurn.msg = NoMsg /\ NoUncertainTurn.base = 0
  /\ NoUncertainSteer.msg = NoMsg /\ NoUncertainSteer.turn = 0
  /\ NoReq.kind = "none" /\ ~Sends(NoReq)
  /\ DOMAIN NoTurns = {}
BY DEF NoOp, NoUncertainTurn, NoUncertainSteer, NoReq, NoReply, NoTurns, Line, Sends

LEMMA TurnMessages ==
  ASSUME TypeInv, NEW t \in DOMAIN turns
  PROVE  /\ turns[t] \in Turn /\ turns[t].msgs \subseteq Msgs
         /\ t \in 1 .. Len(turns)
<1>1. turns \in Seq(Turn) BY DEF TypeInv, TypeOK, ServerTypeOK
<1>2. turns[t] \in Turn /\ t \in 1 .. Len(turns) BY <1>1
<1> QED BY <1>2 DEF Turn

LEMMA MessageStays ==
  ASSUME TypeInv, Whereabouts, SameMessages, SameRequest, LessIsKnown, GoesOn
  PROVE  Whereabouts'
<1>1. ASSUME NEW m \in Msgs
      PROVE  /\ m # NoMsg
             /\ IsWaiting(m)' => IsWaiting(m)
             /\ IsHeld(m)' => IsHeld(m)
             /\ IsSent(m)' => IsSent(m) /\ op'.kind = op.kind /\ op'.turn = op.turn /\ op'.base = op.base
             /\ IsAsked(m)' => IsAsked(m)
             /\ IsUncertain(m)' => IsUncertain(m)
             /\ uTurn'.msg = m => uTurn' = uTurn
             /\ uSteer'.msg = m => uSteer' = uSteer
             /\ IsGivenBack(m)' => IsGivenBack(m)
             /\ IsApplied(m)' => IsApplied(m)
  <2>1. m # NoMsg BY ConstantsAssumption
  <2>2. IsWaiting(m)' => IsWaiting(m) BY DEF IsWaiting, LessIsKnown
  <2>3. /\ IsHeld(m)' => IsHeld(m)
        /\ IsSent(m)' => IsSent(m) /\ op'.kind = op.kind /\ op'.turn = op.turn /\ op'.base = op.base
        /\ IsGivenBack(m)' => IsGivenBack(m)
    BY NoOpMeans DEF GoesOn, IsHeld, IsSent, IsGivenBack
  <2>4. IsAsked(m)' => IsAsked(m) BY DEF IsAsked, SameRequest, Sends
  <2>5. /\ IsUncertain(m)' => IsUncertain(m)
        /\ uTurn'.msg = m => uTurn' = uTurn
        /\ uSteer'.msg = m => uSteer' = uSteer
    BY <2>1, NoOpMeans DEF IsUncertain, LessIsKnown
  <2>6. IsApplied(m)' => IsApplied(m) BY DEF IsApplied, SameMessages, TimelyMsgs
  <2> QED BY <2>1, <2>2, <2>3, <2>4, <2>5, <2>6
<1>2. UnsentIsNowhere' BY <1>1 DEF Whereabouts, UnsentIsNowhere, LessIsKnown
<1>3. OneCarrier'
  <2>1. \A v, w \in waiting' : v.kind # "resolve" /\ w.kind # "resolve" /\ v.msg = w.msg => v = w
    BY DEF Whereabouts, OneCarrier, LessIsKnown
  <2>2. ASSUME NEW m \in Msgs, uTurn'.msg = m, uSteer'.msg = m PROVE FALSE
    BY <1>1, <2>2 DEF Whereabouts, OneCarrier
  <2> QED BY <1>1, <2>1, <2>2 DEF Whereabouts, OneCarrier
<1>4. AskedAsSent'
  <2> SUFFICES ASSUME Sends(req')
               PROVE  /\ IsSent(req.msg)' => req'.kind = op'.kind /\ req'.turn = op'.turn
                      /\ uTurn'.msg = req'.msg => req'.kind = "start"
                      /\ uSteer'.msg = req'.msg => req'.kind = "steer" /\ req'.turn = uSteer'.turn
    BY DEF AskedAsSent, Sends
  <2>1. req'.kind = req.kind /\ req'.msg = req.msg /\ req'.turn = req.turn /\ Sends(req)
    BY DEF SameRequest, Sends
  <2>2. req.msg \in Msgs BY <2>1 DEF TypeInv, MessagesInFlight, Sends
  <2>3. IsSent(req.msg)' => IsSent(req.msg) /\ op'.kind = op.kind /\ op'.turn = op.turn
    BY <1>1, <2>1, <2>2 DEF IsSent
  <2> QED BY <1>1, <2>1, <2>2, <2>3 DEF Whereabouts, AskedAsSent
<1>5. AppliedWhereSent'
  <2> SUFFICES ASSUME NEW t \in DOMAIN turns', NEW m \in TimelyMsgs(t)'
               PROVE  /\ IsSent(m)' /\ op'.kind = "start" => t > op'.base
                      /\ IsSent(m)' /\ op'.kind = "steer" => t = op'.turn
                      /\ uTurn'.msg = m => t > uTurn'.base
                      /\ uSteer'.msg = m => t = uSteer'.turn
    BY DEF AppliedWhereSent, IsSent, TimelyMsgs
  <2>1. t \in DOMAIN turns /\ m \in TimelyMsgs(t) BY DEF SameMessages
  <2>2. m \in Msgs BY <2>1, TurnMessages DEF TimelyMsgs
  <2> QED BY <1>1, <2>1, <2>2 DEF Whereabouts, AppliedWhereSent, TimelyMsgs
<1>6. SteersNameTurns'
  <2>1. \A w \in waiting' : w.kind = "steer" => w.turn # 0 BY DEF Whereabouts, SteersNameTurns, LessIsKnown
  <2>2. op'.kind = "steer" => op'.turn # 0 BY NoOpMeans DEF Whereabouts, SteersNameTurns, GoesOn
  <2>3. uSteer'.msg = NoMsg <=> uSteer'.turn = 0 BY NoOpMeans DEF Whereabouts, SteersNameTurns, LessIsKnown
  <2> QED BY <2>1, <2>2, <2>3 DEF SteersNameTurns
<1>7. ResolvesWhatItFound'
  <2>1. CASE op' = NoOp \/ (op'.kind \in {"read", "reconcile"} /\ op'.phase \notin {"mutate", "settle"})
    BY <2>1, NoOpMeans DEF ResolvesWhatItFound
  <2>2. CASE /\ op'.kind = op.kind /\ op'.phase = op.phase /\ op'.msg = op.msg
             /\ op'.turn = op.turn /\ op'.base = op.base
             /\ UNCHANGED uSteer
    BY <2>2, NoOpMeans DEF Whereabouts, ResolvesWhatItFound, LessIsKnown
  <2>3. CASE /\ op.kind \notin {"none", "resolve"} /\ op'.phase \notin {"mutate", "settle"}
             /\ op'.kind = op.kind \/ (op.kind = "scheduled" /\ op'.kind = "start")
    BY <2>3 DEF ResolvesWhatItFound
  <2> QED BY <2>1, <2>2, <2>3 DEF GoesOn
<1>8. GivenBackIsUnsent' BY DEF Whereabouts, GivenBackIsUnsent, LessIsKnown
<1>9. AtMostOnce' BY DEF Whereabouts, AtMostOnce, SameMessages, TimelyMsgs
<1> QED BY <1>2, <1>3, <1>4, <1>5, <1>6, <1>7, <1>8, <1>9 DEF Whereabouts

LEMMA AcceptedMessage ==
  ASSUME TypeInv, Whereabouts, NEW m \in Msgs, AcceptStart(m) \/ AcceptScheduled(m) \/ AcceptSteer(m)
  PROVE  Whereabouts'
<1>1. PICK kind \in {"start", "scheduled", "steer"}, t \in MaybeNumber :
        Accept(kind, m, t) /\ (kind = "steer" => t # 0)
  BY Constants DEF AcceptStart, AcceptScheduled, AcceptSteer, TypeInv, TypeOK, Runtime
<1> DEFINE w == [kind |-> kind, msg |-> m, turn |-> t]
<1>2. /\ m \notin submitted /\ submitted' = submitted \cup {m}
      /\ waiting' = waiting \cup {w}
      /\ verdict' = [verdict EXCEPT ![m] = "none"]
      /\ UNCHANGED <<turns, lateMsgs, req, op, uTurn, uSteer>>
  BY <1>1 DEF Accept, server
<1>3. w.kind # "resolve" /\ w.msg = m /\ (w.kind = "steer" => w.turn # 0) BY <1>1
<1> HIDE DEF w
<1>4. ~(IsWaiting(m) \/ IsHeld(m) \/ IsSent(m) \/ IsAsked(m) \/ IsUncertain(m) \/ IsGivenBack(m) \/ IsApplied(m))
  BY <1>2 DEF Whereabouts, UnsentIsNowhere
<1>6. ASSUME NEW n \in Msgs
      PROVE  /\ IsWaiting(n)' => IsWaiting(n) \/ n = m
             /\ IsHeld(n)' <=> IsHeld(n)
             /\ IsSent(n)' <=> IsSent(n)
             /\ IsAsked(n)' <=> IsAsked(n)
             /\ IsUncertain(n)' <=> IsUncertain(n)
             /\ IsGivenBack(n)' <=> IsGivenBack(n)
             /\ IsApplied(n)' <=> IsApplied(n)
  <2>1. IsWaiting(n)' => IsWaiting(n) \/ n = m BY <1>2, <1>3 DEF IsWaiting
  <2> QED BY <1>2, <2>1 DEF IsHeld, IsSent, IsAsked, IsUncertain, IsGivenBack, IsApplied, TimelyMsgs
<1>7. UnsentIsNowhere' BY <1>2, <1>6 DEF Whereabouts, UnsentIsNowhere
<1>8. OneCarrier'
  <2>1. \A v, x \in waiting' : v.kind # "resolve" /\ x.kind # "resolve" /\ v.msg = x.msg => v = x
    BY <1>2, <1>3, <1>4 DEF Whereabouts, OneCarrier, IsWaiting
  <2>2. UNCHANGED <<uTurn, uSteer>> BY <1>2
  <2> QED BY <1>4, <1>6, <2>1, <2>2 DEF Whereabouts, OneCarrier
<1>9. AskedAsSent' /\ AppliedWhereSent' /\ ResolvesWhatItFound' /\ AtMostOnce'
  BY <1>2 DEF Whereabouts, AskedAsSent, AppliedWhereSent, ResolvesWhatItFound, AtMostOnce, IsSent, Sends, TimelyMsgs
<1>10. SteersNameTurns' BY <1>2, <1>3 DEF Whereabouts, SteersNameTurns
<1>11. GivenBackIsUnsent' BY <1>2, TypedParts DEF Whereabouts, GivenBackIsUnsent, HistoryTypeOK
<1> QED BY <1>7, <1>8, <1>9, <1>10, <1>11 DEF Whereabouts

\* A waiting call gets the lock and holds its message.
LEMMA TakenMessage ==
  ASSUME TypeInv, Whereabouts, NEW w \in waiting, w.kind # "resolve", waiting' = waiting \ {w},
         op.kind = "none", op'.kind \in {"start", "scheduled", "steer"}, op'.phase \notin {"mutate", "settle"},
         op'.msg = w.msg, op'.kind = "steer" => op'.turn # 0,
         SameRequest, UNCHANGED <<turns, lateMsgs, submitted, verdict, uTurn, uSteer>>
  PROVE  Whereabouts'
<1>1. w.msg \in Msgs /\ IsWaiting(w.msg) /\ op.phase = "none" BY DEF TypeInv, MessagesInFlight, IsWaiting
<1>2. ASSUME NEW n \in Msgs
      PROVE  /\ IsWaiting(n)' => IsWaiting(n) /\ n # w.msg
             /\ IsHeld(n)' => n = w.msg
             /\ ~IsSent(n)'
             /\ IsAsked(n)' => IsAsked(n)
             /\ IsUncertain(n)' <=> IsUncertain(n)
             /\ ~IsGivenBack(n)'
             /\ IsApplied(n)' <=> IsApplied(n)
  <2>1. IsWaiting(n)' => IsWaiting(n) /\ n # w.msg BY DEF IsWaiting, Whereabouts, OneCarrier
  <2>2. IsAsked(n)' => IsAsked(n) BY DEF IsAsked, SameRequest, Sends
  <2> QED BY <2>1, <2>2 DEF IsHeld, IsSent, IsUncertain, IsGivenBack, IsApplied, TimelyMsgs
<1>3. UnsentIsNowhere' BY <1>1, <1>2 DEF Whereabouts, UnsentIsNowhere
<1>4. OneCarrier'
  <2>1. \A v, x \in waiting' : v.kind # "resolve" /\ x.kind # "resolve" /\ v.msg = x.msg => v = x
    BY DEF Whereabouts, OneCarrier
  <2> QED BY <1>1, <1>2, <2>1 DEF Whereabouts, OneCarrier
<1>5. AskedAsSent' BY DEF Whereabouts, AskedAsSent, IsSent, SameRequest, Sends
<1>6. AppliedWhereSent' /\ ResolvesWhatItFound' /\ AtMostOnce' /\ SteersNameTurns' /\ GivenBackIsUnsent'
  BY DEF Whereabouts, AppliedWhereSent, ResolvesWhatItFound, AtMostOnce, SteersNameTurns, GivenBackIsUnsent, IsSent, TimelyMsgs
<1> QED BY <1>3, <1>4, <1>5, <1>6 DEF Whereabouts

\* Nobody carries anything: the lock goes to a resolution.
LEMMA TakenResolution ==
  ASSUME TypeInv, Whereabouts, waiting' \subseteq waiting, op.kind = "none",
         op'.kind = "resolve", op'.phase = "read", op'.msg = uSteer.msg, op'.turn = uSteer.turn, op'.base = uTurn.base,
         SameRequest, UNCHANGED <<turns, lateMsgs, submitted, verdict, uTurn, uSteer>>
  PROVE  Whereabouts'
<1>1. ASSUME NEW n \in Msgs
      PROVE  /\ IsWaiting(n)' => IsWaiting(n)
             /\ ~IsHeld(n)' /\ ~IsSent(n)' /\ ~IsGivenBack(n)'
             /\ IsAsked(n)' => IsAsked(n)
             /\ IsUncertain(n)' <=> IsUncertain(n)
             /\ IsApplied(n)' <=> IsApplied(n)
  <2>1. IsAsked(n)' => IsAsked(n) BY DEF IsAsked, SameRequest, Sends
  <2> QED BY <2>1 DEF IsWaiting, IsHeld, IsSent, IsUncertain, IsGivenBack, IsApplied, TimelyMsgs
<1>2. UnsentIsNowhere' BY <1>1 DEF Whereabouts, UnsentIsNowhere
<1>3. OneCarrier' BY <1>1 DEF Whereabouts, OneCarrier
<1>4. AskedAsSent' BY DEF Whereabouts, AskedAsSent, IsSent, SameRequest, Sends
<1>5. AppliedWhereSent' /\ ResolvesWhatItFound' /\ AtMostOnce' /\ SteersNameTurns' /\ GivenBackIsUnsent'
  BY DEF Whereabouts, AppliedWhereSent, ResolvesWhatItFound, AtMostOnce, SteersNameTurns, GivenBackIsUnsent, IsSent, TimelyMsgs
<1> QED BY <1>2, <1>3, <1>4, <1>5 DEF Whereabouts

\* The message goes out, or cannot because there is no connection.
LEMMA SentMessage ==
  ASSUME TypeInv, Whereabouts, op.phase = "ready",
         op'.phase = "mutate", op'.kind = op.kind, op'.msg = op.msg, op'.turn = op.turn,
         \/ req'.kind = op.kind /\ req'.msg = op.msg /\ req'.turn = op.turn
         \/ req' = req,
         UNCHANGED <<turns, lateMsgs, waiting, submitted, verdict, uTurn, uSteer>>
  PROVE  Whereabouts'
<1>1. op.kind \in {"start", "steer"} /\ op.msg \in Msgs /\ IsHeld(op.msg)
  BY DEF TypeInv, MessagesInFlight, IsHeld
<1>2. ASSUME NEW n \in Msgs
      PROVE  /\ IsWaiting(n)' => IsWaiting(n)
             /\ ~IsHeld(n)' /\ ~IsGivenBack(n)'
             /\ IsSent(n)' => n = op.msg
             /\ IsAsked(n)' => IsAsked(n) \/ n = op.msg
             /\ IsUncertain(n)' <=> IsUncertain(n)
             /\ IsApplied(n)' <=> IsApplied(n)
  BY DEF IsWaiting, IsHeld, IsSent, IsAsked, IsUncertain, IsGivenBack, IsApplied, TimelyMsgs
<1>3. UnsentIsNowhere' BY <1>1, <1>2 DEF Whereabouts, UnsentIsNowhere
<1>4. OneCarrier' BY <1>1, <1>2 DEF Whereabouts, OneCarrier
<1>5. AskedAsSent'
  <2>1. ~IsAsked(op.msg) /\ ~IsUncertain(op.msg) BY <1>1 DEF Whereabouts, OneCarrier
  <2> QED BY <1>1, <2>1 DEF Whereabouts, AskedAsSent, IsSent, IsAsked, IsUncertain, Sends
<1>6. AppliedWhereSent'
  <2>1. ~IsApplied(op.msg) BY <1>1 DEF Whereabouts, OneCarrier
  <2> QED BY <2>1 DEF Whereabouts, AppliedWhereSent, IsSent, IsApplied, TimelyMsgs
<1>7. ResolvesWhatItFound' /\ AtMostOnce' /\ SteersNameTurns' /\ GivenBackIsUnsent'
  BY <1>1 DEF Whereabouts, ResolvesWhatItFound, AtMostOnce, SteersNameTurns, GivenBackIsUnsent, TimelyMsgs
<1> QED BY <1>3, <1>4, <1>5, <1>6, <1>7 DEF Whereabouts

\* The connection is lost before the answer: where a message was sent to is now
\* what is uncertain.
LEMMA LostMessage ==
  ASSUME TypeInv, Whereabouts, op.phase = "mutate", op' = NoOp,
         SameRequest, UNCHANGED <<turns, lateMsgs, waiting, submitted, verdict>>,
         uTurn' = (IF op.kind = "start" THEN [msg |-> op.msg, base |-> op.base] ELSE uTurn),
         uSteer' = (IF op.kind = "steer" THEN [msg |-> op.msg, turn |-> op.turn] ELSE uSteer)
  PROVE  Whereabouts'
<1>1. op.kind \in {"start", "steer"} /\ op.msg \in Msgs /\ IsSent(op.msg) /\ op.msg # NoMsg
  BY ConstantsAssumption DEF TypeInv, MessagesInFlight, IsSent
<1>2. ~IsUncertain(op.msg) BY <1>1 DEF Whereabouts, OneCarrier
<1>3. ASSUME NEW n \in Msgs
      PROVE  /\ IsWaiting(n)' => IsWaiting(n)
             /\ ~IsHeld(n)' /\ ~IsGivenBack(n)' /\ ~IsSent(n)'
             /\ IsAsked(n)' => IsAsked(n)
             /\ IsUncertain(n)' => IsUncertain(n) \/ n = op.msg
             /\ IsApplied(n)' <=> IsApplied(n)
  <2>1. IsAsked(n)' => IsAsked(n) BY DEF IsAsked, SameRequest, Sends
  <2>2. IsUncertain(n)' => IsUncertain(n) \/ n = op.msg BY DEF IsUncertain
  <2> QED BY <2>1, <2>2, NoOpMeans DEF IsWaiting, IsHeld, IsSent, IsGivenBack, IsApplied, TimelyMsgs
<1>4. UnsentIsNowhere' BY <1>1, <1>3 DEF Whereabouts, UnsentIsNowhere
<1>5. OneCarrier'
  <2>1. ASSUME NEW m \in Msgs, uTurn'.msg = m, uSteer'.msg = m PROVE FALSE
    BY <1>1, <1>2, <2>1 DEF Whereabouts, OneCarrier, IsUncertain
  <2>2. ASSUME NEW m \in Msgs, IsWaiting(m)' PROVE ~IsUncertain(m)'
    BY <1>1, <1>3, <2>2 DEF Whereabouts, OneCarrier
  <2>3. \A v, x \in waiting' : v.kind # "resolve" /\ x.kind # "resolve" /\ v.msg = x.msg => v = x
    BY DEF Whereabouts, OneCarrier
  <2>4. ASSUME NEW m \in Msgs
        PROVE  /\ IsWaiting(m)' => ~(IsHeld(m)' \/ IsSent(m)' \/ IsAsked(m)' \/ IsUncertain(m)' \/ IsGivenBack(m)' \/ IsApplied(m)')
               /\ IsAsked(m)' => ~IsApplied(m)'
    BY <1>3, <2>2 DEF Whereabouts, OneCarrier
  <2> QED BY <1>3, <2>1, <2>3, <2>4 DEF OneCarrier
<1>6. AskedAsSent'
  <2>1. ASSUME Sends(req')
        PROVE  Sends(req) /\ req'.kind = req.kind /\ req'.msg = req.msg /\ req'.turn = req.turn
    BY <2>1 DEF SameRequest, Sends
  <2>2. ~IsSent(req.msg)' BY NoOpMeans DEF IsSent
  <2>3. ASSUME Sends(req'), uTurn'.msg = req'.msg PROVE req'.kind = "start"
    BY <1>1, <2>1, <2>3 DEF Whereabouts, AskedAsSent, IsSent
  <2>4. ASSUME Sends(req'), uSteer'.msg = req'.msg PROVE req'.kind = "steer" /\ req'.turn = uSteer'.turn
    BY <1>1, <2>1, <2>4 DEF Whereabouts, AskedAsSent, IsSent
  <2> QED BY <2>2, <2>3, <2>4 DEF AskedAsSent, Sends
<1>7. AppliedWhereSent'
  <2> SUFFICES ASSUME NEW t \in DOMAIN turns, NEW m \in TimelyMsgs(t)
               PROVE  /\ uTurn'.msg = m => t > uTurn'.base
                      /\ uSteer'.msg = m => t = uSteer'.turn
    BY NoOpMeans DEF AppliedWhereSent, IsSent, TimelyMsgs
  <2> QED BY <1>1 DEF Whereabouts, AppliedWhereSent, IsSent, TimelyMsgs
<1>8. ResolvesWhatItFound' /\ AtMostOnce' /\ GivenBackIsUnsent'
  BY NoOpMeans DEF Whereabouts, ResolvesWhatItFound, AtMostOnce, GivenBackIsUnsent, TimelyMsgs
<1>9. SteersNameTurns' BY <1>1, NoOpMeans DEF Whereabouts, SteersNameTurns
<1> QED BY <1>4, <1>5, <1>6, <1>7, <1>8, <1>9 DEF Whereabouts

\* Nothing was found of the message of a resolution: it may be given back.
LEMMA MissingMessage ==
  ASSUME TypeInv, Whereabouts, op.kind = "resolve", op.phase = "read",
         op'.kind = "resolve", op'.phase = "settle", op'.turn = op.turn,
         op'.msg = (IF op.msg # NoMsg THEN op.msg ELSE uTurn.msg),
         ~Sends(req), ~IsApplied(op'.msg),
         UNCHANGED <<turns, lateMsgs, req, waiting, submitted, verdict, uTurn, uSteer>>
  PROVE  Whereabouts'
<1>1. op.msg = uSteer.msg /\ op.turn = uSteer.turn BY DEF Whereabouts, ResolvesWhatItFound
<1>2. ASSUME NEW n \in Msgs
      PROVE  /\ IsWaiting(n)' => IsWaiting(n)
             /\ ~IsHeld(n)' /\ ~IsSent(n)' /\ ~IsAsked(n)'
             /\ IsUncertain(n)' <=> IsUncertain(n)
             /\ IsGivenBack(n)' => IsUncertain(n) /\ ~IsApplied(n)
             /\ IsApplied(n)' <=> IsApplied(n)
  BY <1>1 DEF IsWaiting, IsHeld, IsSent, IsAsked, IsUncertain, IsGivenBack, IsApplied, Sends, TimelyMsgs
<1>3. UnsentIsNowhere' BY <1>2 DEF Whereabouts, UnsentIsNowhere
<1>4. OneCarrier'
  <2>1. ASSUME NEW m \in Msgs
        PROVE  /\ IsWaiting(m)' => ~(IsHeld(m)' \/ IsSent(m)' \/ IsAsked(m)' \/ IsUncertain(m)' \/ IsGivenBack(m)' \/ IsApplied(m)')
               /\ IsGivenBack(m)' => ~IsApplied(m)'
               /\ ~IsHeld(m)' /\ ~IsSent(m)' /\ ~IsAsked(m)'
               /\ ~(uTurn.msg = m /\ uSteer.msg = m)
    BY <1>2 DEF Whereabouts, OneCarrier
  <2>2. \A v, x \in waiting' : v.kind # "resolve" /\ x.kind # "resolve" /\ v.msg = x.msg => v = x
    BY DEF Whereabouts, OneCarrier
  <2> QED BY <2>1, <2>2 DEF OneCarrier
<1>5. AskedAsSent' /\ AppliedWhereSent' /\ AtMostOnce' /\ SteersNameTurns' /\ GivenBackIsUnsent'
  BY DEF Whereabouts, AskedAsSent, AppliedWhereSent, AtMostOnce, SteersNameTurns, GivenBackIsUnsent, IsSent, Sends, TimelyMsgs
<1>6. ResolvesWhatItFound' BY <1>1 DEF Whereabouts, ResolvesWhatItFound, SteersNameTurns
<1> QED BY <1>3, <1>4, <1>5, <1>6 DEF Whereabouts

\* The message is given back: it is unsent again, and nowhere.
LEMMA MessageGivenBack ==
  ASSUME TypeInv, Whereabouts, ResolvesByTheTruth, ResolveNotApplied
  PROVE  Whereabouts'
<1>1. /\ op.phase = "settle" /\ op' = NoOp /\ UNCHANGED <<turns, lateMsgs, req, waiting>>
      /\ submitted' = submitted \ {op.msg}
      /\ verdict' = (IF op.msg = NoMsg THEN verdict ELSE [verdict EXCEPT ![op.msg] = "notApplied"])
      /\ IF op.turn # 0 THEN uSteer' = NoUncertainSteer /\ UNCHANGED uTurn
                        ELSE uTurn' = NoUncertainTurn /\ UNCHANGED uSteer
  BY DEF ResolveNotApplied, Release, server
<1>2. op.kind = "resolve" /\ (op.turn # 0 => uSteer.msg = op.msg) /\ (op.turn = 0 => uSteer.msg = NoMsg /\ uTurn.msg \in {op.msg, NoMsg})
  BY <1>1 DEF Whereabouts, ResolvesWhatItFound
<1>3. NoMsg \notin Msgs BY ConstantsAssumption
<1>4. ASSUME NEW n \in Msgs
      PROVE  /\ IsWaiting(n)' => IsWaiting(n)
             /\ ~IsHeld(n)' /\ ~IsSent(n)' /\ ~IsGivenBack(n)'
             /\ IsAsked(n)' => IsAsked(n)
             /\ IsUncertain(n)' => IsUncertain(n)
             /\ IsApplied(n)' <=> IsApplied(n)
  BY <1>1, <1>3, NoOpMeans DEF IsWaiting, IsHeld, IsSent, IsAsked, IsUncertain, IsGivenBack, IsApplied, TimelyMsgs
<1>5. ASSUME op.msg \in Msgs
      PROVE  ~IsWaiting(op.msg) /\ ~IsAsked(op.msg) /\ op.msg \notin {uTurn'.msg, uSteer'.msg} /\ ~IsApplied(op.msg)
  <2>1. IsGivenBack(op.msg) BY <1>1 DEF IsGivenBack
  <2>2. ~IsWaiting(op.msg) /\ ~IsAsked(op.msg) /\ ~IsApplied(op.msg) /\ ~(uTurn.msg = op.msg /\ uSteer.msg = op.msg)
    BY <1>5, <2>1 DEF Whereabouts, OneCarrier
  <2> QED BY <1>1, <1>2, <1>3, <1>5, <2>2, NoOpMeans
<1>6. UnsentIsNowhere'
  <2> SUFFICES ASSUME NEW n \in Msgs \ submitted'
               PROVE  ~(IsWaiting(n)' \/ IsHeld(n)' \/ IsSent(n)' \/ IsAsked(n)' \/ IsUncertain(n)' \/ IsGivenBack(n)' \/ IsApplied(n)')
    BY DEF UnsentIsNowhere
  <2>1. CASE n = op.msg
    <3>1. ~IsUncertain(n)' BY <1>5, <2>1 DEF IsUncertain
    <3> QED BY <1>4, <1>5, <2>1, <3>1
  <2>2. CASE n # op.msg BY <1>1, <1>4, <2>2 DEF Whereabouts, UnsentIsNowhere
  <2> QED BY <2>1, <2>2
<1>7. OneCarrier'
  <2>1. ASSUME NEW m \in Msgs, uTurn'.msg = m, uSteer'.msg = m PROVE FALSE
    BY <1>1, <1>3, <2>1, NoOpMeans DEF Whereabouts, OneCarrier
  <2>2. ASSUME NEW m \in Msgs
        PROVE  /\ IsWaiting(m)' => ~(IsHeld(m)' \/ IsSent(m)' \/ IsAsked(m)' \/ IsUncertain(m)' \/ IsGivenBack(m)' \/ IsApplied(m)')
               /\ IsAsked(m)' => ~IsApplied(m)'
    BY <1>4 DEF Whereabouts, OneCarrier
  <2>3. \A v, x \in waiting' : v.kind # "resolve" /\ x.kind # "resolve" /\ v.msg = x.msg => v = x
    BY <1>1 DEF Whereabouts, OneCarrier
  <2> QED BY <1>4, <2>1, <2>2, <2>3 DEF OneCarrier
<1>8. AskedAsSent'
  <2>1. ~IsSent(req.msg)' BY <1>1, NoOpMeans DEF IsSent
  <2>2. Sends(req) => req.msg \in Msgs BY DEF TypeInv, MessagesInFlight, Sends
  <2> QED BY <1>1, <1>3, <2>1, <2>2, NoOpMeans DEF Whereabouts, AskedAsSent, Sends
<1>9. AppliedWhereSent'
  <2> SUFFICES ASSUME NEW t \in DOMAIN turns, NEW m \in TimelyMsgs(t)
               PROVE  /\ uTurn'.msg = m => t > uTurn'.base
                      /\ uSteer'.msg = m => t = uSteer'.turn
    BY <1>1, NoOpMeans DEF AppliedWhereSent, IsSent, TimelyMsgs
  <2>1. m \in Msgs BY TurnMessages DEF TimelyMsgs
  <2> QED BY <1>1, <1>3, <2>1, NoOpMeans DEF Whereabouts, AppliedWhereSent, TimelyMsgs
<1>10. ResolvesWhatItFound' /\ AtMostOnce' /\ SteersNameTurns'
  BY <1>1, NoOpMeans DEF Whereabouts, ResolvesWhatItFound, AtMostOnce, SteersNameTurns, TimelyMsgs
<1>11. GivenBackIsUnsent' BY <1>1, <1>3, TypedParts DEF Whereabouts, GivenBackIsUnsent, HistoryTypeOK
<1> QED BY <1>6, <1>7, <1>8, <1>9, <1>10, <1>11 DEF Whereabouts

\* The App Server serves a start: the message is in a new Turn.
LEMMA StartedMessage ==
  ASSUME TypeInv, Whereabouts, KnownTurns, req.kind = "start", req' = NoReq,
         NEW fresh \in Turn, fresh.msgs = {req.msg}, turns' = Append(turns, fresh),
         UNCHANGED <<lateMsgs, op, waiting, submitted, verdict, uTurn, uSteer>>
  PROVE  Whereabouts'
<1> DEFINE m == req.msg
<1>1. m \in Msgs /\ IsAsked(m) /\ m # NoMsg BY ConstantsAssumption DEF TypeInv, MessagesInFlight, IsAsked, Sends
<1>2. /\ turns \in Seq(Turn) /\ Len(turns) \in Nat
      /\ DOMAIN turns = 1 .. Len(turns) /\ DOMAIN turns' = 1 .. Len(turns) + 1
      /\ \A t \in DOMAIN turns : turns'[t] = turns[t]
      /\ turns'[Len(turns) + 1] = fresh
  BY DEF TypeInv, TypeOK, ServerTypeOK
<1>3. ASSUME NEW t \in DOMAIN turns'
      PROVE  \/ t \in DOMAIN turns /\ turns'[t] = turns[t]
             \/ t = Len(turns) + 1 /\ turns'[t].msgs = {m}
  BY <1>2
<1>4. /\ ~IsWaiting(m) /\ ~IsHeld(m) /\ ~IsGivenBack(m) /\ ~IsApplied(m) /\ m \in submitted
  BY <1>1 DEF Whereabouts, OneCarrier, UnsentIsNowhere
<1>5. ASSUME NEW n \in Msgs
      PROVE  /\ IsWaiting(n)' <=> IsWaiting(n)
             /\ IsHeld(n)' <=> IsHeld(n)
             /\ IsSent(n)' <=> IsSent(n)
             /\ ~IsAsked(n)'
             /\ IsUncertain(n)' <=> IsUncertain(n)
             /\ IsGivenBack(n)' <=> IsGivenBack(n)
             /\ IsApplied(n)' => IsApplied(n) \/ n = m
  <2>1. IsApplied(n)' => IsApplied(n) \/ n = m BY <1>3 DEF IsApplied, TimelyMsgs
  <2> QED BY <2>1, NoOpMeans DEF IsWaiting, IsHeld, IsSent, IsAsked, IsUncertain, IsGivenBack
<1>6. UnsentIsNowhere' BY <1>4, <1>5 DEF Whereabouts, UnsentIsNowhere
<1>7. OneCarrier'
  <2>1. ASSUME NEW n \in Msgs
        PROVE  /\ IsWaiting(n)' => ~(IsHeld(n)' \/ IsSent(n)' \/ IsAsked(n)' \/ IsUncertain(n)' \/ IsGivenBack(n)' \/ IsApplied(n)')
               /\ IsHeld(n)' => ~(IsAsked(n)' \/ IsUncertain(n)' \/ IsApplied(n)')
               /\ IsSent(n)' => ~IsUncertain(n)'
               /\ IsGivenBack(n)' => ~IsApplied(n)'
               /\ ~(uTurn'.msg = n /\ uSteer'.msg = n)
    BY <1>4, <1>5 DEF Whereabouts, OneCarrier
  <2>2. \A v, x \in waiting' : v.kind # "resolve" /\ x.kind # "resolve" /\ v.msg = x.msg => v = x
    BY DEF Whereabouts, OneCarrier
  <2> QED BY <1>5, <2>1, <2>2 DEF OneCarrier
<1>8. AskedAsSent' /\ ResolvesWhatItFound' /\ SteersNameTurns' /\ GivenBackIsUnsent'
  BY NoOpMeans DEF Whereabouts, AskedAsSent, ResolvesWhatItFound, SteersNameTurns, GivenBackIsUnsent
<1>9. AppliedWhereSent'
  <2> SUFFICES ASSUME NEW t \in DOMAIN turns', NEW n \in TimelyMsgs(t)'
               PROVE  /\ IsSent(n) /\ op.kind = "start" => t > op.base
                      /\ IsSent(n) /\ op.kind = "steer" => t = op.turn
                      /\ uTurn.msg = n => t > uTurn.base
                      /\ uSteer.msg = n => t = uSteer.turn
    BY DEF AppliedWhereSent, IsSent, TimelyMsgs
  <2>1. CASE t \in DOMAIN turns /\ turns'[t] = turns[t] BY <2>1 DEF Whereabouts, AppliedWhereSent, TimelyMsgs
  <2>2. CASE t = Len(turns) + 1 /\ n = m
    <3>1. op.base <= Len(turns) /\ uTurn.base <= Len(turns) /\ op.base \in MaybeNumber /\ uTurn.base \in MaybeNumber
      BY TypedParts DEF KnownTurns, HolderKnown, BaselineKnown, Operations, SessionTypeOK
    <3>2. t > op.base /\ t > uTurn.base BY <1>2, <2>2, <3>1, ConstantsAssumption DEF MaybeNumber
    <3>3. (IsSent(m) => op.kind = "start") /\ uSteer.msg # m BY DEF Whereabouts, AskedAsSent, Sends
    <3> QED BY <2>2, <3>2, <3>3
  <2> QED BY <1>3, <2>1, <2>2 DEF TimelyMsgs
<1>10. AtMostOnce'
  <2> SUFFICES ASSUME NEW n \in Msgs \ lateMsgs', NEW s \in DOMAIN turns', NEW t \in DOMAIN turns',
                      n \in turns'[s].msgs, n \in turns'[t].msgs
               PROVE  s = t
    BY DEF AtMostOnce, TimelyMsgs
  <2>1. m \notin lateMsgs => \A k \in DOMAIN turns : m \notin turns[k].msgs BY <1>4 DEF IsApplied, TimelyMsgs
  <2> QED BY <1>3, <2>1 DEF Whereabouts, AtMostOnce, TimelyMsgs
<1> QED BY <1>6, <1>7, <1>8, <1>9, <1>10 DEF Whereabouts

\* The App Server serves a steer: the message is in the Turn the steer names.
LEMMA SteeredMessage ==
  ASSUME TypeInv, Whereabouts, req.kind = "steer", req' = NoReq, DOMAIN turns' = DOMAIN turns,
         \A t \in DOMAIN turns :
            turns'[t].msgs = IF t = req.turn THEN turns[t].msgs \cup {req.msg} ELSE turns[t].msgs,
         UNCHANGED <<lateMsgs, op, waiting, submitted, verdict, uTurn, uSteer>>
  PROVE  Whereabouts'
<1> DEFINE m == req.msg
<1>1. m \in Msgs /\ IsAsked(m) /\ m # NoMsg BY ConstantsAssumption DEF TypeInv, MessagesInFlight, IsAsked, Sends
<1>3. ASSUME NEW t \in DOMAIN turns', NEW n \in TimelyMsgs(t)'
      PROVE  t \in DOMAIN turns /\ (n \in TimelyMsgs(t) \/ (t = req.turn /\ n = m))
  <2>1. t \in DOMAIN turns OBVIOUS
  <2> QED BY <2>1 DEF TimelyMsgs
<1>4. /\ ~IsWaiting(m) /\ ~IsHeld(m) /\ ~IsGivenBack(m) /\ ~IsApplied(m) /\ m \in submitted
  BY <1>1 DEF Whereabouts, OneCarrier, UnsentIsNowhere
<1>5. ASSUME NEW n \in Msgs
      PROVE  /\ IsWaiting(n)' <=> IsWaiting(n)
             /\ IsHeld(n)' <=> IsHeld(n)
             /\ IsSent(n)' <=> IsSent(n)
             /\ ~IsAsked(n)'
             /\ IsUncertain(n)' <=> IsUncertain(n)
             /\ IsGivenBack(n)' <=> IsGivenBack(n)
             /\ IsApplied(n)' => IsApplied(n) \/ n = m
  <2>1. IsApplied(n)' => IsApplied(n) \/ n = m BY <1>3 DEF IsApplied, TimelyMsgs
  <2> QED BY <2>1, NoOpMeans DEF IsWaiting, IsHeld, IsSent, IsAsked, IsUncertain, IsGivenBack
<1>6. UnsentIsNowhere' BY <1>4, <1>5 DEF Whereabouts, UnsentIsNowhere
<1>7. OneCarrier'
  <2>1. ASSUME NEW n \in Msgs
        PROVE  /\ IsWaiting(n)' => ~(IsHeld(n)' \/ IsSent(n)' \/ IsAsked(n)' \/ IsUncertain(n)' \/ IsGivenBack(n)' \/ IsApplied(n)')
               /\ IsHeld(n)' => ~(IsAsked(n)' \/ IsUncertain(n)' \/ IsApplied(n)')
               /\ IsSent(n)' => ~IsUncertain(n)'
               /\ IsGivenBack(n)' => ~IsApplied(n)'
               /\ ~(uTurn'.msg = n /\ uSteer'.msg = n)
    BY <1>4, <1>5 DEF Whereabouts, OneCarrier
  <2>2. \A v, x \in waiting' : v.kind # "resolve" /\ x.kind # "resolve" /\ v.msg = x.msg => v = x
    BY DEF Whereabouts, OneCarrier
  <2> QED BY <1>5, <2>1, <2>2 DEF OneCarrier
<1>8. AskedAsSent' /\ ResolvesWhatItFound' /\ SteersNameTurns' /\ GivenBackIsUnsent'
  BY NoOpMeans DEF Whereabouts, AskedAsSent, ResolvesWhatItFound, SteersNameTurns, GivenBackIsUnsent
<1>9. AppliedWhereSent'
  <2> SUFFICES ASSUME NEW t \in DOMAIN turns', NEW n \in TimelyMsgs(t)'
               PROVE  /\ IsSent(n) /\ op.kind = "start" => t > op.base
                      /\ IsSent(n) /\ op.kind = "steer" => t = op.turn
                      /\ uTurn.msg = n => t > uTurn.base
                      /\ uSteer.msg = n => t = uSteer.turn
    BY DEF AppliedWhereSent, IsSent, TimelyMsgs
  <2>1. CASE t \in DOMAIN turns /\ n \in TimelyMsgs(t) BY <2>1 DEF Whereabouts, AppliedWhereSent, TimelyMsgs
  <2>2. CASE t = req.turn /\ n = m BY <2>2 DEF Whereabouts, AskedAsSent, Sends
  <2> QED BY <1>3, <2>1, <2>2
<1>10. AtMostOnce'
  <2> SUFFICES ASSUME NEW n \in Msgs \ lateMsgs', NEW s \in DOMAIN turns', NEW t \in DOMAIN turns',
                      n \in turns'[s].msgs, n \in turns'[t].msgs
               PROVE  s = t
    BY DEF AtMostOnce, TimelyMsgs
  <2>1. m \notin lateMsgs => \A k \in DOMAIN turns : m \notin turns[k].msgs BY <1>4 DEF IsApplied, TimelyMsgs
  <2> QED BY <1>3, <2>1 DEF Whereabouts, AtMostOnce, TimelyMsgs
<1> QED BY <1>6, <1>7, <1>8, <1>9, <1>10 DEF Whereabouts

----
(* Lines on the wire. *)

OnWire(s) == {s[i] : i \in DOMAIN s}

LEMMA OnWireFacts ==
  ASSUME NEW S, NEW v \in Seq(S), NEW w \in Seq(S), NEW l \in S
  PROVE  /\ OnWire(v \o w) \subseteq OnWire(v) \cup OnWire(w)
         /\ OnWire(Append(v, l)) \subseteq OnWire(v) \cup {l}
         /\ \A n \in 0 .. Len(v) : OnWire(SubSeq(v, 1, n)) \subseteq OnWire(v)
         /\ \A n \in 0 .. Len(v) : OnWire(SubSeq(v, n + 1, Len(v))) \subseteq OnWire(v)
         /\ v # << >> => OnWire(Tail(v)) \subseteq OnWire(v)
         /\ OnWire(<<l>>) = {l}
         /\ OnWire(<< >>) = {}
<1>1. OnWire(v \o w) \subseteq OnWire(v) \cup OnWire(w)
  <2> SUFFICES ASSUME NEW i \in DOMAIN (v \o w)
               PROVE  (v \o w)[i] \in OnWire(v) \cup OnWire(w)
    BY DEF OnWire
  <2>1. /\ DOMAIN (v \o w) = 1 .. (Len(v) + Len(w)) /\ DOMAIN v = 1 .. Len(v) /\ DOMAIN w = 1 .. Len(w)
        /\ Len(v) \in Nat /\ Len(w) \in Nat
    OBVIOUS
  <2>2. CASE i <= Len(v)
    <3>1. i \in DOMAIN v /\ (v \o w)[i] = v[i] BY <2>1, <2>2
    <3> QED BY <3>1 DEF OnWire
  <2>3. CASE ~(i <= Len(v))
    <3>1. i - Len(v) \in DOMAIN w /\ (v \o w)[i] = w[i - Len(v)] BY <2>1, <2>3
    <3> QED BY <3>1 DEF OnWire
  <2> QED BY <2>2, <2>3
<1>2. OnWire(Append(v, l)) \subseteq OnWire(v) \cup {l}
  <2> SUFFICES ASSUME NEW i \in DOMAIN Append(v, l)
               PROVE  Append(v, l)[i] \in OnWire(v) \cup {l}
    BY DEF OnWire
  <2>1. (i \in DOMAIN v /\ Append(v, l)[i] = v[i]) \/ Append(v, l)[i] = l OBVIOUS
  <2> QED BY <2>1 DEF OnWire
<1>3. ASSUME NEW n \in 0 .. Len(v)
      PROVE  OnWire(SubSeq(v, 1, n)) \subseteq OnWire(v) /\ OnWire(SubSeq(v, n + 1, Len(v))) \subseteq OnWire(v)
  <2>1. /\ \A i \in DOMAIN SubSeq(v, 1, n) : i \in DOMAIN v /\ SubSeq(v, 1, n)[i] = v[i]
        /\ \A i \in DOMAIN SubSeq(v, n + 1, Len(v)) :
              i + n \in DOMAIN v /\ SubSeq(v, n + 1, Len(v))[i] = v[i + n]
    OBVIOUS
  <2> QED BY <2>1 DEF OnWire
<1>4. ASSUME v # << >> PROVE OnWire(Tail(v)) \subseteq OnWire(v)
  <2>1. \A i \in DOMAIN Tail(v) : i + 1 \in DOMAIN v /\ Tail(v)[i] = v[i + 1] BY <1>4
  <2> QED BY <2>1 DEF OnWire
<1>5. OnWire(<<l>>) = {l} /\ OnWire(<< >>) = {}
  <2>1. DOMAIN <<l>> = {1} /\ <<l>>[1] = l /\ DOMAIN << >> = {} OBVIOUS
  <2> QED BY <2>1 DEF OnWire
<1> QED BY <1>1, <1>2, <1>3, <1>4, <1>5

LEMMA TwoOnWire ==
  ASSUME NEW k, NEW l
  PROVE  OnWire(<<k, l>>) = {k, l}
<1>1. DOMAIN <<k, l>> = {1, 2} /\ <<k, l>>[1] = k /\ <<k, l>>[2] = l OBVIOUS
<1> QED BY <1>1 DEF OnWire

----
(* Snapshots, lines and baselines name Turns that there are. *)

LEMMA MoreTurns ==
  ASSUME TypeInv, TypeInv', Len(turns) <= Len(turns')
  PROVE  /\ Len(turns) \in Nat /\ Len(turns') \in Nat
         /\ \A t \in MaybeNumber : t <= Len(turns) => t <= Len(turns')
         /\ \A l \in Lines : Known(l) => l.turn <= Len(turns') /\ \A t \in DOMAIN l.view : t <= Len(turns')
         /\ \A view \in View : Exist(DOMAIN view) => \A t \in DOMAIN view : t <= Len(turns')
<1>1. Len(turns) \in Nat /\ Len(turns') \in Nat BY DEF TypeInv, TypeOK, ServerTypeOK
<1>2. \A t \in MaybeNumber : t <= Len(turns) => t <= Len(turns') BY <1>1, ConstantsAssumption DEF MaybeNumber
<1>3. Numbers \subseteq MaybeNumber BY ConstantsAssumption DEF MaybeNumber, Numbers
<1>4. \A view \in View : Exist(DOMAIN view) => \A t \in DOMAIN view : t <= Len(turns')
  BY <1>2, <1>3, ViewElements DEF Exist
<1>5. \A l \in Lines : l.turn \in MaybeNumber /\ l.view \in View BY DEF Lines
<1> QED BY <1>1, <1>2, <1>4, <1>5 DEF Known

\* Zero and the empty snapshot name none.
LEMMA KnownFacts ==
  ASSUME TypeInv
  PROVE  /\ Known(NoReply) /\ Known(Refused)
         /\ \A kind : Known(Line(kind))
         /\ Exist(DOMAIN NoTurns) /\ 0 <= Len(turns)
         /\ Exist(DOMAIN turns)
         /\ \A v, w : Exist(DOMAIN v) /\ Exist(DOMAIN w) => Exist(DOMAIN Merge(v, w))
<1>1. turns \in Seq(Turn) /\ Len(turns) \in Nat /\ DOMAIN turns = 1 .. Len(turns)
  BY DEF TypeInv, TypeOK, ServerTypeOK
<1>2. Exist(DOMAIN NoTurns) /\ 0 <= Len(turns) /\ Exist(DOMAIN turns) BY <1>1, NoOpMeans DEF Exist
<1>3. \A kind : Line(kind).turn = 0 /\ Line(kind).view = NoTurns BY DEF Line
<1>4. Refused.turn = 0 /\ Refused.view = NoTurns BY DEF Refused, Reply, Line
<1>5. ASSUME NEW v, NEW w, Exist(DOMAIN v), Exist(DOMAIN w)
      PROVE  Exist(DOMAIN Merge(v, w))
  <2>1. DOMAIN Merge(v, w) = DOMAIN v \cup DOMAIN w BY DEF Merge
  <2> QED BY <1>5, <2>1 DEF Exist
<1> QED BY <1>2, <1>3, <1>4, <1>5, NoOpMeans DEF Known

LEMMA CacheStays ==
  ASSUME TypeInv, TypeInv', CacheKnown, Len(turns) <= Len(turns'), UNCHANGED cache
  PROVE  CacheKnown'
BY MoreTurns, TypedParts DEF CacheKnown, Exist

LEMMA BaselineStays ==
  ASSUME TypeInv, TypeInv', BaselineKnown, Len(turns) <= Len(turns'), uTurn' \in {uTurn, NoUncertainTurn}
  PROVE  BaselineKnown'
<1>1. uTurn.base \in MaybeNumber /\ Len(turns') \in Nat BY MoreTurns, TypedParts DEF SessionTypeOK
<1> QED BY <1>1, MoreTurns, NoOpMeans DEF BaselineKnown

\* The holder of the lock learns nothing.
LearnsNothing ==
  /\ op'.view = op.view \/ op'.view = NoTurns
  /\ op'.base = op.base \/ op'.base = 0
  /\ op'.reply = op.reply \/ op'.reply = NoReply \/ op'.reply = Refused

LEMMA HolderStays ==
  ASSUME TypeInv, TypeInv', HolderKnown, Len(turns) <= Len(turns'), LearnsNothing
  PROVE  HolderKnown'
<1>1. op.view \in View /\ op.base \in MaybeNumber /\ op.reply \in Lines BY TypedParts DEF Operations
<1>2. Exist(DOMAIN op.view) /\ op.base <= Len(turns) /\ Known(op.reply) BY DEF HolderKnown
<1>3. /\ Len(turns') \in Nat
      /\ op.base <= Len(turns')
      /\ op.reply.turn <= Len(turns') /\ \A t \in DOMAIN op.reply.view : t <= Len(turns')
      /\ \A t \in DOMAIN op.view : t <= Len(turns')
  BY <1>1, <1>2, MoreTurns
<1>4. /\ NoReply.turn = 0 /\ NoReply.view = NoTurns /\ Refused.turn = 0 /\ Refused.view = NoTurns
      /\ DOMAIN NoTurns = {}
  BY NoOpMeans DEF Refused, Reply, Line
<1>5. op'.base <= Len(turns') BY <1>3 DEF LearnsNothing
<1>6. \A t \in DOMAIN op'.view : t <= Len(turns') BY <1>3, <1>4 DEF LearnsNothing
<1>7. op'.reply.turn <= Len(turns') /\ \A t \in DOMAIN op'.reply.view : t <= Len(turns')
  BY <1>3, <1>4 DEF LearnsNothing
<1> QED BY <1>5, <1>6, <1>7 DEF HolderKnown, Known, Exist

\* A line on the wire was there, or names Turns that there are now.
LEMMA WireStays ==
  ASSUME TypeInv, TypeInv', WireKnown, Len(turns) <= Len(turns'),
         \A l \in OnWire(wire') :
            \/ l \in OnWire(wire)
            \/ l.turn <= Len(turns') /\ \A t \in DOMAIN l.view : t <= Len(turns')
  PROVE  WireKnown'
<1>1. \A l \in OnWire(wire) : l \in Lines /\ Known(l) BY DEF OnWire, WireKnown, TypeInv, TypeOK, TransportTypeOK
<1>2. \A l \in OnWire(wire') : l.turn <= Len(turns') /\ \A t \in DOMAIN l.view : t <= Len(turns')
  BY <1>1, MoreTurns
<1> QED BY <1>2 DEF OnWire, WireKnown, Known, Exist

----
(* A resolution reads what the App Server has. *)

\* Shows, of the Turns there will be.
ShowsNext(view) == \A t \in DOMAIN turns' : \A m \in TimelyMsgs(t)' : Contains(view, t, m)

LEMMA NoResolution ==
  ASSUME op'.kind # "resolve"
  PROVE  ResolvesByTheTruth'
BY DEF ResolvesByTheTruth

LEMMA ResolutionStays ==
  ASSUME ResolvesByTheTruth, SameMessages, Sends(req') => Sends(req),
         op'.kind = op.kind, op'.phase = op.phase, op'.reply = op.reply,
         \A l \in OnWire(wire') : l.kind = "reply" /\ l.ok => l \in OnWire(wire)
  PROVE  ResolvesByTheTruth'
<1> SUFFICES ASSUME op.kind = "resolve"
             PROVE  /\ (op'.reply = NoReply \/ op'.reply.ok) => ~Sends(req')
                    /\ op.phase = "read" =>
                        /\ op'.reply # NoReply /\ op'.reply.ok => ShowsNext(op'.reply.view)
                        /\ \A i \in DOMAIN wire' : wire'[i].kind = "reply" /\ wire'[i].ok => ShowsNext(wire'[i].view)
  BY DEF ResolvesByTheTruth, Sends, Shows, ShowsNext
<1>1. \A view : Shows(view) => ShowsNext(view) BY DEF Shows, ShowsNext, SameMessages
<1>2. (op'.reply = NoReply \/ op'.reply.ok) => ~Sends(req') BY DEF ResolvesByTheTruth
<1>3. ASSUME op.phase = "read", op'.reply # NoReply, op'.reply.ok PROVE ShowsNext(op'.reply.view)
  BY <1>1, <1>3 DEF ResolvesByTheTruth
<1>4. ASSUME op.phase = "read", NEW i \in DOMAIN wire', wire'[i].kind = "reply", wire'[i].ok
      PROVE  ShowsNext(wire'[i].view)
  <2>1. PICK j \in DOMAIN wire : wire'[i] = wire[j] BY <1>4 DEF OnWire
  <2>2. Shows(wire[j].view) BY <1>4, <2>1 DEF ResolvesByTheTruth
  <2> QED BY <1>1, <2>1, <2>2
<1> QED BY <1>2, <1>3, <1>4

----
(* One lemma per action. *)

LEMMA AskMeans ==
  ASSUME NEW o \in Operations, NEW phase \in Awaits, NEW m, NEW t, Ask(o, phase, m, t)
  PROVE  /\ op'.kind = o.kind /\ op'.phase = phase /\ op'.msg = o.msg /\ op'.turn = o.turn
         /\ op'.base = o.base /\ op'.view = o.view
         /\ \/ /\ op'.reply = NoReply
               /\ req'.kind = (IF phase = "mutate" THEN o.kind ELSE phase)
               /\ req'.msg = m /\ req'.turn = t
            \/ op'.reply = Refused /\ req' = req
<1>1. CASE link = "up"
  <2>1. /\ op' = [o EXCEPT !.phase = phase, !.reply = NoReply]
        /\ req' = Request(IF phase = "mutate" THEN o.kind ELSE phase, m, t)
    BY <1>1 DEF Ask
  <2>2. /\ op'.kind = o.kind /\ op'.phase = phase /\ op'.msg = o.msg /\ op'.turn = o.turn
        /\ op'.base = o.base /\ op'.view = o.view /\ op'.reply = NoReply
    BY <2>1 DEF Operations
  <2>3. req'.kind = (IF phase = "mutate" THEN o.kind ELSE phase) /\ req'.msg = m /\ req'.turn = t
    BY <2>1 DEF Request, NoReq
  <2> QED BY <2>2, <2>3
<1>2. CASE link # "up"
  <2>1. op' = [o EXCEPT !.phase = phase, !.reply = Refused] /\ req' = req BY <1>2 DEF Ask
  <2> QED BY <2>1 DEF Operations
<1> QED BY <1>1, <1>2

LEMMA ReadsSendNothing ==
  ASSUME NEW o \in Operations, NEW phase \in {"resume", "read"}, NEW m, NEW t, Ask(o, phase, m, t)
  PROVE  /\ SameRequest
         /\ Sends(req') => Sends(req)
         /\ o.view \in {op.view, NoTurns} /\ o.base \in {op.base, 0} => LearnsNothing
<1>1. /\ op'.base = o.base /\ op'.view = o.view /\ op'.reply \in {NoReply, Refused}
      /\ req' = req \/ req'.kind = phase
  BY AskMeans DEF Awaits
<1> QED BY <1>1 DEF SameRequest, Sends, LearnsNothing

\* Most steps say nothing new: neither the holder of the lock nor the snapshot
\* learns, and what is on the wire was on it.
LEMMA NothingNew ==
  ASSUME TypeInv, TypeInv', KnownTurns, ResolvesByTheTruth, SameMessages,
         UNCHANGED <<cache, op>>, uTurn' \in {uTurn, NoUncertainTurn}, Sends(req') => Sends(req),
         OnWire(wire') \subseteq OnWire(wire)
  PROVE  KnownTurns' /\ ResolvesByTheTruth'
<1>2. Len(turns) <= Len(turns') BY DEF TypeInv, TypeOK, ServerTypeOK, SameMessages
<1>3. CacheKnown' /\ BaselineKnown' /\ WireKnown' BY <1>2, CacheStays, BaselineStays, WireStays DEF KnownTurns
<1>4. HolderKnown' BY <1>2, HolderStays DEF KnownTurns, LearnsNothing
<1>5. ResolvesByTheTruth' BY ResolutionStays
<1> QED BY <1>3, <1>4, <1>5 DEF KnownTurns

\* The operation goes on without news, and is no resolution.
LEMMA NothingLearnt ==
  ASSUME TypeInv, TypeInv', KnownTurns, LearnsNothing, op'.kind # "resolve",
         UNCHANGED <<turns, lateMsgs, cache, wire>>, uTurn' \in {uTurn, NoUncertainTurn}
  PROVE  KnownTurns' /\ ResolvesByTheTruth'
<1>1. Len(turns) \in Nat /\ Len(turns) <= Len(turns') BY DEF TypeInv, TypeOK, ServerTypeOK
<1>2. CacheKnown' /\ BaselineKnown' /\ WireKnown' /\ HolderKnown'
  BY <1>1, CacheStays, BaselineStays, WireStays, HolderStays DEF KnownTurns
<1> QED BY <1>2, NoResolution DEF KnownTurns

LEMMA StaysFacts ==
  /\ UNCHANGED <<turns, lateMsgs>> => SameMessages
  /\ UNCHANGED req => SameRequest
  /\ req' = NoReq => SameRequest /\ ~Sends(req')
  /\ UNCHANGED <<waiting, submitted, verdict, uTurn, uSteer>> => LessIsKnown
  /\ UNCHANGED <<op, uSteer>> => GoesOn
  /\ op' = NoOp => GoesOn /\ LearnsNothing /\ op'.kind # "resolve"
<1>1. UNCHANGED <<turns, lateMsgs>> => SameMessages BY DEF SameMessages, TimelyMsgs
<1>2. UNCHANGED req => SameRequest BY DEF SameRequest
<1>3. req' = NoReq => SameRequest /\ ~Sends(req') BY NoOpMeans DEF SameRequest, Sends
<1>4. UNCHANGED <<waiting, submitted, verdict, uTurn, uSteer>> => LessIsKnown BY DEF LessIsKnown
<1>5. UNCHANGED <<op, uSteer>> => GoesOn BY DEF GoesOn
<1>6. op' = NoOp => GoesOn /\ LearnsNothing /\ op'.kind # "resolve" BY NoOpMeans DEF GoesOn, LearnsNothing
<1> QED BY <1>1, <1>2, <1>3, <1>4, <1>5, <1>6

LEMMA AcceptTells ==
  ASSUME TypeInv, TypeInv', MessageInvariant, NEW m \in Msgs, AcceptStart(m) \/ AcceptScheduled(m) \/ AcceptSteer(m)
  PROVE  MessageInvariant'
<1>1. Whereabouts' BY AcceptedMessage DEF MessageInvariant
<1>2. UNCHANGED <<turns, lateMsgs, cache, op, uTurn, req, wire>>
  BY DEF AcceptStart, AcceptScheduled, AcceptSteer, Accept, server, transport
<1> QED BY <1>1, <1>2, StaysFacts, NothingNew DEF MessageInvariant

\* A step that leaves the server, the lock's holder and the wire alone.
LEMMA QuietTells ==
  ASSUME TypeInv, TypeInv', MessageInvariant, SameMessages, SameRequest, LessIsKnown,
         UNCHANGED <<op, cache, uSteer>>, OnWire(wire') \subseteq OnWire(wire)
  PROVE  MessageInvariant'
<1>1. Whereabouts' BY StaysFacts, MessageStays DEF MessageInvariant
<1>2. Sends(req') => Sends(req) BY DEF SameRequest, Sends
<1>3. uTurn' \in {uTurn, NoUncertainTurn} BY DEF LessIsKnown
<1> QED BY <1>1, <1>2, <1>3, NothingNew DEF MessageInvariant

LEMMA AcceptResolveTells ==
  ASSUME TypeInv, TypeInv', MessageInvariant, AcceptResolve
  PROVE  MessageInvariant'
<1>1. /\ UNCHANGED <<turns, lateMsgs, req, wire, op, cache, uTurn, uSteer, submitted, verdict>>
      /\ waiting' = waiting \cup {Resolution}
  BY DEF AcceptResolve, server, transport, history
<1>2. Resolution.kind = "resolve" BY DEF Resolution
<1>3. LessIsKnown BY <1>1, <1>2 DEF LessIsKnown
<1> QED BY <1>1, <1>3, StaysFacts, QuietTells

\* A call that is turned away leaves nothing behind.
LEMMA TurnedAwayTells ==
  ASSUME TypeInv, TypeInv', MessageInvariant, waiting' \subseteq waiting,
         UNCHANGED <<turns, lateMsgs, req, wire, op, cache, uTurn, uSteer, submitted, verdict>>
  PROVE  MessageInvariant'
<1>1. LessIsKnown BY DEF LessIsKnown
<1> QED BY <1>1, StaysFacts, QuietTells

LEMMA BeginStartTells ==
  ASSUME TypeInv, TypeInv', MessageInvariant, NEW m \in waiting, BeginStart(m) \/ BeginScheduled(m)
  PROVE  MessageInvariant'
<1>1. PICK kind \in {"start", "scheduled"} :
        /\ LockFree /\ m.kind = kind /\ waiting' = waiting \ {m}
        /\ \/ UNCHANGED <<op, req>>
           \/ Ask([Operation(kind, "resume") EXCEPT !.msg = m.msg], "resume", NoMsg, 0)
           \/ op' = [Operation(kind, "ready") EXCEPT !.msg = m.msg] /\ UNCHANGED req
  BY DEF BeginStart, BeginScheduled, Take
<1>2. UNCHANGED <<turns, lateMsgs, wire, cache, uTurn, uSteer, submitted, verdict>>
  BY DEF BeginStart, BeginScheduled, transport, history
<1>3. m.msg \in Msgs /\ m.msg \in MaybeMsg BY <1>1, Constants DEF TypeInv, MessagesInFlight
<1>4. op.kind = "none" BY <1>1 DEF LockFree
<1>5. CASE UNCHANGED <<op, req>> BY <1>1, <1>2, <1>5, TurnedAwayTells
<1>6. ASSUME SameRequest, op'.kind = kind, op'.phase \notin {"mutate", "settle"}, op'.msg = m.msg, LearnsNothing
      PROVE  MessageInvariant'
  <2>1. Whereabouts' BY <1>1, <1>2, <1>4, <1>6, TakenMessage DEF MessageInvariant
  <2>2. KnownTurns' /\ ResolvesByTheTruth' BY <1>1, <1>2, <1>6, NothingLearnt DEF MessageInvariant
  <2> QED BY <2>1, <2>2 DEF MessageInvariant
<1>7. CASE Ask([Operation(kind, "resume") EXCEPT !.msg = m.msg], "resume", NoMsg, 0)
  <2> DEFINE o == [Operation(kind, "resume") EXCEPT !.msg = m.msg]
  <2>1. o \in Operations BY <1>3, OperationTypes DEF Operations
  <2>2. o.kind = kind /\ o.msg = m.msg /\ o.view = NoTurns /\ o.base = 0 BY DEF Operation, NoOp
  <2> HIDE DEF o
  <2>3. op'.kind = kind /\ op'.phase = "resume" /\ op'.msg = m.msg BY <1>7, <2>1, <2>2, AskMeans DEF Awaits, o
  <2>4. SameRequest /\ LearnsNothing BY <1>7, <2>1, <2>2, ReadsSendNothing DEF o
  <2> QED BY <1>6, <2>3, <2>4
<1>8. CASE op' = [Operation(kind, "ready") EXCEPT !.msg = m.msg] /\ UNCHANGED req
  <2>1. op'.kind = kind /\ op'.phase = "ready" /\ op'.msg = m.msg /\ op'.view = NoTurns /\ op'.base = 0 /\ op'.reply = NoReply
    BY <1>8 DEF Operation, NoOp
  <2> QED BY <1>6, <1>8, <2>1, StaysFacts DEF LearnsNothing
<1> QED BY <1>1, <1>5, <1>7, <1>8

LEMMA BeginSteerTells ==
  ASSUME TypeInv, TypeInv', MessageInvariant, NEW m \in waiting, BeginSteer(m)
  PROVE  MessageInvariant'
<1>1. /\ LockFree /\ m.kind = "steer" /\ waiting' = waiting \ {m}
      /\ UNCHANGED <<turns, lateMsgs, req, wire, cache, uTurn, uSteer, submitted, verdict>>
      /\ \/ op' = op
         \/ op' = [Operation("steer", "ready") EXCEPT !.msg = m.msg, !.turn = m.turn]
  BY DEF BeginSteer, Take, server, transport, history
<1>2. CASE op' = op BY <1>1, <1>2, TurnedAwayTells
<1>3. CASE op' = [Operation("steer", "ready") EXCEPT !.msg = m.msg, !.turn = m.turn]
  <2>1. /\ op'.kind = "steer" /\ op'.phase = "ready" /\ op'.msg = m.msg /\ op'.turn = m.turn
        /\ op'.view = NoTurns /\ op'.base = 0 /\ op'.reply = NoReply
    BY <1>3 DEF Operation, NoOp
  <2>2. m.turn # 0 /\ op.kind = "none" BY <1>1 DEF MessageInvariant, Whereabouts, SteersNameTurns, LockFree
  <2>3. Whereabouts' BY <1>1, <2>1, <2>2, StaysFacts, TakenMessage DEF MessageInvariant
  <2>4. KnownTurns' /\ ResolvesByTheTruth' BY <1>1, <2>1, NothingLearnt DEF MessageInvariant, LearnsNothing
  <2> QED BY <2>3, <2>4 DEF MessageInvariant
<1> QED BY <1>1, <1>2, <1>3

LEMMA BeginReadTells ==
  ASSUME TypeInv, TypeInv', MessageInvariant, BeginRead \/ BeginReconcile
  PROVE  MessageInvariant'
<1>1. PICK kind \in {"read", "reconcile"} : Ask(Operation(kind, "resume"), "resume", NoMsg, 0)
  BY DEF BeginRead, BeginReconcile
<1>2. UNCHANGED <<turns, lateMsgs, wire, cache, uTurn, uSteer, submitted, verdict, waiting>>
  BY DEF BeginRead, BeginReconcile, transport, history
<1>3. Operation(kind, "resume") \in Operations BY OperationTypes
<1>4. /\ Operation(kind, "resume").kind = kind /\ Operation(kind, "resume").view = NoTurns
      /\ Operation(kind, "resume").base = 0
  BY DEF Operation, NoOp
<1>5. op'.kind = kind /\ op'.phase = "resume" /\ SameRequest /\ LearnsNothing
  BY <1>1, <1>3, <1>4, AskMeans, ReadsSendNothing DEF Awaits
<1>6. GoesOn BY <1>5 DEF GoesOn
<1>7. Whereabouts' BY <1>2, <1>5, <1>6, StaysFacts, MessageStays DEF MessageInvariant
<1>8. KnownTurns' /\ ResolvesByTheTruth' BY <1>2, <1>5, NothingLearnt DEF MessageInvariant
<1> QED BY <1>7, <1>8 DEF MessageInvariant

LEMMA BeginResolveTells ==
  ASSUME TypeInv, TypeInv', MessageInvariant, BeginResolve
  PROVE  MessageInvariant'
<1>1. /\ LockFree /\ waiting' \subseteq waiting
      /\ UNCHANGED <<turns, lateMsgs, wire, cache, uTurn, uSteer, submitted, verdict>>
  BY DEF BeginResolve, Take, transport, history
<1>2. CASE UNCHANGED <<op, req>> BY <1>1, <1>2, TurnedAwayTells
<1> DEFINE o == [Operation("resolve", "read") EXCEPT !.msg = uSteer.msg, !.turn = uSteer.turn, !.base = uTurn.base]
<1>3. CASE Ask(o, "read", NoMsg, 0)
  <2>1. o \in Operations BY OperationTypes, TypedParts DEF Operations, SessionTypeOK
  <2>2. o.kind = "resolve" /\ o.msg = uSteer.msg /\ o.turn = uSteer.turn /\ o.base = uTurn.base /\ o.view = NoTurns
    BY DEF Operation, NoOp
  <2> HIDE DEF o
  <2>3. /\ op'.kind = "resolve" /\ op'.phase = "read" /\ op'.msg = uSteer.msg /\ op'.turn = uSteer.turn
        /\ op'.base = uTurn.base /\ op'.view = NoTurns /\ op'.reply \in {NoReply, Refused}
        /\ op'.reply = NoReply => req'.kind = "read"
    <3>1. Refused # NoReply BY DEF Refused, NoReply, Reply, Line
    <3> QED BY <1>3, <2>1, <2>2, <3>1, AskMeans DEF Awaits
  <2>4. SameRequest BY <1>3, <2>1, ReadsSendNothing
  <2>5. Whereabouts' BY <1>1, <2>3, <2>4, TakenResolution DEF MessageInvariant, LockFree
  <2>6. Len(turns) \in Nat /\ Len(turns) <= Len(turns') BY <1>1 DEF TypeInv, TypeOK, ServerTypeOK
  <2>7. CacheKnown' /\ BaselineKnown' /\ WireKnown'
    BY <1>1, <2>6, CacheStays, BaselineStays, WireStays DEF MessageInvariant, KnownTurns
  <2>8. HolderKnown'
    <3>1. Known(NoReply) /\ Known(Refused) /\ Exist(DOMAIN NoTurns) BY KnownFacts
    <3> QED BY <1>1, <2>3, <3>1 DEF MessageInvariant, KnownTurns, HolderKnown, BaselineKnown, Known, Exist
  <2>9. ResolvesByTheTruth'
    <3>1. ~Refused.ok /\ Refused # NoReply BY DEF Refused, NoReply, Reply, Line
    <3>2. NoReplies(wire) BY <1>1, LockFreeMeans, NoneAwaitedMeans
    <3>3. NoReplies(wire') BY <1>1, <3>2
    <3> QED BY <2>3, <3>1, <3>3 DEF ResolvesByTheTruth, NoReplies, Sends
  <2> QED BY <2>5, <2>7, <2>8, <2>9 DEF MessageInvariant, KnownTurns
<1> QED BY <1>2, <1>3 DEF BeginResolve

\* An operation that is no resolution goes on, or ends.
LEMMA OperationTells ==
  ASSUME TypeInv, TypeInv', MessageInvariant, GoesOn, LessIsKnown, SameRequest,
         CacheKnown', HolderKnown', op'.kind # "resolve", UNCHANGED <<turns, lateMsgs, wire>>
  PROVE  MessageInvariant'
<1>1. Whereabouts' BY StaysFacts, MessageStays DEF MessageInvariant
<1>2. Len(turns) \in Nat /\ Len(turns) <= Len(turns') BY DEF TypeInv, TypeOK, ServerTypeOK
<1>3. BaselineKnown' /\ WireKnown'
  BY <1>2, BaselineStays, WireStays DEF MessageInvariant, KnownTurns, LessIsKnown
<1> QED BY <1>1, <1>3, NoResolution DEF MessageInvariant, KnownTurns

LEMMA StillKnown ==
  ASSUME TypeInv, TypeInv', MessageInvariant, UNCHANGED turns
  PROVE  /\ UNCHANGED cache => CacheKnown'
         /\ LearnsNothing => HolderKnown'
         /\ Exist(DOMAIN cache') => CacheKnown'
         /\ Exist(DOMAIN cache) /\ Exist(DOMAIN op.view) /\ Exist(DOMAIN op.reply.view)
<1>1. Len(turns) \in Nat /\ Len(turns) <= Len(turns') BY DEF TypeInv, TypeOK, ServerTypeOK
<1>2. Exist(DOMAIN cache) /\ Exist(DOMAIN op.view) /\ Exist(DOMAIN op.reply.view)
  BY DEF MessageInvariant, KnownTurns, CacheKnown, HolderKnown, Known
<1>3. Exist(DOMAIN cache') => CacheKnown' BY DEF CacheKnown, Exist
<1>4. LearnsNothing => HolderKnown' BY <1>1, HolderStays DEF MessageInvariant, KnownTurns
<1> QED BY <1>2, <1>3, <1>4

LEMMA TellMeans ==
  ASSUME TypeInv, NEW published, verdict' = TellApplied(published)
  PROVE  \A m \in Msgs : verdict'[m] = "notApplied" => verdict[m] = "notApplied"
BY DEF TellApplied

\* Nothing awaits but an operation with a kind; only a resolution settles.
LEMMA PhaseMeans ==
  ASSUME TypeInv, MessageInvariant
  PROVE  /\ op.phase \in {"resume", "delay", "ready"} => op.kind \notin {"none", "resolve"}
         /\ op.phase \in {"read", "mutate"} => op.kind # "none"
         /\ op.phase = "mutate" => op.kind # "resolve"
BY DEF TypeInv, MessagesInFlight, MessageInvariant, Whereabouts, ResolvesWhatItFound

LEMMA ResumedTells ==
  ASSUME TypeInv, TypeInv', MessageInvariant, Resumed
  PROVE  MessageInvariant'
<1>1. /\ op.phase = "resume" /\ op.kind \notin {"none", "resolve"}
      /\ UNCHANGED <<turns, lateMsgs, wire, uTurn, uSteer, submitted, waiting, verdict>>
  BY PhaseMeans DEF Resumed, Settled, transport, history
<1>2. SameMessages /\ LessIsKnown BY <1>1, StaysFacts
<1>3. CASE op' = NoOp /\ UNCHANGED <<req, cache>> BY <1>1, <1>2, <1>3, StaysFacts, StillKnown, OperationTells
<1>4. CASE /\ cache' = Merge(op.reply.view, cache)
           /\ \/ op' = [op EXCEPT !.phase = "ready", !.reply = NoReply] /\ UNCHANGED req
              \/ Ask(op, "read", NoMsg, 0)
  <2>1. CacheKnown' BY <1>1, <1>4, StillKnown, KnownFacts
  <2>2. /\ op'.kind = op.kind /\ op'.phase \in {"ready", "read"} /\ op'.msg = op.msg /\ op'.turn = op.turn
        /\ SameRequest /\ LearnsNothing
    <3>1. CASE op' = [op EXCEPT !.phase = "ready", !.reply = NoReply] /\ UNCHANGED req
      <4>1. /\ op'.kind = op.kind /\ op'.phase = "ready" /\ op'.msg = op.msg /\ op'.turn = op.turn
            /\ op'.view = op.view /\ op'.base = op.base /\ op'.reply = NoReply
        BY <3>1, TypedParts DEF Operations
      <4> QED BY <3>1, <4>1, StaysFacts DEF LearnsNothing
    <3>2. CASE Ask(op, "read", NoMsg, 0) BY <3>2, TypedParts, AskMeans, ReadsSendNothing DEF Awaits
    <3> QED BY <1>4, <3>1, <3>2
  <2>3. GoesOn BY <1>1, <2>2 DEF GoesOn
  <2> QED BY <1>1, <1>2, <2>1, <2>2, <2>3, StillKnown, OperationTells
<1> QED BY <1>3, <1>4 DEF Resumed, Release

LEMMA DelayOverTells ==
  ASSUME TypeInv, TypeInv', MessageInvariant, DelayOver
  PROVE  MessageInvariant'
<1>1. /\ op.kind \notin {"none", "resolve"} /\ op.phase = "delay" /\ Ask(op, "read", NoMsg, 0)
      /\ UNCHANGED <<turns, lateMsgs, wire, cache, uTurn, uSteer, submitted, waiting, verdict>>
  BY PhaseMeans DEF DelayOver, transport, history
<1>2. /\ op'.kind = op.kind /\ op'.phase = "read" /\ op'.msg = op.msg /\ op'.turn = op.turn
      /\ SameRequest /\ LearnsNothing
  BY <1>1, TypedParts, AskMeans, ReadsSendNothing DEF Awaits
<1>3. GoesOn BY <1>1, <1>2 DEF GoesOn
<1> QED BY <1>1, <1>2, <1>3, StaysFacts, StillKnown, OperationTells

\* A scheduled prompt goes on as a start, or the operation ends.
LEMMA ProceedMeans ==
  ASSUME TypeInv, op.kind \notin {"none", "resolve"}, op.phase \notin {"mutate", "settle"},
         \/ Release(op.kind)
         \/ op.kind = "scheduled" /\ op' = [Operation("start", "ready") EXCEPT !.msg = op.msg]
  PROVE  GoesOn /\ LearnsNothing /\ op'.kind # "resolve"
<1>1. CASE Release(op.kind) BY <1>1, StaysFacts DEF Release
<1>2. CASE op.kind = "scheduled" /\ op' = [Operation("start", "ready") EXCEPT !.msg = op.msg]
  <2>1. /\ op'.kind = "start" /\ op'.phase = "ready" /\ op'.msg = op.msg
        /\ op'.view = NoTurns /\ op'.base = 0 /\ op'.reply = NoReply
    BY <1>2 DEF Operation, NoOp
  <2> QED BY <1>2, <2>1 DEF GoesOn, LearnsNothing
<1> QED BY <1>1, <1>2

LEMMA DelayFields ==
  ASSUME NEW o \in Operations, NEW view \in View, NEW n
  PROVE  LET p == [o EXCEPT !.phase = "delay", !.reply = NoReply, !.tries = n, !.view = view]
         IN  /\ p.phase = "delay" /\ p.reply = NoReply /\ p.view = view
             /\ p.kind = o.kind /\ p.msg = o.msg /\ p.turn = o.turn /\ p.base = o.base
BY DEF Operations

LEMMA RetryMeans ==
  ASSUME TypeInv, TypeInv', MessageInvariant, UNCHANGED turns,
         op.kind \notin {"none", "resolve"}, op.phase = "read", NEW view \in View, Exist(DOMAIN view), Retry(view)
  PROVE  GoesOn /\ HolderKnown' /\ op'.kind # "resolve"
<1>1. CASE Proceed(reg', uTurn') BY <1>1, ProceedMeans, StillKnown DEF Proceed
<1>2. CASE op' = [op EXCEPT !.phase = "delay", !.reply = NoReply, !.tries = @ + 1, !.view = view]
  <2>1. /\ op'.phase = "delay" /\ op'.reply = NoReply /\ op'.view = view
        /\ op'.kind = op.kind /\ op'.msg = op.msg /\ op'.turn = op.turn /\ op'.base = op.base
    BY <1>2, TypedParts, DelayFields
  <2>2. GoesOn BY <2>1 DEF GoesOn
  <2>3. Known(NoReply) /\ op.base <= Len(turns) BY KnownFacts DEF MessageInvariant, KnownTurns, HolderKnown
  <2>4. HolderKnown' BY <2>1, <2>3 DEF HolderKnown, Known, Exist
  <2> QED BY <2>1, <2>2, <2>4
<1> QED BY <1>1, <1>2 DEF Retry

LEMMA ReconcileRuntimeTells ==
  ASSUME TypeInv, TypeInv', MessageInvariant, op.kind \notin {"none", "resolve"}, op.phase = "read",
         NEW view \in View, Exist(DOMAIN view), ReconcileRuntime(view),
         UNCHANGED <<turns, lateMsgs, req, wire, submitted, waiting>>
  PROVE  MessageInvariant'
<1> DEFINE r == ReconcileSnapshot(reg, view, FALSE)
           applied == uTurn.msg # NoMsg /\ StartApplied(view, uTurn.base)
           steered == IF LiveAt(view, uSteer.turn) THEN uSteer.turn ELSE 0
<1>1. cache' = view BY DEF ReconcileRuntime
<1>2. CacheKnown' BY <1>1, StillKnown
<1>3. ASSUME uTurn' \in {uTurn, NoUncertainTurn}, uSteer' \in {uSteer, NoUncertainSteer},
             \A m \in Msgs : verdict'[m] = "notApplied" => verdict[m] = "notApplied",
             GoesOn, HolderKnown', op'.kind # "resolve"
      PROVE  MessageInvariant'
  <2>1. LessIsKnown BY <1>3 DEF LessIsKnown
  <2> QED BY <1>2, <1>3, <2>1, StaysFacts, OperationTells
<1>4. ASSUME Proceed(reg', uTurn') PROVE GoesOn /\ HolderKnown' /\ op'.kind # "resolve"
  BY <1>4, ProceedMeans, StillKnown DEF Proceed
<1>5. ASSUME Retry(view) PROVE GoesOn /\ HolderKnown' /\ op'.kind # "resolve" BY <1>5, RetryMeans
<1>7. CASE /\ uSteer' = NoUncertainSteer
           /\ verdict' = TellApplied(TRUE)
           /\ UNCHANGED uTurn
           /\ Proceed(reg', uTurn')
  BY <1>3, <1>4, <1>7, TellMeans
<1>8. CASE UNCHANGED <<uSteer, uTurn, verdict>> /\ Retry(view) BY <1>3, <1>5, <1>8
<1>10. CASE /\ uTurn' \in {uTurn, NoUncertainTurn}
            /\ verdict' = TellApplied(r.published \/ (applied /\ r.outcome = "unresolved"))
            /\ UNCHANGED uSteer
            /\ Proceed(reg', uTurn')
  <2> HIDE DEF r, applied
  <2> QED BY <1>3, <1>4, <1>10, TellMeans
<1> QED
  <2> HIDE DEF r, applied, steered
  <2> QED BY <1>7, <1>8, <1>10 DEF ReconcileRuntime, r, applied, steered

LEMMA ReadDoneTells ==
  ASSUME TypeInv, TypeInv', MessageInvariant, ReadDone
  PROVE  MessageInvariant'
<1> DEFINE view == IF op.tries > 0 THEN Merge(op.reply.view, op.view)
                   ELSE IF op.kind = "read" THEN Merge(op.reply.view, cache)
                   ELSE op.reply.view
           conflict == op.kind = "scheduled" /\ op.tries = 0 /\ \E t \in DOMAIN view : LiveAt(view, t)
           reconcile == op.tries > 0 \/ op.kind = "reconcile" \/ reg.state = "disconnected"
<1>1. /\ op.phase = "read" /\ op.kind \notin {"none", "resolve"}
      /\ UNCHANGED <<turns, lateMsgs, req, wire, submitted, waiting>>
  BY PhaseMeans DEF ReadDone, Settled, server, transport
<1>2. view \in View BY TypedParts, MergeType
<1>3. Exist(DOMAIN view) BY <1>1, StillKnown, KnownFacts
<1>4. CASE Release(op.kind) /\ UNCHANGED <<cache, uTurn, uSteer, verdict>>
  BY <1>1, <1>4, ProceedMeans, StaysFacts, StillKnown, OperationTells
<1>5. CASE ReconcileRuntime(view) BY <1>1, <1>2, <1>3, <1>5, ReconcileRuntimeTells
<1>6. CASE /\ cache' \in {view, cache} /\ UNCHANGED <<uTurn, uSteer, verdict>>
           /\ Proceed(reg, uTurn)
  <2>1. CacheKnown' BY <1>1, <1>3, <1>6, StillKnown
  <2>2. GoesOn /\ LearnsNothing /\ op'.kind # "resolve" BY <1>1, <1>6, ProceedMeans DEF Proceed
  <2> QED BY <1>1, <1>6, <2>1, <2>2, StaysFacts, StillKnown, OperationTells
<1> QED
  <2>1. CASE ~op.reply.ok \/ conflict BY <2>1, <1>4 DEF ReadDone
  <2>2. CASE op.reply.ok /\ ~conflict /\ reconcile BY <2>2, <1>5 DEF ReadDone
  <2>3. CASE op.reply.ok /\ ~conflict /\ ~reconcile BY <2>3, <1>6 DEF ReadDone
  <2> QED BY <2>1, <2>2, <2>3

LEMMA RespondedTells ==
  ASSUME TypeInv, TypeInv', MessageInvariant, Responded
  PROVE  MessageInvariant'
<1>1. /\ op.phase = "mutate" /\ op.reply # NoReply /\ op' = NoOp
      /\ UNCHANGED <<turns, lateMsgs, req, wire, uSteer, submitted, waiting, verdict>>
      /\ \/ uTurn' = NoUncertainTurn /\ cache' = Upsert(cache, op.reply.turn, op.reply.rec)
         \/ UNCHANGED <<uTurn, cache>>
  BY DEF Responded, Settled, Release, server, transport, history
<1>2. LessIsKnown BY <1>1 DEF LessIsKnown
<1>3. CacheKnown'
  <2>1. Exist(DOMAIN Upsert(cache, op.reply.turn, op.reply.rec))
    <3>1. op.reply.turn <= Len(turns) /\ Exist(DOMAIN cache)
      BY DEF MessageInvariant, KnownTurns, CacheKnown, HolderKnown, Known
    <3>2. DOMAIN Upsert(cache, op.reply.turn, op.reply.rec) = {op.reply.turn} \cup DOMAIN cache
      BY DEF Upsert, Merge
    <3> QED BY <3>1, <3>2 DEF Exist
  <2> QED BY <1>1, <2>1, StillKnown
<1> QED BY <1>1, <1>2, <1>3, StaysFacts, StillKnown, OperationTells

LEMMA SendTells ==
  ASSUME TypeInv, TypeInv', MessageInvariant, Send
  PROVE  MessageInvariant'
<1> DEFINE base == IF op.kind = "start" THEN LastOf(cache) ELSE op.base
           o == [op EXCEPT !.base = base]
<1>1. /\ op.phase = "ready" /\ op.kind \in {"start", "steer"} /\ Ask(o, "mutate", op.msg, op.turn)
      /\ UNCHANGED <<turns, lateMsgs, wire, cache, uTurn, uSteer, submitted, waiting, verdict>>
  BY DEF Send, transport, history, TypeInv, MessagesInFlight
<1>2. base \in MaybeNumber /\ base <= Len(turns)
  <2>1. op.base \in MaybeNumber /\ op.base <= Len(turns)
    BY TypedParts DEF Operations, MessageInvariant, KnownTurns, HolderKnown
  <2>2. LastOf(cache) \in MaybeNumber /\ (LastOf(cache) = 0 \/ LastOf(cache) \in DOMAIN cache)
    <3>1. CASE DOMAIN cache = {} BY <3>1, TypedParts, LastOfType DEF LastOf
    <3>2. CASE DOMAIN cache # {} BY <3>2, TypedParts, LastOfType
    <3> QED BY <3>1, <3>2
  <2>3. LastOf(cache) <= Len(turns) BY <1>1, <2>2, StillKnown, KnownFacts DEF Exist
  <2> QED BY <2>1, <2>2, <2>3
<1>3. o \in Operations /\ o.kind = op.kind /\ o.msg = op.msg /\ o.turn = op.turn /\ o.base = base /\ o.view = op.view
  <2> HIDE DEF base
  <2> QED BY <1>2, TypedParts DEF Operations
<1> HIDE DEF base, o
<1>4. /\ op'.kind = op.kind /\ op'.phase = "mutate" /\ op'.msg = op.msg /\ op'.turn = op.turn
      /\ op'.base = base /\ op'.view = op.view /\ op'.reply \in {NoReply, Refused}
      /\ \/ req'.kind = op.kind /\ req'.msg = op.msg /\ req'.turn = op.turn
         \/ req' = req
  BY <1>1, <1>3, AskMeans DEF Awaits
<1>5. Whereabouts' BY <1>1, <1>4, SentMessage DEF MessageInvariant
<1>6. HolderKnown'
  <2>1. Known(NoReply) /\ Known(Refused) /\ Exist(DOMAIN op.view) BY <1>1, KnownFacts, StillKnown
  <2> QED BY <1>1, <1>2, <1>4, <2>1 DEF HolderKnown, Known, Exist
<1>7. CacheKnown' /\ BaselineKnown' /\ WireKnown'
  <2>1. Len(turns) \in Nat /\ Len(turns) <= Len(turns') BY <1>1 DEF TypeInv, TypeOK, ServerTypeOK
  <2> QED BY <1>1, <2>1, CacheStays, BaselineStays, WireStays DEF MessageInvariant, KnownTurns
<1>8. op'.kind # "resolve" BY <1>1, <1>4
<1> QED BY <1>5, <1>6, <1>7, <1>8, NoResolution DEF MessageInvariant, KnownTurns

\* A message that is in a Turn is found by whoever reads what there is.
LEMMA FoundInMerge ==
  ASSUME NEW v \in View, NEW w \in View, Shows(v), NEW t \in DOMAIN turns, NEW m \in TimelyMsgs(t)
  PROVE  Contains(Merge(v, w), t, m)
<1>1. t \in DOMAIN v /\ m \in v[t].msgs /\ v[t] \in Turn BY ViewElements DEF Shows, Contains
<1>2. t \in DOMAIN Merge(v, w) BY <1>1 DEF Merge
<1>3. m \in Merge(v, w)[t].msgs
  <2>1. CASE t \in DOMAIN w
    <3>1. Merge(v, w)[t] = [v[t] EXCEPT !.msgs = @ \cup w[t].msgs] BY <1>1, <2>1 DEF Merge
    <3> QED BY <1>1, <3>1 DEF Turn
  <2>2. CASE t \notin DOMAIN w BY <1>1, <2>2 DEF Merge
  <2> QED BY <2>1, <2>2
<1> QED BY <1>2, <1>3 DEF Contains

LEMMA SettleFields ==
  ASSUME NEW o \in Operations, NEW view \in View, NEW m
  PROVE  LET p == [o EXCEPT !.phase = "settle", !.reply = NoReply, !.view = view, !.msg = m]
         IN  /\ p.phase = "settle" /\ p.reply = NoReply /\ p.view = view /\ p.msg = m
             /\ p.kind = o.kind /\ p.turn = o.turn /\ p.base = o.base
BY DEF Operations

LEMMA ResolveReadTells ==
  ASSUME TypeInv, TypeInv', MessageInvariant, ResolveRead
  PROVE  MessageInvariant'
<1> DEFINE view == Merge(op.reply.view, cache)
           steer == op.msg # NoMsg
           applied == IF steer THEN Contains(view, op.turn, op.msg) ELSE StartApplied(view, op.base)
           m == IF steer THEN op.msg ELSE uTurn.msg
<1>1. /\ op.phase = "read" /\ op.reply # NoReply /\ op.kind = "resolve"
      /\ UNCHANGED <<turns, lateMsgs, req, wire, submitted, waiting>>
  BY DEF ResolveRead, Settled, server, transport
<1>2. view \in View /\ Exist(DOMAIN view) /\ op.reply.view \in View /\ cache \in View
  BY <1>1, TypedParts, MergeType, StillKnown, KnownFacts
<1>3. CASE Release(op.kind) /\ UNCHANGED <<cache, uTurn, uSteer, verdict>>
  BY <1>1, <1>3, StaysFacts, StillKnown, OperationTells DEF Release
<1>4. CASE /\ cache' = view
           /\ uTurn' \in {uTurn, NoUncertainTurn} /\ uSteer' \in {uSteer, NoUncertainSteer}
           /\ verdict' = TellApplied(TRUE)
           /\ Release(op.kind)
  <2>1. LessIsKnown BY <1>1, <1>4, TellMeans DEF LessIsKnown
  <2> QED BY <1>1, <1>2, <1>4, <2>1, StaysFacts, StillKnown, OperationTells DEF Release
<1>5. CASE /\ op.reply.ok /\ ~applied
           /\ cache' = view
           /\ op' = [op EXCEPT !.phase = "settle", !.reply = NoReply, !.view = view, !.msg = m]
           /\ UNCHANGED <<uTurn, uSteer, verdict>>
  <2>1. Shows(op.reply.view) /\ ~Sends(req) BY <1>1, <1>5 DEF MessageInvariant, ResolvesByTheTruth
  <2>2. op.msg = uSteer.msg /\ op.turn = uSteer.turn /\ (uTurn.msg # NoMsg => uTurn.base = op.base)
    BY <1>1 DEF MessageInvariant, Whereabouts, ResolvesWhatItFound
  <2>3. ~IsApplied(m)
    <3> SUFFICES ASSUME NEW t \in DOMAIN turns, m \in TimelyMsgs(t)
                 PROVE  FALSE
      BY DEF IsApplied, TimelyMsgs
    <3>1. m \in Msgs /\ m # NoMsg BY TurnMessages, ConstantsAssumption DEF TimelyMsgs
    <3>2. Contains(view, t, m) BY <1>2, <2>1, FoundInMerge
    <3>3. CASE steer
      <4>1. t = op.turn BY <2>2, <3>3 DEF MessageInvariant, Whereabouts, AppliedWhereSent, TimelyMsgs
      <4> QED BY <1>5, <3>2, <3>3, <4>1
    <3>4. CASE ~steer
      <4>1. t > op.base BY <2>2, <3>1, <3>4 DEF MessageInvariant, Whereabouts, AppliedWhereSent, TimelyMsgs
      <4>2. t \in DOMAIN view /\ t <= LastOf(view) /\ LastOf(view) \in MaybeNumber /\ t \in Numbers
        BY <1>2, <3>2, LastOfType DEF Contains
      <4>3. op.base \in MaybeNumber BY TypedParts DEF Operations
      <4>4. StartApplied(view, op.base)
        <5> HIDE DEF view
        <5> QED BY <4>1, <4>2, <4>3, ConstantsAssumption DEF StartApplied, MaybeNumber, Numbers
      <4> QED BY <1>5, <3>4, <4>4
    <3> QED BY <3>3, <3>4
  <2>4. /\ op'.phase = "settle" /\ op'.reply = NoReply /\ op'.view = view /\ op'.msg = m
        /\ op'.kind = op.kind /\ op'.turn = op.turn /\ op'.base = op.base
    <3> HIDE DEF view, m
    <3> QED BY <1>2, <1>5, TypedParts, SettleFields
  <2>5. Whereabouts'
    <3>1. ~IsApplied(op'.msg) /\ op'.msg = (IF op.msg # NoMsg THEN op.msg ELSE uTurn.msg) BY <2>3, <2>4
    <3> QED BY <1>1, <1>5, <2>1, <2>4, <3>1, MissingMessage DEF MessageInvariant
  <2>6. HolderKnown'
    <3>1. Known(NoReply) /\ op.base <= Len(turns) BY KnownFacts DEF MessageInvariant, KnownTurns, HolderKnown
    <3> HIDE DEF view
    <3> QED BY <1>1, <1>2, <2>4, <3>1 DEF HolderKnown, Known, Exist
  <2>7. CacheKnown' /\ BaselineKnown' /\ WireKnown'
    <3>1. Len(turns) \in Nat /\ Len(turns) <= Len(turns') BY <1>1 DEF TypeInv, TypeOK, ServerTypeOK
    <3> QED BY <1>1, <1>2, <1>5, <3>1, StillKnown, BaselineStays, WireStays DEF MessageInvariant, KnownTurns
  <2>8. ResolvesByTheTruth' BY <1>1, <2>1, <2>4 DEF ResolvesByTheTruth, Sends
  <2> QED BY <2>5, <2>6, <2>7, <2>8 DEF MessageInvariant, KnownTurns
<1> QED
  <2>1. CASE ~op.reply.ok BY <1>3, <2>1 DEF ResolveRead
  <2>2. CASE op.reply.ok /\ applied BY <1>4, <2>2 DEF ResolveRead
  <2>3. CASE op.reply.ok /\ ~applied BY <1>5, <2>3 DEF ResolveRead
  <2> QED BY <2>1, <2>2, <2>3

LEMMA ResolveNotAppliedTells ==
  ASSUME TypeInv, TypeInv', MessageInvariant, ResolveNotApplied
  PROVE  MessageInvariant'
<1>1. /\ op' = NoOp /\ UNCHANGED <<turns, lateMsgs, req, wire, cache>> /\ uTurn' \in {uTurn, NoUncertainTurn}
  BY DEF ResolveNotApplied, Release, server, transport
<1>2. Whereabouts' BY MessageGivenBack DEF MessageInvariant
<1> QED BY <1>1, <1>2, StaysFacts, NothingLearnt DEF MessageInvariant

----
(* Lines reach the web server. *)

LEMMA ReceiveTakes ==
  ASSUME TypeInv, NEW kind, Receive(kind)
  PROVE  /\ OnWire(wire') \subseteq OnWire(wire)
         /\ WireKnown => Known(Head(wire))
<1>1. wire \in Seq(Lines) /\ wire # << >> /\ wire' = Tail(wire) BY DEF Receive, TypeInv, TypeOK, TransportTypeOK
<1>2. OnWire(wire') \subseteq OnWire(wire)
  <2>1. Head(wire) \in Lines BY ReceiveMeans
  <2> QED BY <1>1, <2>1, OnWireFacts
<1>3. WireKnown => Known(Head(wire)) BY ReceiveMeans DEF WireKnown
<1> QED BY <1>2, <1>3

\* News may change the snapshot, and settle what is uncertain.
LEMMA NewsTells ==
  ASSUME TypeInv, TypeInv', MessageInvariant, UNCHANGED <<turns, lateMsgs, req, op, uSteer, waiting, submitted>>,
         uTurn' \in {uTurn, NoUncertainTurn},
         \A m \in Msgs : verdict'[m] = "notApplied" => verdict[m] = "notApplied",
         CacheKnown', OnWire(wire') \subseteq OnWire(wire)
  PROVE  MessageInvariant'
<1>1. LessIsKnown BY DEF LessIsKnown
<1>2. Whereabouts' BY <1>1, StaysFacts, MessageStays DEF MessageInvariant
<1>3. Len(turns) \in Nat /\ Len(turns) <= Len(turns') BY DEF TypeInv, TypeOK, ServerTypeOK
<1>4. BaselineKnown' /\ WireKnown' /\ HolderKnown'
  BY <1>3, BaselineStays, WireStays, HolderStays DEF MessageInvariant, KnownTurns, LearnsNothing
<1>5. ResolvesByTheTruth' BY StaysFacts, ResolutionStays DEF MessageInvariant
<1> QED BY <1>2, <1>4, <1>5 DEF MessageInvariant, KnownTurns

LEMMA HandleReplyTells ==
  ASSUME TypeInv, TypeInv', MessageInvariant, HandleReply
  PROVE  MessageInvariant'
<1>1. /\ Receive("reply") /\ op' = [op EXCEPT !.reply = Head(wire)]
      /\ UNCHANGED <<turns, lateMsgs, req, cache, uTurn, uSteer, submitted, waiting, verdict>>
  BY DEF HandleReply, server, history
<1>2. /\ op'.kind = op.kind /\ op'.phase = op.phase /\ op'.msg = op.msg /\ op'.turn = op.turn
      /\ op'.base = op.base /\ op'.view = op.view /\ op'.reply = Head(wire)
  BY <1>1, TypedParts DEF Operations
<1>3. Whereabouts'
  <2>1. GoesOn BY <1>1, <1>2 DEF GoesOn
  <2> QED BY <1>1, <2>1, StaysFacts, MessageStays DEF MessageInvariant
<1>4. Known(Head(wire)) /\ OnWire(wire') \subseteq OnWire(wire)
  BY <1>1, ReceiveTakes DEF MessageInvariant, KnownTurns
<1>5. Len(turns) \in Nat /\ Len(turns) <= Len(turns') BY <1>1 DEF TypeInv, TypeOK, ServerTypeOK
<1>6. CacheKnown' /\ BaselineKnown' /\ WireKnown'
  BY <1>1, <1>4, <1>5, CacheStays, BaselineStays, WireStays DEF MessageInvariant, KnownTurns
<1>7. HolderKnown'
  <2>1. Exist(DOMAIN op.view) /\ op.base <= Len(turns) BY DEF MessageInvariant, KnownTurns, HolderKnown
  <2>2. /\ Head(wire).turn <= Len(turns') /\ \A t \in DOMAIN Head(wire).view : t <= Len(turns')
        /\ \A t \in DOMAIN op.view : t <= Len(turns')
    BY <1>1, <1>4, <2>1 DEF Known, Exist
  <2> QED BY <1>1, <1>2, <2>1, <2>2 DEF HolderKnown, Known, Exist
<1>8. ResolvesByTheTruth'
  <2>1. Head(wire) = wire[1] /\ 1 \in DOMAIN wire /\ wire[1].kind = "reply" BY <1>1, ReceiveMeans
  <2>2. op.reply = NoReply /\ op.phase \in Awaits BY <2>1 DEF TypeInv, AnswerAwaited
  <2>3. op'.reply # NoReply BY <1>2, <2>1 DEF NoReply, Line
  <2>4. \A i \in DOMAIN wire' : wire'[i].kind # "reply" BY <2>3 DEF TypeInv, AnswerAwaited
  <2>5. ASSUME op.kind = "resolve"
        PROVE  ~Sends(req') /\ (op.phase = "read" /\ Head(wire).ok => ShowsNext(Head(wire).view))
    BY <1>1, <2>1, <2>2, <2>5 DEF MessageInvariant, ResolvesByTheTruth, Shows, ShowsNext, TimelyMsgs
  <2> QED BY <1>2, <2>4, <2>5 DEF ResolvesByTheTruth, ShowsNext, Shows, Sends
<1> QED BY <1>3, <1>6, <1>7, <1>8 DEF MessageInvariant, KnownTurns

LEMMA HandleStatusTells ==
  ASSUME TypeInv, TypeInv', MessageInvariant, HandleLate \/ HandleStatus
  PROVE  MessageInvariant'
<1>1. /\ \E kind : Receive(kind)
      /\ UNCHANGED <<turns, lateMsgs, req, op, cache, uTurn, uSteer, submitted, waiting, verdict>>
  BY DEF HandleLate, HandleStatus, server, session, history
<1> QED BY <1>1, ReceiveTakes, StaysFacts, QuietTells

\* A Turn that is in a notification is in the snapshot from then on.
LEMMA SnapshotGrows ==
  ASSUME TypeInv, TypeInv', MessageInvariant, UNCHANGED turns, NEW kind, Receive(kind),
         cache' = Snapshot(Upsert(cache, Head(wire).turn, Head(wire).rec))
  PROVE  CacheKnown'
<1>1. Head(wire).turn <= Len(turns) /\ Exist(DOMAIN cache)
  BY ReceiveTakes, StillKnown DEF MessageInvariant, KnownTurns, Known
<1>2. DOMAIN Upsert(cache, Head(wire).turn, Head(wire).rec) = {Head(wire).turn} \cup DOMAIN cache
  BY DEF Upsert, Merge
<1>3. Exist(DOMAIN Upsert(cache, Head(wire).turn, Head(wire).rec)) BY <1>1, <1>2 DEF Exist
<1>4. Exist(DOMAIN cache') BY <1>1, <1>3 DEF Snapshot
<1> QED BY <1>4, StillKnown

LEMMA HandleTurnTells ==
  ASSUME TypeInv, TypeInv', MessageInvariant, HandleTurnStarted \/ HandleTurnCompleted
  PROVE  MessageInvariant'
<1>1. /\ \E kind : Receive(kind)
      /\ UNCHANGED <<turns, lateMsgs, req, op, uSteer, submitted, waiting>>
      /\ cache' = Snapshot(Upsert(cache, Head(wire).turn, Head(wire).rec))
      /\ uTurn' \in {uTurn, NoUncertainTurn}
      /\ verdict' = verdict \/ \E published : verdict' = TellApplied(published)
  BY DEF HandleTurnStarted, HandleTurnCompleted, server, history
<1>2. \A m \in Msgs : verdict'[m] = "notApplied" => verdict[m] = "notApplied" BY <1>1, TellMeans
<1> QED BY <1>1, <1>2, ReceiveTakes, SnapshotGrows, NewsTells

LEMMA HandleItemTells ==
  ASSUME TypeInv, TypeInv', MessageInvariant, HandleItem
  PROVE  MessageInvariant'
<1>1. /\ Receive("item") /\ UNCHANGED <<turns, lateMsgs, req, op, uTurn, uSteer, submitted, waiting, verdict>>
      /\ DOMAIN cache' = DOMAIN cache
  BY DEF HandleItem, server, history
<1>2. CacheKnown' BY <1>1, StillKnown
<1> QED BY <1>1, <1>2, ReceiveTakes, NewsTells

LEMMA FinishTimerTells ==
  ASSUME TypeInv, TypeInv', MessageInvariant, FinishTimer
  PROVE  MessageInvariant'
<1>1. UNCHANGED <<turns, lateMsgs, req, op, cache, uTurn, uSteer, submitted, waiting, verdict, wire>>
  BY DEF FinishTimer, server, transport, session, history
<1> QED BY <1>1, StaysFacts, QuietTells

----
(* The connection is lost and comes back. *)

LEMMA RejectedFields ==
  ASSUME NEW o \in Operations
  PROVE  LET p == [o EXCEPT !.reply = Refused]
         IN  /\ p.reply = Refused /\ p.kind = o.kind /\ p.phase = o.phase /\ p.msg = o.msg
             /\ p.turn = o.turn /\ p.base = o.base /\ p.view = o.view
BY DEF Operations

LEMMA OrphanSends ==
  ASSUME TypeInv, req' \in {NoReq, Orphaned(req)}
  PROVE  SameRequest /\ (Sends(req') => Sends(req))
<1>1. \/ req' = NoReq
      \/ req.kind \in {"start", "steer"} /\ req' = [req EXCEPT !.orphan = TRUE]
  BY DEF Orphaned
<1>2. CASE req' = NoReq BY <1>2, StaysFacts
<1>3. CASE req.kind \in {"start", "steer"} /\ req' = [req EXCEPT !.orphan = TRUE]
  <2>1. req'.kind = req.kind /\ req'.msg = req.msg /\ req'.turn = req.turn BY <1>3, TypedParts DEF Requests
  <2> QED BY <2>1 DEF SameRequest, Sends
<1> QED BY <1>1, <1>2, <1>3

\* Of the lines on the wire, some are lost or of no use any more.
LEMMA LateKnown ==
  ASSUME TypeInv, TypeInv', MessageInvariant, UNCHANGED turns,
         \A l \in OnWire(wire') : l \in OnWire(wire) \/ l = Line("late")
  PROVE  WireKnown'
<1>1. Len(turns) \in Nat /\ Len(turns) <= Len(turns') BY DEF TypeInv, TypeOK, ServerTypeOK
<1>2. Line("late").turn = 0 /\ DOMAIN Line("late").view = {} BY NoOpMeans DEF Line
<1> QED BY <1>1, <1>2, WireStays DEF MessageInvariant, KnownTurns

\* The holder of the lock is refused what it awaits.
LEMMA RejectedTells ==
  ASSUME TypeInv, TypeInv', MessageInvariant, SameRequest,
         UNCHANGED <<turns, lateMsgs, cache, uTurn, uSteer, submitted, verdict, waiting>>,
         op' = [op EXCEPT !.reply = Refused], op.phase \in Awaits,
         \A l \in OnWire(wire') : l \in OnWire(wire) \/ l = Line("late")
  PROVE  MessageInvariant'
<1>1. /\ op'.reply = Refused /\ op'.kind = op.kind /\ op'.phase = op.phase /\ op'.msg = op.msg
      /\ op'.turn = op.turn /\ op'.base = op.base /\ op'.view = op.view
  BY TypedParts, RejectedFields
<1>2. GoesOn /\ LearnsNothing BY <1>1 DEF GoesOn, LearnsNothing
<1>3. Whereabouts' BY <1>2, StaysFacts, MessageStays DEF MessageInvariant
<1>4. Len(turns) \in Nat /\ Len(turns) <= Len(turns') BY DEF TypeInv, TypeOK, ServerTypeOK
<1>5. CacheKnown' /\ BaselineKnown' /\ HolderKnown' /\ WireKnown'
  BY <1>2, <1>4, CacheStays, BaselineStays, HolderStays, LateKnown DEF MessageInvariant, KnownTurns
<1>6. ResolvesByTheTruth'
  <2>1. Refused # NoReply /\ ~Refused.ok BY DEF Refused, NoReply, Reply, Line
  <2>2. \A i \in DOMAIN wire' : wire'[i].kind # "reply" BY <1>1, <2>1 DEF TypeInv, AnswerAwaited
  <2> QED BY <1>1, <2>1, <2>2 DEF ResolvesByTheTruth
<1> QED BY <1>3, <1>5, <1>6 DEF MessageInvariant, KnownTurns

LEMMA DisconnectTells ==
  ASSUME TypeInv, TypeInv', MessageInvariant, NEW to, Disconnect(to),
         req' \in {NoReq, Orphaned(req)}, UNCHANGED <<turns, lateMsgs, verdict>>,
         \A l \in OnWire(wire') : l \in OnWire(wire) \/ l = Line("late"),
         \A i \in DOMAIN wire' : wire'[i].kind # "reply"
  PROVE  MessageInvariant'
<1>1. SameRequest /\ (Sends(req') => Sends(req)) /\ UNCHANGED <<cache, submitted, waiting>>
  BY OrphanSends DEF Disconnect
<1>2. Len(turns) \in Nat /\ Len(turns) <= Len(turns') BY DEF TypeInv, TypeOK, ServerTypeOK
<1>3. CacheKnown' /\ WireKnown' BY <1>1, <1>2, CacheStays, LateKnown DEF MessageInvariant, KnownTurns
<1>4. CASE Awaiting("mutate")
  <2>1. /\ op.phase = "mutate" /\ op' = NoOp
        /\ uTurn' = (IF op.kind = "start" THEN [msg |-> op.msg, base |-> op.base] ELSE uTurn)
        /\ uSteer' = (IF op.kind = "steer" THEN [msg |-> op.msg, turn |-> op.turn] ELSE uSteer)
    BY <1>4 DEF Disconnect, Awaiting
  <2>2. Whereabouts' BY <1>1, <2>1, LostMessage DEF MessageInvariant
  <2>3. BaselineKnown'
    <3>1. op.base <= Len(turns) /\ uTurn.base <= Len(turns)
      BY DEF MessageInvariant, KnownTurns, HolderKnown, BaselineKnown
    <3>2. uTurn'.base \in {op.base, uTurn.base} BY <2>1
    <3> QED BY <3>1, <3>2 DEF BaselineKnown
  <2>4. HolderKnown' /\ ResolvesByTheTruth'
    BY <1>2, <2>1, StaysFacts, HolderStays, NoResolution DEF MessageInvariant, KnownTurns
  <2> QED BY <1>3, <2>2, <2>3, <2>4 DEF MessageInvariant, KnownTurns
<1>5. CASE ~Awaiting("mutate") /\ (Awaiting("resume") \/ Awaiting("read"))
  <2>1. /\ op' = [op EXCEPT !.reply = Refused] /\ op.phase \in Awaits /\ UNCHANGED <<uTurn, uSteer>>
    BY <1>5 DEF Disconnect, Awaiting, RejectPending, Awaits
  <2> QED BY <1>1, <2>1, RejectedTells
<1>6. CASE ~Awaiting("mutate") /\ ~(Awaiting("resume") \/ Awaiting("read"))
  <2>1. UNCHANGED <<op, uTurn, uSteer>> BY <1>6 DEF Disconnect
  <2>2. Whereabouts' BY <1>1, <2>1, StaysFacts, MessageStays DEF MessageInvariant
  <2>3. BaselineKnown' /\ HolderKnown'
    BY <1>2, <2>1, BaselineStays, HolderStays DEF MessageInvariant, KnownTurns, LearnsNothing
  <2>4. \A l \in OnWire(wire') : l.kind # "reply" BY DEF OnWire
  <2>5. ResolvesByTheTruth' BY <1>1, <2>1, <2>4, StaysFacts, ResolutionStays DEF MessageInvariant
  <2> QED BY <1>3, <2>2, <2>3, <2>5 DEF MessageInvariant, KnownTurns
<1> QED BY <1>4, <1>5, <1>6

\* What is left of the lines after a loss.
LEMMA LinesLeft ==
  ASSUME TypeInv, wire' = << >> \/ wire' = Late(wire)
  PROVE  /\ \A l \in OnWire(wire') : l \in OnWire(wire) \/ l = Line("late")
         /\ \A i \in DOMAIN wire' : wire'[i].kind # "reply"
<1>1. CASE wire' = << >> BY <1>1 DEF OnWire
<1>2. CASE wire' = Late(wire)
  <2>1. \A i \in DOMAIN wire' : i \in DOMAIN wire /\ wire'[i] \in {wire[i], Line("late")} BY <1>2 DEF Late
  <2>2. \A i \in DOMAIN wire' : wire'[i].kind # "reply" BY <1>2, LateMeans DEF NoReplies
  <2> QED BY <2>1, <2>2 DEF OnWire
<1> QED BY <1>1, <1>2

LEMMA LossTells ==
  ASSUME TypeInv, TypeInv', MessageInvariant, MutationTimeout \/ SocketLost
  PROVE  MessageInvariant'
<1>1. /\ \E to : Disconnect(to)
      /\ wire' = << >> \/ wire' = Late(wire)
      /\ req' \in {NoReq, Orphaned(req)} /\ UNCHANGED <<turns, lateMsgs, verdict>>
  BY DEF MutationTimeout, SocketLost
<1> QED BY <1>1, LinesLeft, DisconnectTells

LEMMA TransportClosedTells ==
  ASSUME TypeInv, TypeInv', MessageInvariant, TransportClosed
  PROVE  MessageInvariant'
<1>1. /\ wire = << >> /\ wire' = << >> /\ req' = NoReq /\ UNCHANGED <<turns, lateMsgs, verdict>>
      /\ Disconnect("down") \/ UNCHANGED session
  BY DEF TransportClosed, history
<1>2. CASE Disconnect("down") BY <1>1, <1>2, LinesLeft, DisconnectTells
<1>3. CASE UNCHANGED session
  <2>1. UNCHANGED <<op, cache, uTurn, uSteer, submitted, waiting>> BY <1>3 DEF session
  <2> QED BY <1>1, <2>1, StaysFacts, QuietTells
<1> QED BY <1>1, <1>2, <1>3

LEMMA ReadTimeoutTells ==
  ASSUME TypeInv, TypeInv', MessageInvariant, ReadTimeout
  PROVE  MessageInvariant'
<1>1. /\ op' = [op EXCEPT !.reply = Refused] /\ op.phase \in Awaits
      /\ req' = NoReq /\ wire' = Late(wire)
      /\ UNCHANGED <<turns, lateMsgs, cache, uTurn, uSteer, submitted, verdict, waiting>>
  BY DEF ReadTimeout, Awaiting, Awaits
<1> QED BY <1>1, LinesLeft, StaysFacts, RejectedTells

LEMMA ReconnectTells ==
  ASSUME TypeInv, TypeInv', MessageInvariant, Reconnect \/ ListDisconnected
  PROVE  MessageInvariant'
<1>1. /\ req' \in {req, NoReq}
      /\ UNCHANGED <<turns, lateMsgs, wire, op, cache, uTurn, uSteer, submitted, waiting, verdict>>
  BY DEF Reconnect, ListDisconnected, server, transport, session, history
<1> QED BY <1>1, StaysFacts, QuietTells

LEMMA CrashTells ==
  ASSUME TypeInv, TypeInv', MessageInvariant, Crash
  PROVE  MessageInvariant'
<1>1. /\ req' = NoReq /\ UNCHANGED <<lateMsgs, op, cache, uTurn, uSteer, submitted, waiting, verdict>>
      /\ turns' = [t \in DOMAIN turns |-> [turns[t] EXCEPT !.status = "ended"]]
  BY DEF Crash, session
<1>2. OnWire(wire') \subseteq OnWire(wire)
  <2>1. PICK n \in 0 .. Len(wire) : wire' = SubSeq(wire, 1, n) BY DEF Crash
  <2>2. wire \in Seq(Lines) /\ NoReply \in Lines BY ReplyTypes DEF TypeInv, TypeOK, TransportTypeOK
  <2> QED BY <2>1, <2>2, OnWireFacts
<1>3. SameMessages
  <2>1. ASSUME NEW t \in DOMAIN turns PROVE turns'[t].msgs = turns[t].msgs
    BY <1>1, <2>1, TurnMessages DEF Turn
  <2> QED BY <1>1, <2>1 DEF SameMessages, TimelyMsgs
<1> QED BY <1>1, <1>2, <1>3, StaysFacts, QuietTells

----
(* The App Server serves a request. *)

\* Known, of the Turns there will be.
KnownNext(l) == l.turn <= Len(turns') /\ \A t \in DOMAIN l.view : t <= Len(turns')
Fits(s) == s \in Seq(Lines) /\ \A l \in OnWire(s) : KnownNext(l)

LEMMA FitTogether ==
  ASSUME NEW v, NEW w, Fits(v), Fits(w)
  PROVE  Fits(v \o w)
<1>1. v \in Seq(Lines) /\ w \in Seq(Lines) /\ NoReply \in Lines BY ReplyTypes DEF Fits
<1>2. OnWire(v \o w) \subseteq OnWire(v) \cup OnWire(w) BY <1>1, OnWireFacts
<1>3. v \o w \in Seq(Lines) BY <1>1
<1> QED BY <1>2, <1>3 DEF Fits

LEMMA CutFits ==
  ASSUME NEW s, Fits(s), NEW i \in 0 .. Len(s)
  PROVE  Fits(SubSeq(s, 1, i)) /\ Fits(SubSeq(s, i + 1, Len(s)))
<1>1. s \in Seq(Lines) /\ NoReply \in Lines BY ReplyTypes DEF Fits
<1>2. OnWire(SubSeq(s, 1, i)) \subseteq OnWire(s) /\ OnWire(SubSeq(s, i + 1, Len(s))) \subseteq OnWire(s)
  BY <1>1, OnWireFacts
<1>3. SubSeq(s, 1, i) \in Seq(Lines) /\ SubSeq(s, i + 1, Len(s)) \in Seq(Lines) BY <1>1
<1> QED BY <1>2, <1>3 DEF Fits

LEMMA FewFit ==
  ASSUME NEW k \in Lines, NEW l \in Lines, KnownNext(k), KnownNext(l)
  PROVE  Fits(<< >>) /\ Fits(<<l>>) /\ Fits(<<k, l>>)
<1>1. << >> \in Seq(Lines) /\ <<l>> \in Seq(Lines) /\ <<k, l>> \in Seq(Lines) OBVIOUS
<1>2. OnWire(<< >>) = {} BY <1>1, OnWireFacts
<1>3. OnWire(<<l>>) = {l} BY <1>1, OnWireFacts
<1>4. OnWire(<<k, l>>) = {k, l} BY TwoOnWire
<1> QED BY <1>1, <1>2, <1>3, <1>4 DEF Fits

\* A line that is about one Turn, or none, and shows no history.
LEMMA LineFits ==
  ASSUME TypeInv, TypeInv'
  PROVE  /\ \A kind : KnownNext(Line(kind))
         /\ \A kind, t, turn : t <= Len(turns') => KnownNext(TurnLine(kind, t, turn))
         /\ \A ok, t : t <= Len(turns') => KnownNext(Reply(ok, t, NoTurns))
         /\ KnownNext(Refused)
<1>1. Len(turns') \in Nat /\ DOMAIN NoTurns = {} BY NoOpMeans DEF TypeInv, TypeOK, ServerTypeOK
<1>2. \A kind : Line(kind).turn = 0 /\ Line(kind).view = NoTurns BY DEF Line
<1>3. \A kind, t, turn : TurnLine(kind, t, turn).turn = t /\ TurnLine(kind, t, turn).view = NoTurns
  BY DEF TurnLine, Line
<1>4. \A ok, t : Reply(ok, t, NoTurns).turn = t /\ Reply(ok, t, NoTurns).view = NoTurns BY DEF Reply, Line
<1>5. \A l : l.turn <= Len(turns') /\ l.view = NoTurns => KnownNext(l) BY <1>1 DEF KnownNext
<1>6. 0 <= Len(turns') BY <1>1
<1>7. KnownNext(Refused) BY <1>4, <1>5, <1>6 DEF Refused
<1> QED BY <1>2, <1>3, <1>4, <1>5, <1>6, <1>7

LEMMA ServedLines ==
  ASSUME TypeInv, TypeInv', MessageInvariant, Len(turns) <= Len(turns'), NEW u, Fits(u), wire' = wire \o u,
         UNCHANGED <<op, cache, uTurn>>
  PROVE  KnownTurns' /\ (\A l \in OnWire(wire') : l \in OnWire(wire) \cup OnWire(u))
<1>1. wire \in Seq(Lines) /\ u \in Seq(Lines) /\ NoReply \in Lines
  BY ReplyTypes DEF Fits, TypeInv, TypeOK, TransportTypeOK
<1>2. OnWire(wire') \subseteq OnWire(wire) \cup OnWire(u) BY <1>1, OnWireFacts
<1>3. \A l \in OnWire(wire') : l \in OnWire(wire) \/ KnownNext(l) BY <1>2 DEF Fits
<1>4. WireKnown' BY <1>3, WireStays DEF MessageInvariant, KnownTurns, KnownNext
<1>5. CacheKnown' /\ BaselineKnown' /\ HolderKnown'
  BY CacheStays, BaselineStays, HolderStays DEF MessageInvariant, KnownTurns, LearnsNothing
<1> QED BY <1>2, <1>4, <1>5 DEF KnownTurns

\* A resolution that a start or a steer could surprise has been refused its read.
LEMMA MutationServed ==
  ASSUME TypeInv, TypeInv', MessageInvariant, Sends(req), req' = NoReq, UNCHANGED op
  PROVE  ResolvesByTheTruth'
<1>1. CASE op.kind = "resolve"
  <2>1. op.reply # NoReply /\ ~op.reply.ok BY <1>1 DEF MessageInvariant, ResolvesByTheTruth
  <2>2. \A i \in DOMAIN wire' : wire'[i].kind # "reply" BY <2>1 DEF TypeInv, AnswerAwaited
  <2> QED BY <2>1, <2>2, NoOpMeans DEF ResolvesByTheTruth
<1>2. CASE op.kind # "resolve" BY <1>2, NoResolution
<1> QED BY <1>1, <1>2

LEMMA ServeStartTells ==
  ASSUME TypeInv, TypeInv', MessageInvariant, ServeStart
  PROVE  MessageInvariant'
<1> DEFINE t == Len(turns) + 1
           fresh == [status |-> "inProgress", msgs |-> {req.msg}, late |-> FALSE]
           news == Notify(<<Line("active"), TurnLine("started", t, fresh)>>)
           line == [Reply(TRUE, t, NoTurns) EXCEPT !.rec = [fresh EXCEPT !.msgs = {}]]
           answer == Respond(line)
<1>1. /\ req.kind = "start" /\ Sends(req) /\ req' = NoReq
      /\ UNCHANGED <<lateMsgs, op, cache, uTurn, uSteer, submitted, waiting, verdict>>
  BY DEF ServeStart, session, history, Sends
<1>2. req.msg \in Msgs BY <1>1 DEF TypeInv, MessagesInFlight
<1>3. /\ turns \in Seq(Turn) /\ Len(turns) <= MaxTurns /\ Len(turns) \in Nat
  BY DEF TypeInv, TypeOK, ServerTypeOK
<1>4. ResolvesByTheTruth' BY <1>1, MutationServed
<1>5. CASE wire' = wire \o Respond(Refused) /\ UNCHANGED turns
  <2>1. Refused \in Lines /\ KnownNext(Refused) BY ReplyTypes, LineFits
  <2>2. Fits(Respond(Refused)) BY <2>1, FewFit DEF Respond
  <2>3. KnownTurns' BY <1>1, <1>3, <1>5, <2>2, ServedLines
  <2>4. Whereabouts' BY <1>1, <1>5, StaysFacts, MessageStays DEF MessageInvariant
  <2> QED BY <1>4, <2>3, <2>4 DEF MessageInvariant
<1>6. CASE /\ t <= MaxTurns
           /\ turns' = Append(turns, fresh)
           /\ \E i \in 0 .. Len(news) :
                wire' = wire \o SubSeq(news, 1, i) \o answer \o SubSeq(news, i + 1, Len(news))
  <2>1. t \in Numbers /\ t \in MaybeNumber BY <1>3, <1>6, Constants, ConstantsAssumption DEF Numbers
  <2>2. fresh \in Turn /\ [fresh EXCEPT !.msgs = {}] \in Turn /\ fresh.msgs = {req.msg} BY <1>2 DEF Turn
  <2>3. Len(turns') = t /\ Len(turns) <= t
    <3> HIDE DEF fresh
    <3> QED BY <1>3, <1>6, <2>2
  <2>4. Whereabouts'
    <3> HIDE DEF fresh
    <3> QED BY <1>1, <1>6, <2>2, StartedMessage DEF MessageInvariant
  <2>5. t <= Len(turns') BY <1>3, <2>3
  <2> HIDE DEF t, fresh
  <2>6. Fits(news)
    <3>1. Line("active") \in Lines /\ TurnLine("started", t, fresh) \in Lines BY <2>1, <2>2, LineTypes
    <3>2. KnownNext(Line("active")) /\ KnownNext(TurnLine("started", t, fresh)) BY <2>5, LineFits
    <3> QED BY <3>1, <3>2, FewFit DEF Notify
  <2>7. Fits(answer)
    <3>1. Reply(TRUE, t, NoTurns) \in Lines /\ KnownNext(Reply(TRUE, t, NoTurns))
      BY <2>1, <2>5, NoTurnsType, ReplyTypes, LineFits
    <3>2. line \in Lines BY <2>2, <3>1 DEF Lines
    <3>3. line.turn = Reply(TRUE, t, NoTurns).turn /\ line.view = Reply(TRUE, t, NoTurns).view
      BY DEF Reply, Line
    <3>4. KnownNext(line)
      <4> HIDE DEF line
      <4> QED BY <3>1, <3>3 DEF KnownNext
    <3> HIDE DEF line
    <3> QED BY <3>2, <3>4, FewFit DEF Respond
  <2> HIDE DEF news, answer
  <2>8. PICK i \in 0 .. Len(news) :
            wire' = wire \o SubSeq(news, 1, i) \o answer \o SubSeq(news, i + 1, Len(news))
    BY <1>6
  <2> DEFINE v == SubSeq(news, 1, i)
             w == SubSeq(news, i + 1, Len(news))
  <2>9. Fits(v) /\ Fits(w) BY <2>6, <2>8, CutFits
  <2> HIDE DEF v, w
  <2>10. wire' = wire \o v \o answer \o w BY <2>8 DEF v, w
  <2>11. Fits(v \o answer \o w) BY <2>7, <2>9, FitTogether
  <2>12. wire' = wire \o (v \o answer \o w)
    <3>1. wire \in Seq(Lines) /\ v \in Seq(Lines) /\ answer \in Seq(Lines) /\ w \in Seq(Lines)
      BY <2>7, <2>9 DEF Fits, TypeInv, TypeOK, TransportTypeOK
    <3>2. (wire \o v) \o answer = wire \o (v \o answer) BY <3>1, ConcatAssociative, SMTT(60)
    <3> DEFINE e == v \o answer
    <3>3. (wire \o e) \o w = wire \o (e \o w)
      <4>1. e \in Seq(Lines) BY <3>1, ConcatProperties
      <4> HIDE DEF e
      <4> QED BY <3>1, <4>1, ConcatAssociative
    <3> QED BY <2>10, <3>2, <3>3
  <2>13. KnownTurns' BY <1>1, <2>3, <2>5, <2>11, <2>12, ServedLines
  <2> QED BY <1>4, <2>4, <2>13 DEF MessageInvariant
<1> QED BY <1>5, <1>6 DEF ServeStart

LEMMA ServeSteerTells ==
  ASSUME TypeInv, TypeInv', MessageInvariant, ServeSteer
  PROVE  MessageInvariant'
<1> DEFINE l == TurnLine("item", req.turn, [turns[req.turn] EXCEPT !.msgs = {req.msg}])
           item == Notify(<<l>>)
           line == Reply(TRUE, req.turn, NoTurns)
           answer == Respond(line)
<1>1. /\ req.kind = "steer" /\ Sends(req) /\ req' = NoReq
      /\ UNCHANGED <<lateMsgs, op, cache, uTurn, uSteer, submitted, waiting, verdict>>
  BY DEF ServeSteer, session, history, Sends
<1>2. req.msg \in Msgs /\ req.turn \in MaybeNumber BY <1>1, TypedParts DEF TypeInv, MessagesInFlight, Requests
<1>3. /\ turns \in Seq(Turn) /\ Len(turns) <= MaxTurns /\ Len(turns) \in Nat
  BY DEF TypeInv, TypeOK, ServerTypeOK
<1>4. ResolvesByTheTruth' BY <1>1, MutationServed
<1>5. CASE wire' = wire \o Respond(Refused) /\ UNCHANGED turns
  <2>1. Refused \in Lines /\ KnownNext(Refused) BY ReplyTypes, LineFits
  <2>2. Fits(Respond(Refused)) BY <2>1, FewFit DEF Respond
  <2>3. KnownTurns' BY <1>1, <1>3, <1>5, <2>2, ServedLines
  <2>4. Whereabouts' BY <1>1, <1>5, StaysFacts, MessageStays DEF MessageInvariant
  <2> QED BY <1>4, <2>3, <2>4 DEF MessageInvariant
<1>6. CASE /\ LiveAt(turns, req.turn)
           /\ turns' = [turns EXCEPT ![req.turn].msgs = @ \cup {req.msg}]
           /\ wire' \in {wire \o item \o answer, wire \o answer \o item}
  <2>1. req.turn \in DOMAIN turns /\ req.turn <= Len(turns) BY <1>3, <1>6 DEF LiveAt
  <2>2. /\ DOMAIN turns' = DOMAIN turns
        /\ \A t \in DOMAIN turns :
              turns'[t].msgs = IF t = req.turn THEN turns[t].msgs \cup {req.msg} ELSE turns[t].msgs
    <3>1. \A t \in DOMAIN turns : turns[t] \in Turn BY TurnMessages
    <3> QED BY <1>6, <2>1, <3>1 DEF Turn
  <2>3. Len(turns') = Len(turns)
    <3>1. turns' \in Seq(Turn) /\ Len(turns') \in Nat BY DEF TypeInv, TypeOK, ServerTypeOK
    <3>2. DOMAIN turns' = 1 .. Len(turns') /\ DOMAIN turns = 1 .. Len(turns) BY <1>3, <3>1
    <3>3. 1 .. Len(turns') = 1 .. Len(turns) BY <2>2, <3>2
    <3> QED BY <1>3, <3>1, <3>3
  <2>4. Whereabouts' BY <1>1, <2>2, SteeredMessage DEF MessageInvariant
  <2>5. req.turn <= Len(turns') /\ Len(turns) <= Len(turns') BY <1>3, <2>1, <2>3
  <2>6. Fits(item)
    <3>3. turns[req.turn] \in Turn BY <2>1, TurnMessages
    <3>1. [turns[req.turn] EXCEPT !.msgs = {req.msg}] \in Turn BY <1>2, <3>3 DEF Turn
    <3>2. l \in Lines /\ KnownNext(l) BY <1>2, <2>5, <3>1, LineTypes, LineFits
    <3> HIDE DEF l
    <3> QED BY <3>2, FewFit DEF Notify
  <2>7. Fits(answer)
    <3>1. line \in Lines /\ KnownNext(line) BY <1>2, <2>5, NoTurnsType, ReplyTypes, LineFits
    <3> HIDE DEF line
    <3> QED BY <3>1, FewFit DEF Respond
  <2> HIDE DEF item, answer
  <2>8. PICK u \in {item \o answer, answer \o item} : wire' = wire \o u
    <3>1. wire \in Seq(Lines) /\ item \in Seq(Lines) /\ answer \in Seq(Lines)
      BY <2>6, <2>7 DEF Fits, TypeInv, TypeOK, TransportTypeOK
    <3>2. (wire \o item) \o answer = wire \o (item \o answer) BY <3>1, ConcatAssociative
    <3>3. (wire \o answer) \o item = wire \o (answer \o item) BY <3>1, ConcatAssociative
    <3> QED BY <1>6, <3>2, <3>3
  <2>9. Fits(u) BY <2>6, <2>7, FitTogether
  <2>10. KnownTurns' BY <1>1, <2>5, <2>8, <2>9, ServedLines
  <2> QED BY <1>4, <2>4, <2>10 DEF MessageInvariant
<1> QED BY <1>5, <1>6 DEF ServeSteer

LEMMA ServeResumeTells ==
  ASSUME TypeInv, TypeInv', MessageInvariant, ServeResume
  PROVE  MessageInvariant'
<1> DEFINE status == <<Line(IF LiveTurn THEN "active" ELSE "idle")>>
           view == IF Paginated THEN NoTurns ELSE turns
           answer == <<Reply(TRUE, 0, view)>>
<1>1. /\ req.kind = "resume" /\ req' = NoReq
      /\ UNCHANGED <<turns, lateMsgs, op, cache, uTurn, uSteer, submitted, waiting, verdict>>
  BY DEF ServeResume, session, history
<1>2. turns \in Seq(Turn) /\ Len(turns) <= MaxTurns /\ Len(turns) \in Nat BY DEF TypeInv, TypeOK, ServerTypeOK
<1>3. op.kind # "resolve"
  <2>1. ~req.orphan BY <1>1, StillAwaited
  <2>2. op.phase \in Awaits /\ Asked(op) = "resume" BY <1>1, <2>1 DEF TypeInv, RequestAwaited
  <2>3. op.phase = "resume" BY <2>2 DEF Asked, TypeInv, MessagesInFlight
  <2> QED BY <2>3, PhaseMeans
<1>4. Fits(status)
  <2>1. \A kind \in {"active", "idle"} : Line(kind) \in Lines /\ KnownNext(Line(kind)) BY LineTypes, LineFits
  <2> QED BY <2>1, FewFit
<1>5. Fits(answer)
  <2>1. view \in View /\ \A t \in DOMAIN view : t <= Len(turns')
    BY <1>1, <1>2, NoOpMeans, NoTurnsType, TurnsAreView
  <2> HIDE DEF view
  <2>2. Reply(TRUE, 0, view) \in Lines BY <2>1, Constants, ReplyTypes
  <2>3. KnownNext(Reply(TRUE, 0, view)) BY <1>1, <1>2, <2>1 DEF KnownNext, Reply, Line
  <2> QED BY <2>2, <2>3, FewFit
<1>6. PICK u \in {answer, status \o answer, answer \o status} : wire' = wire \o u
  <2>1. wire \in Seq(Lines) /\ status \in Seq(Lines) /\ answer \in Seq(Lines)
    BY <1>4, <1>5 DEF Fits, TypeInv, TypeOK, TransportTypeOK
  <2>2. \/ wire' = wire \o answer
        \/ wire' = (wire \o status) \o answer
        \/ wire' = (wire \o answer) \o status
    BY DEF ServeResume
  <2> HIDE DEF status, answer
  <2>3. (wire \o status) \o answer = wire \o (status \o answer) BY <2>1, ConcatAssociative
  <2>4. (wire \o answer) \o status = wire \o (answer \o status) BY <2>1, ConcatAssociative
  <2> QED BY <2>2, <2>3, <2>4
<1> HIDE DEF status, answer
<1>7. Fits(u) BY <1>4, <1>5, <1>6, FitTogether
<1>8. KnownTurns' BY <1>1, <1>2, <1>6, <1>7, ServedLines
<1>9. Whereabouts' BY <1>1, StaysFacts, MessageStays DEF MessageInvariant
<1> QED BY <1>1, <1>3, <1>8, <1>9, NoResolution DEF MessageInvariant

LEMMA ServeReadTells ==
  ASSUME TypeInv, TypeInv', MessageInvariant, ServeRead
  PROVE  MessageInvariant'
<1> DEFINE line == Reply(TRUE, 0, turns)
<1>1. /\ req.kind = "read" /\ req' = NoReq /\ wire' = Append(wire, line)
      /\ UNCHANGED <<turns, lateMsgs, op, cache, uTurn, uSteer, submitted, waiting, verdict>>
  BY DEF ServeRead, session, history
<1>2. turns \in Seq(Turn) /\ Len(turns) <= MaxTurns /\ Len(turns) \in Nat /\ DOMAIN turns = 1 .. Len(turns)
  BY DEF TypeInv, TypeOK, ServerTypeOK
<1>3. line \in Lines /\ line.view = turns BY <1>2, TurnsAreView, Constants, ReplyTypes DEF Reply, Line
<1>4. Fits(<<line>>)
  <2>1. KnownNext(line) BY <1>1, <1>2 DEF KnownNext, Reply, Line
  <2> HIDE DEF line
  <2> QED BY <1>3, <2>1, FewFit
<1> HIDE DEF line
<1>5. wire' = wire \o <<line>> /\ OnWire(<<line>>) = {line}
  <2>1. wire \in Seq(Lines) BY DEF TypeInv, TypeOK, TransportTypeOK
  <2>2. OnWire(<<line>>) = {line} BY <1>3, <2>1, OnWireFacts
  <2> QED BY <1>1, <1>3, <2>1, <2>2, AppendIsConcat
<1>6. KnownTurns' /\ (\A l \in OnWire(wire') : l \in OnWire(wire) \/ l = line)
  <2>1. Len(turns) <= Len(turns') /\ UNCHANGED <<op, cache, uTurn>> BY <1>1, <1>2
  <2>2. KnownTurns' /\ (\A l \in OnWire(wire') : l \in OnWire(wire) \cup OnWire(<<line>>))
    BY <1>4, <1>5, <2>1, ServedLines
  <2> QED BY <1>5, <2>2
<1>7. Whereabouts' BY <1>1, StaysFacts, MessageStays DEF MessageInvariant
<1>8. ResolvesByTheTruth'
  <2>1. ~req.orphan /\ NoReplies(wire) BY <1>1, StillAwaited
  <2>2. op.reply = NoReply BY <1>1, <2>1 DEF TypeInv, RequestAwaited
  <2>3. ~Sends(req') BY <1>1, NoOpMeans
  <2>4. ShowsNext(turns) BY <1>1 DEF ShowsNext, TimelyMsgs, Contains
  <2>5. ASSUME NEW i \in DOMAIN wire', wire'[i].kind = "reply" PROVE ShowsNext(wire'[i].view)
    <3>1. wire'[i] \in OnWire(wire') BY DEF OnWire
    <3>2. wire'[i] \notin OnWire(wire) BY <2>1, <2>5 DEF OnWire, NoReplies
    <3> QED BY <1>3, <1>6, <2>4, <3>1, <3>2
  <2> QED BY <1>1, <2>2, <2>3, <2>5 DEF ResolvesByTheTruth, ShowsNext, Shows, Sends
<1> QED BY <1>6, <1>7, <1>8 DEF MessageInvariant

LEMMA EndTurnTells ==
  ASSUME TypeInv, TypeInv', MessageInvariant, EndTurn
  PROVE  MessageInvariant'
<1>1. PICK t \in DOMAIN turns :
        /\ turns' = [turns EXCEPT ![t].status = "ended"]
        /\ wire' \in {wire \o Notify(<<TurnLine("completed", t, turns'[t]), Line("idle")>>),
                      wire \o Notify(<<Line("idle"), TurnLine("completed", t, turns'[t])>>)}
  BY DEF EndTurn
<1>2. UNCHANGED <<lateMsgs, op, req, cache, uTurn, uSteer, submitted, waiting, verdict>>
  BY DEF EndTurn, session, history
<1>3. /\ turns \in Seq(Turn) /\ Len(turns) \in Nat /\ Len(turns) <= MaxTurns
      /\ turns' \in Seq(Turn) /\ Len(turns') \in Nat
  BY DEF TypeInv, TypeOK, ServerTypeOK
<1>4. SameMessages
  <2>1. ASSUME NEW s \in DOMAIN turns PROVE turns'[s].msgs = turns[s].msgs
    BY <1>1, <2>1, TurnMessages DEF Turn
  <2> QED BY <1>1, <1>2, <2>1 DEF SameMessages, TimelyMsgs
<1>5. Len(turns') = Len(turns) /\ t \in 1 .. Len(turns') BY <1>1, <1>3
<1> DEFINE completed == TurnLine("completed", t, turns'[t])
<1>6. completed \in Lines /\ completed.kind = "completed" /\ KnownNext(completed)
  <2>1. t \in MaybeNumber /\ t <= Len(turns') BY <1>1, <1>3, <1>5, ConstantsAssumption DEF MaybeNumber
  <2>2. turns'[t] \in Turn BY <1>3, <1>5
  <2> QED BY <2>1, <2>2, LineTypes, LineFits DEF TurnLine, Line
<1>7. Line("idle") \in Lines /\ Line("idle").kind = "idle" /\ KnownNext(Line("idle"))
  BY LineTypes, LineFits DEF Line
<1>8. PICK u \in {Notify(<<completed, Line("idle")>>), Notify(<<Line("idle"), completed>>)} : wire' = wire \o u
  BY <1>1
<1> HIDE DEF completed
<1>9. Fits(u) /\ \A l \in OnWire(u) : l.kind # "reply"
  <2>1. /\ Fits(<<completed, Line("idle")>>) /\ Fits(<<Line("idle"), completed>>) /\ Fits(<< >>)
    BY <1>6, <1>7, FewFit
  <2>2. /\ OnWire(<<completed, Line("idle")>>) = {completed, Line("idle")}
        /\ OnWire(<<Line("idle"), completed>>) = {completed, Line("idle")}
        /\ OnWire(<< >>) = {}
    BY TwoOnWire DEF OnWire
  <2> QED BY <1>6, <1>7, <1>8, <2>1, <2>2 DEF Notify
<1>10. KnownTurns' /\ (\A l \in OnWire(wire') : l \in OnWire(wire) \cup OnWire(u))
  <2>1. Len(turns) <= Len(turns') /\ UNCHANGED <<op, cache, uTurn>> BY <1>2, <1>3, <1>5
  <2> QED BY <1>8, <1>9, <2>1, ServedLines
<1>11. Whereabouts' BY <1>2, <1>4, StaysFacts, MessageStays DEF MessageInvariant
<1>12. ResolvesByTheTruth' BY <1>2, <1>4, <1>9, <1>10, ResolutionStays DEF MessageInvariant
<1> QED BY <1>10, <1>11, <1>12 DEF MessageInvariant

\* What the App Server serves for a replaced connection brings late messages only.
LEMMA ServeStrayTells ==
  ASSUME TypeInv, TypeInv', MessageInvariant, ServeStrayStart \/ ServeStraySteer
  PROVE  MessageInvariant'
<1>1. UNCHANGED <<req, op, cache, uTurn, uSteer, submitted, waiting, verdict>>
  BY DEF ServeStrayStart, ServeStraySteer, session
<1>2. /\ turns \in Seq(Turn) /\ Len(turns) \in Nat
      /\ turns' \in Seq(Turn) /\ Len(turns') \in Nat
  BY DEF TypeInv, TypeOK, ServerTypeOK
<1>3. /\ SameMessages /\ Len(turns) <= Len(turns')
      /\ \E u : Fits(u) /\ wire' = wire \o u /\ \A l \in OnWire(u) : l.kind # "reply"
  <2>1. CASE ServeStrayStart
    <3> DEFINE t == Len(turns) + 1
               fresh(r) == [status |-> "inProgress", msgs |-> {r.msg}, late |-> TRUE]
               started(r) == TurnLine("started", t, fresh(r))
    <3>1. PICK r \in strays :
            /\ turns' = Append(turns, fresh(r)) /\ lateMsgs' = lateMsgs \cup {r.msg}
            /\ wire' = wire \o Notify(<<Line("active"), started(r)>>)
      BY <2>1 DEF ServeStrayStart
    <3>2. r.msg \in Msgs BY DEF TypeInv, TypeOK, TransportTypeOK
    <3>3. fresh(r) \in Turn /\ fresh(r).msgs = {r.msg} BY <3>2 DEF Turn
    <3>4. t \in Numbers /\ t \in MaybeNumber
      BY <1>2, <2>1, Constants, ConstantsAssumption DEF ServeStrayStart, Numbers
    <3> HIDE DEF fresh
    <3>5. /\ Len(turns') = Len(turns) + 1 /\ turns'[Len(turns) + 1] = fresh(r)
          /\ DOMAIN turns' = DOMAIN turns \cup {Len(turns) + 1}
          /\ \A k \in DOMAIN turns : turns'[k] = turns[k]
      BY <1>2, <3>1, <3>3
    <3>6. SameMessages BY <3>1, <3>3, <3>5 DEF SameMessages, TimelyMsgs
    <3>7. t <= Len(turns') /\ Len(turns) <= Len(turns') BY <1>2, <3>5
    <3> HIDE DEF t
    <3>8. /\ Line("active") \in Lines /\ KnownNext(Line("active")) /\ Line("active").kind # "reply"
          /\ started(r) \in Lines /\ KnownNext(started(r)) /\ started(r).kind # "reply"
      BY <3>3, <3>4, <3>7, LineTypes, LineFits DEF TurnLine, Line
    <3> HIDE DEF started
    <3>9. /\ Fits(Notify(<<Line("active"), started(r)>>))
          /\ \A l \in OnWire(Notify(<<Line("active"), started(r)>>)) : l.kind # "reply"
      <4>1. OnWire(<<Line("active"), started(r)>>) = {Line("active"), started(r)} /\ OnWire(<< >>) = {}
        BY TwoOnWire DEF OnWire
      <4> QED BY <3>8, <4>1, FewFit DEF Notify
    <3> QED BY <3>1, <3>6, <3>7, <3>9
  <2>2. CASE ServeStraySteer
    <3> DEFINE item(r) == TurnLine("item", r.turn, [turns[r.turn] EXCEPT !.msgs = {r.msg}])
    <3>1. PICK r \in strays :
            /\ LiveAt(turns, r.turn) /\ turns' = [turns EXCEPT ![r.turn].msgs = @ \cup {r.msg}]
            /\ lateMsgs' = lateMsgs \cup {r.msg} /\ wire' = wire \o Notify(<<item(r)>>)
      BY <2>2 DEF ServeStraySteer
    <3>2. r.msg \in Msgs /\ r.turn \in MaybeNumber BY DEF TypeInv, TypeOK, TransportTypeOK
    <3>3. r.turn \in DOMAIN turns /\ r.turn <= Len(turns) BY <1>2, <3>1 DEF LiveAt
    <3>4. Len(turns') = Len(turns) /\ item(r) \in Lines /\ item(r).kind # "reply" BY <3>1, <3>2, SteeredTurn
    <3>5. SameMessages
      <4>1. ASSUME NEW k \in DOMAIN turns PROVE turns'[k].msgs \subseteq turns[k].msgs \cup {r.msg}
        BY <3>1, <3>3, <4>1, TurnMessages DEF Turn
      <4>2. DOMAIN turns' = DOMAIN turns BY <3>1
      <4> QED BY <3>1, <4>1, <4>2 DEF SameMessages, TimelyMsgs
    <3>6. KnownNext(item(r)) BY <1>2, <3>3, <3>4, LineFits
    <3> HIDE DEF item
    <3>7. /\ Fits(Notify(<<item(r)>>))
          /\ \A l \in OnWire(Notify(<<item(r)>>)) : l.kind # "reply"
      <4>1. OnWire(<<item(r)>>) = {item(r)} /\ OnWire(<< >>) = {} BY DEF OnWire
      <4>2. Fits(<<item(r)>>) /\ Fits(<< >>) BY <3>4, <3>6, FewFit
      <4> QED BY <3>4, <4>1, <4>2 DEF Notify
    <3>8. \E u : Fits(u) /\ wire' = wire \o u /\ \A l \in OnWire(u) : l.kind # "reply" BY <3>1, <3>7
    <3>9. Len(turns) <= Len(turns') BY <1>2, <3>4
    <3> QED BY <3>5, <3>8, <3>9
  <2> QED BY <2>1, <2>2
<1>4. PICK u : Fits(u) /\ wire' = wire \o u /\ \A l \in OnWire(u) : l.kind # "reply" BY <1>3
<1>5. KnownTurns' /\ (\A l \in OnWire(wire') : l \in OnWire(wire) \cup OnWire(u))
  BY <1>1, <1>3, <1>4, ServedLines
<1>6. Whereabouts' BY <1>1, <1>3, StaysFacts, MessageStays DEF MessageInvariant
<1>7. ResolvesByTheTruth' BY <1>1, <1>3, <1>4, <1>5, ResolutionStays DEF MessageInvariant
<1> QED BY <1>5, <1>6, <1>7 DEF MessageInvariant

----
LEMMA InitTells == Init => MessageInvariant
<1> SUFFICES ASSUME Init PROVE MessageInvariant OBVIOUS
<1>1. /\ op = NoOp /\ req = NoReq /\ wire = << >> /\ cache = NoTurns /\ submitted = {} /\ waiting = {}
      /\ uTurn = NoUncertainTurn /\ uSteer = NoUncertainSteer /\ verdict = [m \in Msgs |-> "none"]
      /\ turns \in {<< >>, <<EndedTurn>>}
  BY DEF Init
<1>2. Len(turns) \in Nat /\ DOMAIN turns \subseteq Nat /\ \A t \in DOMAIN turns : turns[t].msgs = {}
  BY <1>1 DEF EndedTurn
<1>3. \A m \in Msgs : ~(IsWaiting(m) \/ IsHeld(m) \/ IsSent(m) \/ IsAsked(m) \/ IsUncertain(m) \/ IsGivenBack(m) \/ IsApplied(m))
  BY <1>1, <1>2, NoOpMeans, ConstantsAssumption DEF IsWaiting, IsHeld, IsSent, IsAsked, IsUncertain,
    IsGivenBack, IsApplied, Sends, TimelyMsgs
<1>4. UnsentIsNowhere /\ OneCarrier BY <1>1, <1>3 DEF UnsentIsNowhere, OneCarrier, IsUncertain
<1>5. AskedAsSent /\ AppliedWhereSent /\ AtMostOnce
  BY <1>1, <1>2, NoOpMeans DEF AskedAsSent, AppliedWhereSent, AtMostOnce, TimelyMsgs
<1>6. SteersNameTurns /\ ResolvesWhatItFound /\ GivenBackIsUnsent
  BY <1>1, NoOpMeans DEF SteersNameTurns, ResolvesWhatItFound, GivenBackIsUnsent
<1>7. CacheKnown /\ HolderKnown /\ BaselineKnown /\ WireKnown
  BY <1>1, <1>2, NoOpMeans DEF CacheKnown, HolderKnown, BaselineKnown, WireKnown, Known, Exist
<1>8. ResolvesByTheTruth BY <1>1, NoOpMeans DEF ResolvesByTheTruth
<1> QED BY <1>4, <1>5, <1>6, <1>7, <1>8 DEF MessageInvariant, Whereabouts, KnownTurns

LEMMA StutterTells == ASSUME TypeInv, TypeInv', MessageInvariant, UNCHANGED vars PROVE MessageInvariant'
<1>1. UNCHANGED <<turns, lateMsgs, req, wire, op, cache, uTurn, uSteer, submitted, waiting, verdict>>
  BY DEF vars, server, transport, session, history
<1> QED BY <1>1, StaysFacts, QuietTells

LEMMA NextTells == ASSUME TypeInv, TypeInv', MessageInvariant, Next PROVE MessageInvariant'
<1>1. CASE Submit BY <1>1, AcceptTells, AcceptResolveTells DEF Submit
<1>2. CASE Begin BY <1>2, BeginStartTells, BeginSteerTells, BeginReadTells, BeginResolveTells DEF Begin
<1>3. CASE Continue
  BY <1>3, BeginReadTells, ResumedTells, ReadDoneTells, DelayOverTells, ResolveReadTells,
    ResolveNotAppliedTells, SendTells, RespondedTells DEF Continue
<1>4. CASE Handle BY <1>4, HandleReplyTells, HandleStatusTells, HandleTurnTells, HandleItemTells DEF Handle
<1>5. CASE FinishTimer BY <1>5, FinishTimerTells
<1>6. CASE Lose BY <1>6, LossTells, ReadTimeoutTells, CrashTells DEF Lose
<1>7. CASE Recover BY <1>7, TransportClosedTells, ReconnectTells DEF Recover
<1>8. CASE Serve BY <1>8, ServeStartTells, ServeSteerTells, ServeResumeTells, ServeReadTells DEF Serve
<1>9. CASE EndTurn BY <1>9, EndTurnTells
<1>10. CASE ServeStray BY <1>10, ServeStrayTells DEF ServeStray
<1> QED BY <1>1, <1>2, <1>3, <1>4, <1>5, <1>6, <1>7, <1>8, <1>9, <1>10 DEF Next

\* Where a message is: with a waiting call, with the lock's holder, asked of the
\* App Server, in a Turn or uncertain, and never in two of these that exclude each
\* other.  The invariant of startTurn, steer and resolveUncertainTurn.
THEOREM MessagesInductive == Spec => [](TypeInv /\ MessageInvariant)
<1>1. Init => TypeInv /\ MessageInvariant BY InitTypeInv, InitTells
<1>2. TypeInv /\ MessageInvariant /\ [Next]_vars => (TypeInv /\ MessageInvariant)'
  BY NextKeeps, StutterKeeps, NextTells, StutterTells
<1> QED BY <1>1, <1>2, PTL DEF Spec

\* A prompt ends up in at most one Turn, whatever connection is lost while it is
\* sent and however its browser resolves it: resolveUncertainTurn takes it out of
\* userMessageResults only when no request of its connection or of a later one can
\* apply it any more.  What a shared App Server still applies of a connection that
\* was replaced is not counted, and nothing is assumed of when that happens.
THEOREM SentOnce == Spec => []AtMostOnce
<1>1. MessageInvariant => AtMostOnce BY DEF MessageInvariant, Whereabouts
<1> QED BY <1>1, MessagesInductive, PTL

\* uncertainTurn.notApplied tells the truth, and goes on doing so until the browser
\* sends the prompt again: resolveUncertainTurn gives back what no Turn has.  It may
\* become untrue in one way, which is named: a shared App Server comes to a request
\* of a connection that was replaced meanwhile (ServeStray).
THEOREM TruthfulRefusal == Spec => []NotAppliedIsTrue
<1>1. MessageInvariant => NotAppliedIsTrue
  BY DEF MessageInvariant, Whereabouts, GivenBackIsUnsent, UnsentIsNowhere, NotAppliedIsTrue, IsApplied, TimelyMsgs
<1> QED BY <1>1, MessagesInductive, PTL

----
(* Guarded starts: facts about the data. *)

LEMMA Places ==
  ASSUME TypeInv
  PROVE  /\ wire \in Seq(Lines) /\ Len(wire) \in Nat /\ DOMAIN wire = 1 .. Len(wire)
         /\ turns \in Seq(Turn) /\ Len(turns) \in Nat /\ DOMAIN turns = 1 .. Len(turns)
         /\ \A t \in DOMAIN turns : turns[t] \in Turn
BY DEF TypeInv, TypeOK, TransportTypeOK, ServerTypeOK

LEMMA LastIsLive ==
  ASSUME TypeInv, TimelyLive, NEW view \in View, Exist(DOMAIN view), SeesLive(view)
  PROVE  LiveAt(view, LastOf(view)) /\ LastOf(view) # 0
<1>1. Len(turns) \in DOMAIN view /\ Running(view[Len(turns)]) BY DEF SeesLive, LiveAt
<1>2. /\ LastOf(view) \in DOMAIN view /\ Len(turns) <= LastOf(view)
      /\ DOMAIN view \subseteq Numbers
  BY <1>1, LastOfType
<1>3. LastOf(view) <= Len(turns) BY <1>2 DEF Exist
<1>4. Len(turns) \in Nat /\ LastOf(view) \in Nat /\ LastOf(view) # 0
  BY <1>2, Places, ConstantsAssumption DEF Numbers
<1>5. LastOf(view) = Len(turns) BY <1>2, <1>3, <1>4
<1> QED BY <1>1, <1>4, <1>5 DEF LiveAt

LEMMA MergeSees ==
  ASSUME NEW primary \in View, NEW live \in View, SeesLive(primary)
  PROVE  SeesLive(Merge(primary, live))
<1> SUFFICES ASSUME TimelyLive PROVE LiveAt(Merge(primary, live), Len(turns)) BY DEF SeesLive
<1> DEFINE t == Len(turns)
<1>1. t \in DOMAIN primary /\ primary[t].status = "inProgress" BY DEF SeesLive, LiveAt, Running
<1>2. primary[t] \in Turn BY <1>1, ViewElements
<1>3. /\ t \in DOMAIN Merge(primary, live)
      /\ Merge(primary, live)[t] \in {primary[t], [primary[t] EXCEPT !.msgs = @ \cup live[t].msgs]}
  BY <1>1 DEF Merge
<1>4. [primary[t] EXCEPT !.msgs = @ \cup live[t].msgs].status = primary[t].status BY <1>2 DEF Turn
<1> QED BY <1>1, <1>3, <1>4 DEF LiveAt, Running

\* A snapshot whose last Turn is in progress keeps the runtime busy.
LEMMA ReconciledIsBusy ==
  ASSUME NEW r \in Runtime, NEW view \in View, NEW accept \in BOOLEAN,
         LiveAt(view, LastOf(view)), LastOf(view) # 0
  PROVE  /\ ReconcileSnapshot(r, view, accept).reg.state = "disconnected"
         /\ ReconcileSnapshot(r, view, accept).outcome # "reconciled"
         /\ ReconcileSnapshot(r, view, accept).reg \in Runtime
<1>1. [r EXCEPT !.state = "disconnected", !.active = 0, !.flag = (r.interrupted = Unknown /\ r.baseline # Absent)].state
         = "disconnected"
  BY DEF Runtime
<1>2. ReconcileSnapshot(r, view, accept).reg \in Runtime BY ReconcileTypes
<1> QED BY <1>1, <1>2 DEF ReconcileSnapshot

LEMMA ConfirmedIsBusy ==
  ASSUME NEW r \in Runtime, NEW view \in View, NEW active,
         LiveAt(view, LastOf(view)), LastOf(view) # 0
  PROVE  IsBusy(ConfirmApplied(r, view, active)) /\ IsBusy(ConfirmNotApplied(r, view, active))
<1>1. IsBusy(SetActiveTurn(active)) BY DEF IsBusy, SetActiveTurn, Idle
<1>2. [r EXCEPT !.baseline = Absent, !.flag = FALSE] \in Runtime BY DEF Runtime
<1>3. /\ IsBusy(ReconcileSnapshot([r EXCEPT !.baseline = Absent, !.flag = FALSE], view, FALSE).reg)
      /\ IsBusy(ReconcileSnapshot(r, view, TRUE).reg)
  BY <1>2, ReconciledIsBusy DEF IsBusy
<1> QED BY <1>1, <1>3 DEF ConfirmApplied, ConfirmNotApplied

----
(* What is not told yet, and what guards it. *)

LEMMA LiveIsUnseen ==
  ASSUME TypeInv, TimelyLive \/ ~NoNews
  PROVE  \E e \in 1 .. Len(wire) + 1 : Unseen(e)
<1>1. CASE NoNews BY <1>1, Places DEF Unseen
<1>2. CASE ~NoNews BY <1>2, Places DEF Unseen, NoNews
<1> QED BY <1>1, <1>2

\* Once nothing is to be told of a start, only its Turn in progress is guarded, and
\* nothing on the wire clears the runtime's state.
LEMMA GuardedToTheEnd ==
  ASSUME TypeInv, StartsAreGuarded, NoNews, ~Starting, link # "closing", NEW e \in 1 .. Len(wire) + 1, Unseen(e)
  PROVE  TimelyLive /\ e = Len(wire) + 1 /\ Unclearing(1, e - 1)
<1>1. TimelyLive /\ e = Len(wire) + 1 BY DEF Unseen, NoNews
<1> QED BY <1>1 DEF StartsAreGuarded, GuardedByRuntime, GuardedAsUncertain, GuardedByResponse

\* The connection, its lines and the Turns are the same.
SameNews == UNCHANGED <<turns, alive, subscribed, link, wire>>

LEMMA NewsStays ==
  ASSUME SameNews
  PROVE  /\ TimelyLive' = TimelyLive /\ NoNews' = NoNews
         /\ \A e : Unseen(e)' = Unseen(e)
         /\ \A first, last : Unclearing(first, last)' = Unclearing(first, last)
         /\ Len(wire') = Len(wire)
         /\ OneAtATime => OneAtATime'
<1>1. turns' = turns /\ wire' = wire BY DEF SameNews
<1>2. TimelyLive' = TimelyLive /\ NoNews' = NoNews BY <1>1 DEF TimelyLive, IsLive, LiveAt, NoNews
<1>3. \A e : Unseen(e)' = Unseen(e) BY <1>1, <1>2 DEF Unseen
<1>4. \A first, last : Unclearing(first, last)' = Unclearing(first, last) BY <1>1 DEF Unclearing
<1>5. OneAtATime => OneAtATime' BY <1>1, <1>2 DEF OneAtATime
<1> QED BY <1>1, <1>2, <1>3, <1>4, <1>5

LEMMA GuardsStay ==
  ASSUME TypeInv, StartsAreGuarded, SameNews, IsBusy(reg) => IsBusy(reg'), UNCHANGED uTurn, ~Starting
  PROVE  StartsAreGuarded'
<1> SUFFICES ASSUME NEW e \in 1 .. Len(wire') + 1, Unseen(e)'
             PROVE  (GuardedByRuntime(e) \/ GuardedAsUncertain(e) \/ GuardedByResponse(e))'
  BY DEF StartsAreGuarded
<1>1. e \in 1 .. Len(wire) + 1 /\ Unseen(e) /\ Unclearing(1, e - 1)' = Unclearing(1, e - 1) /\ link' = link
  BY NewsStays DEF SameNews
<1>2. GuardedByRuntime(e) \/ GuardedAsUncertain(e) BY <1>1 DEF StartsAreGuarded, GuardedByResponse
<1> QED BY <1>1, <1>2 DEF GuardedByRuntime, GuardedAsUncertain

\* The runtime is reconciled with a snapshot that is newer than what was told.
LEMMA GuardsRenewed ==
  ASSUME TypeInv, StartsAreGuarded, SameNews, NoNews, ~Starting, link # "closing",
         TimelyLive => IsBusy(reg')
  PROVE  StartsAreGuarded'
<1> SUFFICES ASSUME NEW e \in 1 .. Len(wire') + 1, Unseen(e)'
             PROVE  GuardedByRuntime(e)'
  BY DEF StartsAreGuarded
<1>1. e \in 1 .. Len(wire) + 1 /\ Unseen(e) /\ Unclearing(1, e - 1)' = Unclearing(1, e - 1)
  BY NewsStays DEF SameNews
<1>2. TimelyLive /\ Unclearing(1, e - 1) BY <1>1, GuardedToTheEnd
<1> QED BY <1>1, <1>2 DEF GuardedByRuntime

\* What the steps of an operation have in common.
HolderMoves ==
  /\ SameNews
  /\ op'.kind = "start" =>
        \/ op.kind = "start" /\ op.phase # "mutate" /\ UNCHANGED uTurn
        \/ op'.phase # "mutate" /\ NoActiveTurn(reg', uTurn')
  /\ req'.kind = "start" => req.kind = "start" \/ (op.kind = "start" /\ op.phase # "mutate")
  /\ link # "up" => op'.phase \notin Awaits \/ op'.reply # NoReply
  /\ op'.reply \in {NoReply, Refused}
  /\ op'.phase = "read" => NoReplies(wire)
  /\ req'.orphan => req' = req
  /\ UNCHANGED uTurn \/ ~req.orphan
  /\ op'.phase = "settle" => ~req.orphan /\ NoNews /\ link # "closing" /\ SeesLive(op'.view)

LEMMA HolderStarts ==
  ASSUME TypeInv, TypeInv', StartInvariant, HolderMoves, StartsAreGuarded'
  PROVE  StartInvariant'
<1>1. /\ TimelyLive' = TimelyLive /\ NoNews' = NoNews /\ OneAtATime'
      /\ turns' = turns /\ wire' = wire /\ link' = link /\ alive' = alive /\ subscribed' = subscribed
  BY NewsStays DEF HolderMoves, SameNews, StartInvariant
<1>2. ~Refused.ok BY DEF Refused, Reply, Line
<1>3. NothingRuns'
  <2>1. op'.kind = "start" => uTurn'.msg = NoMsg BY DEF HolderMoves, StartInvariant, NothingRuns, NoActiveTurn
  <2>2. req'.kind = "start" => ~TimelyLive' /\ NoNews' BY <1>1 DEF HolderMoves, StartInvariant, NothingRuns
  <2>3. op'.kind = "start" /\ op'.phase # "mutate" => ~TimelyLive' /\ NoNews'
    <3>1. CASE op.kind = "start" /\ op.phase # "mutate" BY <1>1, <3>1 DEF StartInvariant, NothingRuns
    <3>2. CASE op'.phase # "mutate" /\ NoActiveTurn(reg', uTurn')
      <4>1. ~Starting' /\ uTurn'.msg = NoMsg /\ ~IsBusy(reg') BY <3>2 DEF Starting, NoActiveTurn, IsBusy
      <4>2. \A e : ~(GuardedByRuntime(e) \/ GuardedAsUncertain(e) \/ GuardedByResponse(e))'
        BY <4>1 DEF GuardedByRuntime, GuardedAsUncertain, GuardedByResponse
      <4>3. \A e \in 1 .. Len(wire) + 1 : ~Unseen(e) BY <4>2, NewsStays DEF HolderMoves, StartsAreGuarded
      <4> QED BY <1>1, <4>3, LiveIsUnseen
    <3> QED BY <3>1, <3>2 DEF HolderMoves
  <2> QED BY <2>1, <2>2, <2>3 DEF NothingRuns
<1>4. ReadsAreFresh'
  <2>1. op'.phase = "read" => \A r \in DOMAIN wire' : wire'[r].kind # "reply" BY <1>1 DEF HolderMoves, NoReplies
  <2>2. ~(op'.reply # NoReply /\ op'.reply.ok) BY <1>2 DEF HolderMoves
  <2>3. op'.phase = "settle" => NoNews' /\ link' # "closing" /\ SeesLive(op.view)'
    BY <1>1 DEF HolderMoves, SeesLive
  <2> QED BY <2>1, <2>2, <2>3 DEF ReadsAreFresh
<1>5. OrphansAreUncertain' BY <1>1, <1>2 DEF HolderMoves, StartInvariant, OrphansAreUncertain
<1>6. LostIsSilent' BY <1>1 DEF HolderMoves, StartInvariant, LostIsSilent, Awaits
<1> QED BY <1>1, <1>3, <1>4, <1>5, <1>6 DEF StartInvariant

----
(* The operations. *)

\* The runtime is as busy as it was, and nothing else happens.
LEMMA StandStill ==
  ASSUME StartInvariant, UNCHANGED <<turns, alive, subscribed, req, link, wire, op, uTurn>>,
         IsBusy(reg) => IsBusy(reg')
  PROVE  StartInvariant'
<1>1. /\ TimelyLive' = TimelyLive /\ NoNews' = NoNews /\ OneAtATime'
      /\ \A e : Unseen(e)' = Unseen(e)
      /\ \A first, last : Unclearing(first, last)' = Unclearing(first, last)
  BY NewsStays DEF SameNews, StartInvariant
<1>2. StartsAreGuarded'
  <2>1. \A e : GuardedByRuntime(e) => GuardedByRuntime(e)' BY <1>1 DEF GuardedByRuntime
  <2>2. \A e : GuardedAsUncertain(e) => GuardedAsUncertain(e)' BY <1>1 DEF GuardedAsUncertain
  <2>3. \A e : GuardedByResponse(e) => GuardedByResponse(e)' BY <1>1 DEF GuardedByResponse, Starting
  <2> QED BY <1>1, <2>1, <2>2, <2>3 DEF StartInvariant, StartsAreGuarded
<1>3. NothingRuns' BY <1>1 DEF StartInvariant, NothingRuns
<1>4. ReadsAreFresh'
  <2>1. \A view : SeesLive(view) => SeesLive(view)' BY <1>1 DEF SeesLive
  <2> QED BY <1>1, <2>1 DEF StartInvariant, ReadsAreFresh
<1>5. OrphansAreUncertain' /\ LostIsSilent' BY DEF StartInvariant, OrphansAreUncertain, LostIsSilent
<1> QED BY <1>1, <1>2, <1>3, <1>4, <1>5 DEF StartInvariant

LEMMA QuietStarts ==
  ASSUME StartInvariant,
         \/ \E m \in Msgs : AcceptStart(m) \/ AcceptScheduled(m) \/ AcceptSteer(m)
         \/ AcceptResolve
         \/ ListDisconnected
         \/ FinishTimer
  PROVE  StartInvariant'
<1>1. CASE \E m \in Msgs : AcceptStart(m) \/ AcceptScheduled(m) \/ AcceptSteer(m)
  BY <1>1, StandStill DEF AcceptStart, AcceptScheduled, AcceptSteer, Accept, server, transport
<1>2. CASE AcceptResolve BY <1>2, StandStill DEF AcceptResolve, server, transport
<1>3. CASE ListDisconnected BY <1>3, StandStill DEF ListDisconnected, server, transport, session
<1>4. CASE FinishTimer
  <2>1. IsBusy(reg) => IsBusy(reg')
    <3>1. reg.state = "finished" /\ reg' = [reg EXCEPT !.state = "idle"] BY <1>4 DEF FinishTimer
    <3>2. reg'.active = reg.active \/ reg' = reg BY <3>1
    <3> QED BY <3>1 DEF IsBusy
  <2> QED BY <1>4, <2>1, StandStill DEF FinishTimer, server, transport, session
<1> QED BY <1>1, <1>2, <1>3, <1>4

LEMMA AskOrphan ==
  ASSUME NEW o, NEW phase, NEW m, NEW t, Ask(o, phase, m, t)
  PROVE  req'.orphan => req' = req
BY DEF Ask, Request, NoReq

\* The holder of the lock asks, or is refused.
LEMMA AskStarts ==
  ASSUME TypeInv, TypeInv', StartInvariant, SameNews, UNCHANGED <<reg, uTurn>>, NoneAwaited, ~Starting,
         NEW o \in Operations, NEW phase \in Awaits, NEW m, NEW t, Ask(o, phase, m, t),
         o.kind = "start" => \/ op.kind = "start" /\ op.phase # "mutate"
                             \/ phase # "mutate" /\ NoActiveTurn(reg, uTurn)
  PROVE  StartInvariant'
<1>1. /\ op'.kind = o.kind /\ op'.phase = phase
      /\ \/ op'.reply = NoReply /\ req'.kind = (IF phase = "mutate" THEN o.kind ELSE phase)
         \/ op'.reply = Refused /\ req' = req
  BY AskMeans
<1>2. link # "up" => op'.reply = Refused BY DEF Ask, Operations
<1>3. Refused # NoReply BY DEF Refused, NoReply, Reply, Line
<1>4. StartsAreGuarded' BY GuardsStay DEF StartInvariant
<1>5. NoReplies(wire) BY NoneAwaitedMeans
<1>6. phase # "settle" /\ phase # "start" BY DEF Awaits
<1>7. HolderMoves BY <1>1, <1>2, <1>3, <1>5, <1>6, AskOrphan DEF HolderMoves
<1> QED BY <1>4, <1>7, HolderStarts

\* It does not ask.
LEMMA RestStarts ==
  ASSUME TypeInv, TypeInv', StartInvariant, SameNews, UNCHANGED req, StartsAreGuarded',
         UNCHANGED uTurn \/ ~req.orphan,
         op'.phase \notin Awaits \cup {"settle"}, op'.reply = NoReply,
         op'.kind = "start" => \/ op.kind = "start" /\ op.phase # "mutate" /\ UNCHANGED uTurn
                               \/ NoActiveTurn(reg', uTurn')
  PROVE  StartInvariant'
<1>1. HolderMoves BY DEF HolderMoves, Awaits
<1> QED BY <1>1, HolderStarts

LEMMA BeginStartStarts ==
  ASSUME TypeInv, TypeInv', StartInvariant, NEW m \in waiting, BeginStart(m) \/ BeginScheduled(m)
  PROVE  StartInvariant'
<1>1. LockFree /\ SameNews /\ UNCHANGED <<reg, uTurn>>
  BY DEF BeginStart, BeginScheduled, Take, SameNews, transport
<1>2. NoneAwaited /\ ~Starting BY <1>1, LockFreeMeans DEF LockFree, Starting
<1>3. m.kind \in {"start", "scheduled"} => m.msg \in MaybeMsg BY Constants DEF TypeInv, MessagesInFlight
<1>4. CASE UNCHANGED <<op, req>> BY <1>1, <1>4, StandStill DEF SameNews
<1>5. ASSUME NEW kind \in {"start", "scheduled"}, m.kind = kind,
             Ask([Operation(kind, "resume") EXCEPT !.msg = m.msg], "resume", NoMsg, 0),
             kind = "start" => NoActiveTurn(reg, uTurn)
      PROVE  StartInvariant'
  <2> DEFINE o == [Operation(kind, "resume") EXCEPT !.msg = m.msg]
  <2>1. o \in Operations /\ o.kind = kind BY <1>3, <1>5, OperationTypes DEF Operations
  <2> HIDE DEF o
  <2>2. Ask(o, "resume", NoMsg, 0) /\ "resume" \in Awaits /\ "resume" # "mutate" BY <1>5 DEF o, Awaits
  <2> QED BY <1>1, <1>2, <1>5, <2>1, <2>2, AskStarts
<1>6. CASE /\ op' = [Operation("start", "ready") EXCEPT !.msg = m.msg] /\ UNCHANGED req
           /\ NoActiveTurn(reg, uTurn)
  <2>1. op'.phase = "ready" /\ op'.reply = NoReply /\ op'.kind = "start" BY <1>6 DEF Operation, NoOp
  <2>2. StartsAreGuarded' BY <1>1, <1>2, GuardsStay DEF StartInvariant
  <2> QED BY <1>1, <1>6, <2>1, <2>2, RestStarts DEF Awaits
<1>7. CASE BeginStart(m) BY <1>4, <1>5, <1>6, <1>7 DEF BeginStart, Take
<1>8. CASE BeginScheduled(m) BY <1>4, <1>5, <1>8 DEF BeginScheduled, Take
<1> QED BY <1>7, <1>8

LEMMA BeginSteerStarts ==
  ASSUME TypeInv, TypeInv', StartInvariant, NEW m \in waiting, BeginSteer(m)
  PROVE  StartInvariant'
<1>1. /\ LockFree /\ SameNews /\ UNCHANGED <<reg, uTurn, req>>
      /\ op' \in {op, [Operation("steer", "ready") EXCEPT !.msg = m.msg, !.turn = m.turn]}
  BY DEF BeginSteer, Take, SameNews, transport, server
<1>2. NoneAwaited /\ ~Starting BY <1>1, LockFreeMeans DEF LockFree, Starting
<1>3. CASE UNCHANGED op BY <1>1, <1>3, StandStill DEF SameNews
<1>4. CASE op' = [Operation("steer", "ready") EXCEPT !.msg = m.msg, !.turn = m.turn]
  <2>1. op'.phase = "ready" /\ op'.reply = NoReply /\ op'.kind = "steer" BY <1>4 DEF Operation, NoOp
  <2>2. StartsAreGuarded' BY <1>1, <1>2, GuardsStay DEF StartInvariant
  <2> QED BY <1>1, <2>1, <2>2, RestStarts DEF Awaits
<1> QED BY <1>1, <1>3, <1>4

LEMMA BeginReadStarts ==
  ASSUME TypeInv, TypeInv', StartInvariant, BeginRead \/ BeginReconcile
  PROVE  StartInvariant'
<1>1. /\ LockFree /\ SameNews /\ UNCHANGED <<reg, uTurn>>
      /\ \E kind \in {"read", "reconcile"} : Ask(Operation(kind, "resume"), "resume", NoMsg, 0)
  BY DEF BeginRead, BeginReconcile, SameNews, transport
<1>2. NoneAwaited /\ ~Starting BY <1>1, LockFreeMeans DEF LockFree, Starting
<1>3. PICK kind \in {"read", "reconcile"} : Ask(Operation(kind, "resume"), "resume", NoMsg, 0) BY <1>1
<1>4. Operation(kind, "resume") \in Operations /\ Operation(kind, "resume").kind # "start"
  BY <1>3, OperationTypes
<1> QED BY <1>1, <1>2, <1>3, <1>4, AskStarts DEF Awaits

LEMMA BeginResolveStarts ==
  ASSUME TypeInv, TypeInv', StartInvariant, BeginResolve
  PROVE  StartInvariant'
<1> DEFINE o == [Operation("resolve", "read") EXCEPT !.msg = uSteer.msg, !.turn = uSteer.turn, !.base = uTurn.base]
<1>1. /\ LockFree /\ SameNews /\ UNCHANGED <<reg, uTurn>>
      /\ UNCHANGED <<op, req>> \/ Ask(o, "read", NoMsg, 0)
  BY DEF BeginResolve, Take, SameNews, transport
<1>2. NoneAwaited /\ ~Starting BY <1>1, LockFreeMeans DEF LockFree, Starting
<1>3. o \in Operations /\ o.kind = "resolve" BY OperationTypes DEF Operations, TypeInv, TypeOK, SessionTypeOK
<1> HIDE DEF o
<1>4. CASE UNCHANGED <<op, req>> BY <1>1, <1>4, StandStill DEF SameNews
<1>5. CASE Ask(o, "read", NoMsg, 0) BY <1>1, <1>2, <1>3, <1>5, AskStarts DEF Awaits
<1> QED BY <1>1, <1>4, <1>5

LEMMA ResumedStarts ==
  ASSUME TypeInv, TypeInv', StartInvariant, Resumed
  PROVE  StartInvariant'
<1>1. /\ op.phase = "resume" /\ NoneAwaited /\ ~Starting
      /\ SameNews /\ UNCHANGED <<reg, uTurn>>
  BY SettledMeans DEF Resumed, SameNews, transport, Starting
<1>2. StartsAreGuarded' BY <1>1, GuardsStay DEF StartInvariant
<1>3. CASE op' = NoOp /\ UNCHANGED req BY <1>1, <1>2, <1>3, NoOpMeans, RestStarts DEF Awaits
<1>4. CASE op' = [op EXCEPT !.phase = "ready", !.reply = NoReply] /\ UNCHANGED req
  <2>1. op'.kind = op.kind /\ op'.phase = "ready" /\ op'.reply = NoReply BY <1>4, TypedParts DEF Operations
  <2> QED BY <1>1, <1>2, <1>4, <2>1, RestStarts DEF Awaits
<1>5. CASE Ask(op, "read", NoMsg, 0) BY <1>1, <1>5, TypedParts, AskStarts DEF Awaits
<1> QED BY <1>3, <1>4, <1>5 DEF Resumed, Release

LEMMA DelayOverStarts ==
  ASSUME TypeInv, TypeInv', StartInvariant, DelayOver
  PROVE  StartInvariant'
<1>1. /\ op.phase = "delay" /\ Ask(op, "read", NoMsg, 0)
      /\ SameNews /\ UNCHANGED <<reg, uTurn>>
  BY DEF DelayOver, SameNews, transport
<1>2. NoneAwaited /\ ~Starting BY <1>1, SettledMeans DEF Awaits, Starting
<1> QED BY <1>1, <1>2, TypedParts, AskStarts DEF Awaits

LEMMA SendStarts ==
  ASSUME TypeInv, TypeInv', StartInvariant, Send
  PROVE  StartInvariant'
<1> DEFINE base == IF op.kind = "start" THEN LastOf(cache) ELSE op.base
           o == [op EXCEPT !.base = base]
<1>1. /\ op.phase = "ready" /\ Ask(o, "mutate", op.msg, op.turn)
      /\ SameNews /\ UNCHANGED <<reg, uTurn>>
  BY DEF Send, SameNews, transport
<1>2. NoneAwaited /\ ~Starting BY <1>1, SettledMeans DEF Awaits, Starting
<1>3. o \in Operations /\ o.kind = op.kind
  <2>1. base \in MaybeNumber BY TypedParts, LastOfType DEF Operations
  <2> HIDE DEF base
  <2> QED BY <2>1, TypedParts DEF Operations
<1> HIDE DEF base, o
<1> QED BY <1>1, <1>2, <1>3, AskStarts DEF Awaits

\* The response of a start says what the Turn's news say.
LEMMA RespondedStarts ==
  ASSUME TypeInv, TypeInv', StartInvariant, Responded
  PROVE  StartInvariant'
<1>1. /\ op.phase = "mutate" /\ op.reply # NoReply /\ op' = NoOp
      /\ SameNews /\ UNCHANGED req
      /\ IF op.kind = "start" /\ op.reply.ok
         THEN uTurn' = NoUncertainTurn /\ reg' = SetActiveTurn(op.reply.turn)
         ELSE UNCHANGED <<uTurn, reg>>
  BY DEF Responded, Settled, Release, SameNews, server, transport
<1>2. UNCHANGED uTurn \/ ~req.orphan BY <1>1 DEF StartInvariant, OrphansAreUncertain
<1>3. IsBusy(SetActiveTurn(op.reply.turn)) BY DEF IsBusy, SetActiveTurn, Idle
<1>4. StartsAreGuarded'
  <2> SUFFICES ASSUME NEW e \in 1 .. Len(wire') + 1, Unseen(e)'
               PROVE  (GuardedByRuntime(e) \/ GuardedAsUncertain(e) \/ GuardedByResponse(e))'
    BY DEF StartsAreGuarded
  <2>1. e \in 1 .. Len(wire) + 1 /\ Unseen(e) /\ Unclearing(1, e - 1)' = Unclearing(1, e - 1) /\ link' = link
    BY <1>1, NewsStays DEF SameNews
  <2>2. GuardedByRuntime(e) \/ GuardedAsUncertain(e) \/ GuardedByResponse(e)
    BY <2>1 DEF StartInvariant, StartsAreGuarded
  <2>3. CASE GuardedByRuntime(e) BY <1>1, <1>3, <2>1, <2>3 DEF GuardedByRuntime
  <2>4. CASE GuardedAsUncertain(e)
    <3>1. op.kind # "start" BY <2>4 DEF GuardedAsUncertain, StartInvariant, NothingRuns
    <3> QED BY <1>1, <2>1, <2>4, <3>1 DEF GuardedAsUncertain
  <2>5. CASE GuardedByResponse(e) BY <1>1, <1>3, <2>1, <2>5 DEF GuardedByResponse, GuardedByRuntime, Starting
  <2> QED BY <2>2, <2>3, <2>4, <2>5
<1> QED BY <1>1, <1>2, <1>4, NoOpMeans, RestStarts DEF Awaits

\* A reconciled runtime lets a prompt through, or the operation ends or pauses.
LEMMA ProceedStarts ==
  ASSUME TypeInv, TypeInv', StartInvariant, op.phase = "read", SameNews, UNCHANGED req,
         UNCHANGED uTurn \/ ~req.orphan, StartsAreGuarded',
         \/ Proceed(reg', uTurn')
         \/ /\ op' = [op EXCEPT !.phase = "delay", !.reply = NoReply, !.tries = op.tries + 1, !.view = cache']
            /\ UNCHANGED uTurn
         \/ Release(op.kind)
  PROVE  StartInvariant'
<1>1. CASE op' = NoOp BY <1>1, NoOpMeans, RestStarts DEF Awaits
<1>2. CASE op' = [Operation("start", "ready") EXCEPT !.msg = op.msg] /\ NoActiveTurn(reg', uTurn')
  <2>1. op'.phase = "ready" /\ op'.reply = NoReply BY <1>2 DEF Operation, NoOp
  <2> QED BY <1>2, <2>1, RestStarts DEF Awaits
<1>3. CASE /\ op' = [op EXCEPT !.phase = "delay", !.reply = NoReply, !.tries = op.tries + 1, !.view = cache']
           /\ UNCHANGED uTurn
  <2>1. op'.phase = "delay" /\ op'.reply = NoReply /\ op'.kind = op.kind BY <1>3, TypedParts DEF Operations
  <2> QED BY <1>3, <2>1, RestStarts DEF Awaits
<1> QED BY <1>1, <1>2, <1>3 DEF Proceed, Release

\* What a read answered is as new as what was told.
LEMMA ReadMeans ==
  ASSUME TypeInv, StartInvariant, op.phase = "read", op.reply # NoReply, op.reply.ok
  PROVE  NoNews /\ link # "closing" /\ SeesLive(op.reply.view) /\ ~Starting /\ ~req.orphan
BY DEF StartInvariant, ReadsAreFresh, OrphansAreUncertain, Starting

LEMMA BusyIfLive ==
  ASSUME TypeInv, NEW view \in View, Exist(DOMAIN view), SeesLive(view), TimelyLive, NEW active
  PROVE  /\ \A r \in Runtime : IsBusy(ConfirmApplied(r, view, active)) /\ IsBusy(ConfirmNotApplied(r, view, active))
         /\ LET r == ReconcileSnapshot(reg, view, FALSE)
            IN  IsBusy(r.reg) /\ r.reg \in Runtime
<1>1. LiveAt(view, LastOf(view)) /\ LastOf(view) # 0 BY LastIsLive
<1>2. reg \in Runtime BY TypedParts
<1> QED BY <1>1, <1>2, ReconciledIsBusy, ConfirmedIsBusy DEF IsBusy

LEMMA ReconcileRuntimeStarts ==
  ASSUME TypeInv, TypeInv', StartInvariant, op.phase = "read", op.reply # NoReply, op.reply.ok,
         NEW view \in View, Exist(DOMAIN view), SeesLive(view), ReconcileRuntime(view), SameNews, UNCHANGED req
  PROVE  StartInvariant'
<1> DEFINE r == ReconcileSnapshot(reg, view, FALSE)
           applied == uTurn.msg # NoMsg /\ StartApplied(view, uTurn.base)
           steered == IF LiveAt(view, uSteer.turn) THEN uSteer.turn ELSE 0
<1>1. NoNews /\ link # "closing" /\ ~Starting /\ ~req.orphan BY ReadMeans
<1>2. cache' = view BY DEF ReconcileRuntime
<1>3. reg \in Runtime BY TypedParts
<1>4. TimelyLive => IsBusy(ConfirmApplied(reg, view, steered)) /\ IsBusy(r.reg) /\ IsBusy(ConfirmApplied(r.reg, view, 0))
  <2> HIDE DEF steered
  <2> QED BY <1>3, BusyIfLive
<1> HIDE DEF r, applied, steered
<1>5. ASSUME Retry(view), UNCHANGED uTurn
      PROVE  \/ Proceed(reg', uTurn')
             \/ /\ op' = [op EXCEPT !.phase = "delay", !.reply = NoReply, !.tries = op.tries + 1, !.view = cache']
                /\ UNCHANGED uTurn
  BY <1>2, <1>5 DEF Retry
<1>6. CASE TimelyLive => IsBusy(reg')
  <2>1. StartsAreGuarded' BY <1>1, <1>6, GuardsRenewed DEF StartInvariant
  <2>2. Proceed(reg', uTurn') \/ (Retry(view) /\ UNCHANGED uTurn) BY DEF ReconcileRuntime
  <2> QED BY <1>1, <1>5, <2>1, <2>2, ProceedStarts
<1>7. CASE UNCHANGED <<uTurn, reg>> /\ Retry(view)
  <2>1. StartsAreGuarded' BY <1>1, <1>7, GuardsStay DEF StartInvariant
  <2> QED BY <1>1, <1>5, <1>7, <2>1, ProceedStarts
<1>8. \/ reg' \in {ConfirmApplied(reg, view, steered), r.reg, ConfirmApplied(r.reg, view, 0)}
      \/ UNCHANGED <<uTurn, reg>> /\ Retry(view)
  BY DEF ReconcileRuntime, r, applied, steered
<1> QED BY <1>4, <1>6, <1>7, <1>8

LEMMA ReadDoneStarts ==
  ASSUME TypeInv, TypeInv', MessageInvariant, StartInvariant, ReadDone
  PROVE  StartInvariant'
<1> DEFINE view == IF op.tries > 0 THEN Merge(op.reply.view, op.view)
                   ELSE IF op.kind = "read" THEN Merge(op.reply.view, cache)
                   ELSE op.reply.view
           conflict == op.kind = "scheduled" /\ op.tries = 0 /\ \E t \in DOMAIN view : LiveAt(view, t)
           reconcile == op.tries > 0 \/ op.kind = "reconcile" \/ reg.state = "disconnected"
<1>1. /\ op.phase = "read" /\ op.reply # NoReply /\ ~Starting
      /\ SameNews /\ UNCHANGED req /\ UNCHANGED <<turns, wire>>
  BY DEF ReadDone, Settled, SameNews, server, transport, Starting
<1>2. view \in View BY TypedParts, MergeType
<1>3. Exist(DOMAIN view) BY <1>1, StillKnown, KnownFacts
<1>4. op.reply.ok => SeesLive(view) BY <1>1, TypedParts, ReadMeans, MergeSees
<1>5. ASSUME UNCHANGED <<reg, uTurn>>, Release(op.kind) \/ Proceed(reg, uTurn)
      PROVE  StartInvariant'
  <2>1. StartsAreGuarded' BY <1>1, <1>5, GuardsStay DEF StartInvariant
  <2>2. Release(op.kind) \/ Proceed(reg', uTurn') BY <1>5
  <2> QED BY <1>1, <1>5, <2>1, <2>2, ProceedStarts
<1> HIDE DEF view
<1> QED
  <2>1. CASE ~op.reply.ok \/ conflict BY <2>1, <1>5 DEF ReadDone, view
  <2>2. CASE op.reply.ok /\ ~conflict /\ reconcile
    <3>1. ReconcileRuntime(view) BY <2>2 DEF ReadDone, view
    <3> QED BY <2>2, <3>1, <1>1, <1>2, <1>3, <1>4, ReconcileRuntimeStarts
  <2>3. CASE op.reply.ok /\ ~conflict /\ ~reconcile BY <2>3, <1>5 DEF ReadDone, view
  <2> QED BY <2>1, <2>2, <2>3

LEMMA ResolveReadStarts ==
  ASSUME TypeInv, TypeInv', MessageInvariant, StartInvariant, ResolveRead
  PROVE  StartInvariant'
<1> DEFINE view == Merge(op.reply.view, cache)
           steer == op.msg # NoMsg
           steered == IF steer /\ LiveAt(view, op.turn) THEN op.turn ELSE 0
           m == IF steer THEN op.msg ELSE uTurn.msg
<1>1. /\ op.phase = "read" /\ op.reply # NoReply /\ ~Starting /\ op.kind = "resolve"
      /\ SameNews /\ UNCHANGED req /\ UNCHANGED <<turns, wire>>
  BY DEF ResolveRead, Settled, SameNews, server, transport, Starting
<1>2. view \in View /\ reg \in Runtime BY TypedParts, MergeType
<1>3. Exist(DOMAIN view) BY <1>1, StillKnown, KnownFacts
<1>4. op.reply.ok => SeesLive(view) BY <1>1, TypedParts, ReadMeans, MergeSees
<1>5. CASE Release(op.kind) /\ UNCHANGED <<uTurn, reg>>
  <2>1. StartsAreGuarded' BY <1>1, <1>5, GuardsStay DEF StartInvariant
  <2> QED BY <1>1, <1>5, <2>1, ProceedStarts
<1>6. CASE op.reply.ok /\ reg' = ConfirmApplied(reg, view, steered) /\ Release(op.kind)
  <2> HIDE DEF view, steered
  <2>1. TimelyLive => IsBusy(reg') BY <1>2, <1>3, <1>4, <1>6, BusyIfLive
  <2>2. StartsAreGuarded' /\ ~req.orphan BY <1>1, <1>6, <2>1, ReadMeans, GuardsRenewed DEF StartInvariant
  <2> QED BY <1>1, <1>6, <2>2, ProceedStarts
<1>7. CASE /\ op.reply.ok
           /\ op' = [op EXCEPT !.phase = "settle", !.reply = NoReply, !.view = view, !.msg = m]
           /\ UNCHANGED <<uTurn, reg>>
  <2> HIDE DEF view, m
  <2>1. op'.phase = "settle" /\ op'.reply = NoReply /\ op'.kind = "resolve" /\ op'.view = view
    BY <1>1, <1>2, <1>7, TypedParts, SettleFields
  <2>2. StartsAreGuarded' BY <1>1, <1>7, GuardsStay DEF StartInvariant
  <2>3. NoNews /\ link # "closing" /\ ~req.orphan BY <1>1, <1>7, ReadMeans
  <2>4. HolderMoves BY <1>1, <1>4, <1>7, <2>1, <2>3 DEF HolderMoves, Awaits
  <2> QED BY <2>2, <2>4, HolderStarts
<1> QED BY <1>5, <1>6, <1>7 DEF ResolveRead

LEMMA ResolveNotAppliedStarts ==
  ASSUME TypeInv, TypeInv', MessageInvariant, StartInvariant, ResolveNotApplied
  PROVE  StartInvariant'
<1> DEFINE active == IF LiveAt(op.view, op.turn) THEN op.turn ELSE 0
<1>1. /\ op.phase = "settle" /\ op' = NoOp /\ ~Starting
      /\ SameNews /\ UNCHANGED req
      /\ reg' = ConfirmNotApplied(reg, op.view, active)
  BY DEF ResolveNotApplied, Release, SameNews, server, transport, Starting
<1>2. NoNews /\ link # "closing" /\ SeesLive(op.view) /\ ~req.orphan
  BY <1>1 DEF StartInvariant, ReadsAreFresh, OrphansAreUncertain
<1>3. op.view \in View /\ reg \in Runtime /\ Exist(DOMAIN op.view)
  BY TypedParts DEF MessageInvariant, KnownTurns, HolderKnown
<1> HIDE DEF active
<1>4. TimelyLive => IsBusy(reg') BY <1>1, <1>2, <1>3, BusyIfLive
<1>5. StartsAreGuarded' BY <1>1, <1>2, <1>4, GuardsRenewed DEF StartInvariant
<1> QED BY <1>1, <1>2, <1>5, NoOpMeans, RestStarts DEF Awaits

----
(* Lines reach the web server. *)

LEMMA OneLineLess ==
  ASSUME TypeInv, NEW kind, Receive(kind)
  PROVE  /\ Len(wire) \in Nat /\ Len(wire') \in Nat /\ Len(wire) = Len(wire') + 1
         /\ DOMAIN wire = 1 .. Len(wire) /\ DOMAIN wire' = 1 .. Len(wire')
         /\ \A i \in DOMAIN wire' : wire'[i] = wire[i + 1] /\ i + 1 \in DOMAIN wire
         /\ 1 \in DOMAIN wire /\ wire[1].kind = kind /\ Head(wire) = wire[1]
<1>1. wire \in Seq(Lines) /\ wire # << >> /\ wire' = Tail(wire) BY DEF Receive, TypeInv, TypeOK, TransportTypeOK
<1> QED BY <1>1, ReceiveMeans

LEMMA ToldEarlier ==
  ASSUME TypeInv, NEW kind, Receive(kind), UNCHANGED turns
  PROVE  /\ TimelyLive' = TimelyLive /\ (NoNews => NoNews')
         /\ OneAtATime => OneAtATime'
         /\ \A first, last \in 1 .. Len(wire') : Unclearing(first + 1, last + 1) => Unclearing(first, last)'
         /\ \A e \in 1 .. Len(wire') + 1 : Unclearing(1, e) => Unclearing(1, e - 1)'
         /\ ~IsNews(wire[1]) => \A e \in 1 .. Len(wire') + 1 : Unseen(e)' => Unseen(e + 1)
<1>1. /\ Len(wire) \in Nat /\ Len(wire') \in Nat /\ Len(wire) = Len(wire') + 1
      /\ DOMAIN wire = 1 .. Len(wire) /\ DOMAIN wire' = 1 .. Len(wire')
      /\ \A i \in DOMAIN wire' : wire'[i] = wire[i + 1] /\ i + 1 \in DOMAIN wire
      /\ 1 \in DOMAIN wire /\ wire[1].kind = kind
  BY OneLineLess
<1>2. TimelyLive' = TimelyLive BY DEF TimelyLive, IsLive, LiveAt
<1>3. NoNews => NoNews' BY <1>1 DEF NoNews
<1>4. ASSUME OneAtATime PROVE OneAtATime'
  <2>1. \A t \in DOMAIN turns' : Running(turns'[t]) => t = Len(turns') BY <1>4 DEF OneAtATime
  <2>2. ASSUME NEW i \in DOMAIN wire', NEW j \in DOMAIN wire', IsNews(wire'[i]), IsNews(wire'[j])
        PROVE  i = j
    <3>1. i + 1 = j + 1 BY <1>1, <1>4, <2>2 DEF OneAtATime
    <3> QED BY <1>1, <3>1
  <2>3. ASSUME TimelyLive', NEW i \in DOMAIN wire', NEW k \in DOMAIN wire', IsNews(wire'[i]), i < k
        PROVE  ~Clears(wire'[k])
    <3>1. i + 1 \in DOMAIN wire /\ k + 1 \in DOMAIN wire /\ i + 1 < k + 1 BY <1>1, <2>3
    <3>2. IsNews(wire[i + 1]) /\ wire[k + 1] = wire'[k] BY <1>1, <2>3
    <3> QED BY <1>2, <1>4, <2>3, <3>1, <3>2 DEF OneAtATime
  <2> QED BY <2>1, <2>2, <2>3 DEF OneAtATime
<1>5. ASSUME NEW first \in 1 .. Len(wire'), NEW last \in 1 .. Len(wire'), Unclearing(first + 1, last + 1)
      PROVE  Unclearing(first, last)'
  <2> SUFFICES ASSUME NEW k \in first .. last PROVE ~Clears(wire'[k]) BY DEF Unclearing
  <2>1. k \in DOMAIN wire' /\ k + 1 \in first + 1 .. last + 1 BY <1>1
  <2> QED BY <1>1, <1>5, <2>1 DEF Unclearing
<1>6. ASSUME NEW e \in 1 .. Len(wire') + 1, Unclearing(1, e)
      PROVE  Unclearing(1, e - 1)'
  <2> SUFFICES ASSUME NEW k \in 1 .. e - 1 PROVE ~Clears(wire'[k]) BY DEF Unclearing
  <2>1. k \in DOMAIN wire' /\ k + 1 \in 1 .. e BY <1>1
  <2> QED BY <1>1, <1>6, <2>1 DEF Unclearing
<1>7. ASSUME ~IsNews(wire[1]), NEW e \in 1 .. Len(wire') + 1, Unseen(e)'
      PROVE  Unseen(e + 1)
  <2>1. CASE e \in DOMAIN wire' /\ IsNews(wire'[e]) BY <1>1, <2>1 DEF Unseen
  <2>2. CASE e = Len(wire') + 1 /\ TimelyLive' /\ NoNews'
    <3>1. ASSUME NEW i \in DOMAIN wire PROVE ~IsNews(wire[i])
      <4>1. CASE i = 1 BY <1>1, <1>7, <4>1 DEF IsNews
      <4>2. CASE i # 1
        <5>1. i - 1 \in DOMAIN wire' /\ wire'[i - 1] = wire[(i - 1) + 1] /\ (i - 1) + 1 = i BY <1>1, <4>2
        <5> QED BY <2>2, <5>1 DEF NoNews
      <4> QED BY <4>1, <4>2
    <3>2. e + 1 = Len(wire) + 1 BY <1>1, <2>2
    <3> QED BY <1>2, <2>2, <3>1, <3>2 DEF Unseen, NoNews
  <2> QED BY <1>7, <2>1, <2>2 DEF Unseen
<1> QED BY <1>2, <1>3, <1>4, <1>5, <1>6, <1>7

\* What guards a start that is still to be told guards it after one more line.
LEMMA GuardsMove ==
  ASSUME TypeInv, StartInvariant, NEW kind, Receive(kind), ~IsNews(wire[1]), UNCHANGED <<turns, link, uTurn>>,
         kind \in {"idle", "completed"} \/ (IsBusy(reg) => IsBusy(reg')),
         op'.kind = op.kind, op'.phase = op.phase,
         IF kind = "reply" THEN op'.reply = wire[1] ELSE op'.reply = op.reply
  PROVE  StartsAreGuarded'
<1> SUFFICES ASSUME NEW e \in 1 .. Len(wire') + 1, Unseen(e)'
             PROVE  (GuardedByRuntime(e) \/ GuardedAsUncertain(e) \/ GuardedByResponse(e))'
  BY DEF StartsAreGuarded
<1>1. /\ Len(wire) \in Nat /\ Len(wire') \in Nat /\ Len(wire) = Len(wire') + 1
      /\ DOMAIN wire = 1 .. Len(wire) /\ DOMAIN wire' = 1 .. Len(wire')
      /\ \A i \in DOMAIN wire' : wire'[i] = wire[i + 1] /\ i + 1 \in DOMAIN wire
      /\ 1 \in DOMAIN wire /\ wire[1].kind = kind
  BY OneLineLess
<1>2. Unclearing(1, e) => Unclearing(1, e - 1)' BY ToldEarlier
<1>3. e + 1 \in 1 .. Len(wire) + 1 /\ (e + 1) - 1 = e /\ 1 \in 1 .. e /\ e \in Nat BY <1>1
<1>4. GuardedByRuntime(e + 1) \/ GuardedAsUncertain(e + 1) \/ GuardedByResponse(e + 1)
  BY <1>3, ToldEarlier DEF StartInvariant, StartsAreGuarded
<1>5. kind \in {"idle", "completed"} => ~Unclearing(1, e) BY <1>1, <1>3 DEF Unclearing, Clears
<1>6. CASE GuardedByRuntime(e + 1)
  <2>1. IsBusy(reg) /\ Unclearing(1, e) BY <1>3, <1>6 DEF GuardedByRuntime
  <2> QED BY <1>2, <1>5, <2>1 DEF GuardedByRuntime
<1>7. CASE GuardedAsUncertain(e + 1)
  <2>1. uTurn.msg # NoMsg /\ (link # "closing" => Unclearing(1, e)) BY <1>3, <1>7 DEF GuardedAsUncertain
  <2> QED BY <1>2, <2>1 DEF GuardedAsUncertain
<1>8. CASE GuardedByResponse(e + 1)
  <2>1. Starting' BY <1>8 DEF GuardedByResponse, Starting
  <2>2. CASE op.reply = NoReply /\ \A k \in 1 .. e : wire[k].kind # "reply"
    <3>1. kind # "reply" BY <1>1, <1>3, <2>2
    <3>2. ASSUME NEW k \in 1 .. e - 1 PROVE wire'[k].kind # "reply"
      <4>1. k \in DOMAIN wire' /\ k + 1 \in 1 .. e BY <1>1
      <4> QED BY <1>1, <2>2, <4>1
    <3> QED BY <2>1, <2>2, <3>1, <3>2 DEF GuardedByResponse
  <2>3. CASE /\ op.reply = NoReply
             /\ \E r \in 1 .. e : wire[r].kind = "reply" /\ wire[r].ok /\ Unclearing(r + 1, e)
    <3>1. PICK r \in 1 .. e : wire[r].kind = "reply" /\ wire[r].ok /\ Unclearing(r + 1, e) BY <2>3
    <3>2. r \in DOMAIN wire BY <1>1
    <3>3. CASE r = 1
      <4>1. kind = "reply" /\ op'.reply = wire[1] /\ wire[1].ok /\ op'.reply.kind = "reply" BY <1>1, <3>1, <3>3
      <4>2. op'.reply # NoReply BY <4>1 DEF NoReply, Line
      <4>3. Unclearing(1, e - 1)'
        <5> SUFFICES ASSUME NEW k \in 1 .. e - 1 PROVE ~Clears(wire'[k]) BY DEF Unclearing
        <5>1. k \in DOMAIN wire' /\ k + 1 \in r + 1 .. e BY <1>1, <3>3
        <5> QED BY <1>1, <3>1, <5>1 DEF Unclearing
      <4> QED BY <2>1, <4>1, <4>2, <4>3 DEF GuardedByResponse
    <3>4. CASE r # 1
      <4>1. kind # "reply" BY <1>1, <3>1, <3>2, <3>4 DEF TypeInv, AnswerAwaited
      <4>2. r - 1 \in 1 .. e - 1 /\ r - 1 \in DOMAIN wire' /\ (r - 1) + 1 = r BY <1>1, <3>4
      <4>3. wire'[r - 1].kind = "reply" /\ wire'[r - 1].ok BY <1>1, <3>1, <4>2
      <4>4. Unclearing((r - 1) + 1, e - 1)'
        <5> SUFFICES ASSUME NEW k \in r .. e - 1 PROVE ~Clears(wire'[k]) BY <4>2 DEF Unclearing
        <5>1. k \in DOMAIN wire' /\ k + 1 \in r + 1 .. e BY <1>1
        <5> QED BY <1>1, <3>1, <5>1 DEF Unclearing
      <4> QED BY <2>1, <2>3, <4>1, <4>2, <4>3, <4>4 DEF GuardedByResponse
    <3> QED BY <3>3, <3>4
  <2>4. CASE op.reply # NoReply /\ op.reply.ok /\ Unclearing(1, e)
    <3>1. kind # "reply" BY <1>1, <2>4 DEF TypeInv, AnswerAwaited
    <3> QED BY <1>2, <2>1, <2>4, <3>1 DEF GuardedByResponse
  <2> QED BY <1>3, <1>8, <2>2, <2>3, <2>4 DEF GuardedByResponse
<1> QED BY <1>4, <1>6, <1>7, <1>8

LEMMA SilenceStays ==
  ASSUME TypeInv, StartInvariant, NEW kind, Receive(kind), UNCHANGED <<link, alive, subscribed>>,
         op'.phase = op.phase, op.reply # NoReply => op'.reply # NoReply
  PROVE  LostIsSilent'
<1>1. link # "down" BY DEF Receive, StartInvariant, LostIsSilent
<1> QED BY <1>1 DEF StartInvariant, LostIsSilent

LEMMA HandleReplyStarts ==
  ASSUME TypeInv, StartInvariant, HandleReply
  PROVE  StartInvariant'
<1>1. /\ Receive("reply") /\ op' = [op EXCEPT !.reply = Head(wire)]
      /\ UNCHANGED <<link, uTurn, reg>>
      /\ UNCHANGED <<turns, alive, subscribed, req>>
  BY DEF HandleReply, server
<1>2. /\ Len(wire) \in Nat /\ Len(wire') \in Nat /\ Len(wire) = Len(wire') + 1
      /\ DOMAIN wire = 1 .. Len(wire) /\ DOMAIN wire' = 1 .. Len(wire')
      /\ \A i \in DOMAIN wire' : wire'[i] = wire[i + 1] /\ i + 1 \in DOMAIN wire
      /\ 1 \in DOMAIN wire /\ wire[1].kind = "reply" /\ Head(wire) = wire[1]
  BY <1>1, OneLineLess
<1>3. op'.kind = op.kind /\ op'.phase = op.phase /\ op'.reply = wire[1] /\ op'.view = op.view
  BY <1>1, <1>2, TypedParts DEF Operations
<1>4. op.phase \in Awaits /\ op.reply = NoReply /\ \A j \in DOMAIN wire : wire[j].kind = "reply" => j = 1
  BY <1>2 DEF TypeInv, AnswerAwaited
<1>5. link = "up" BY <1>4 DEF StartInvariant, LostIsSilent, Awaits
<1>6. TimelyLive' = TimelyLive /\ (NoNews => NoNews') /\ OneAtATime' BY <1>1, ToldEarlier DEF StartInvariant
<1>7. StartsAreGuarded'
  <2>1. (IsBusy(reg) => IsBusy(reg')) /\ ~IsNews(wire[1]) BY <1>1, <1>2 DEF IsNews
  <2> QED BY <1>1, <1>3, <2>1, GuardsMove
<1>8. NothingRuns' BY <1>1, <1>3, <1>6 DEF StartInvariant, NothingRuns
<1>9. ReadsAreFresh'
  <2>1. \A r \in DOMAIN wire' : wire'[r].kind # "reply"
    <3> SUFFICES ASSUME NEW r \in DOMAIN wire' PROVE wire'[r].kind # "reply" OBVIOUS
    <3>1. r + 1 \in DOMAIN wire /\ r + 1 # 1 /\ wire'[r] = wire[r + 1] BY <1>2
    <3> QED BY <1>4, <3>1
  <2>2. op.phase = "read" => NoNews' /\ SeesLive(wire[1].view)
    <3> SUFFICES ASSUME op.phase = "read" PROVE NoNews' /\ SeesLive(wire[1].view) OBVIOUS
    <3>1. (\A k \in DOMAIN wire : 1 < k => ~IsNews(wire[k])) /\ SeesLive(wire[1].view)
      BY <1>2 DEF StartInvariant, ReadsAreFresh
    <3>2. ASSUME NEW i \in DOMAIN wire' PROVE ~IsNews(wire'[i])
      <4>1. i + 1 \in DOMAIN wire /\ 1 < i + 1 /\ wire'[i] = wire[i + 1] BY <1>2
      <4> QED BY <3>1, <4>1
    <3> QED BY <3>1, <3>2 DEF NoNews
  <2>3. op'.phase # "settle" /\ link' = "up" BY <1>1, <1>3, <1>4, <1>5 DEF Awaits
  <2>4. SeesLive(wire[1].view) => SeesLive(op.reply.view)' BY <1>1, <1>3, <1>6 DEF SeesLive
  <2> QED BY <1>3, <2>1, <2>2, <2>3, <2>4 DEF ReadsAreFresh
<1>10. OrphansAreUncertain' BY <1>1, <1>5 DEF StartInvariant, OrphansAreUncertain
<1>11. LostIsSilent'
  <2>1. wire[1] # NoReply BY <1>2 DEF NoReply, Line
  <2> QED BY <1>1, <1>3, <2>1, SilenceStays
<1> QED BY <1>6, <1>7, <1>8, <1>9, <1>10, <1>11 DEF StartInvariant

\* A notification that tells of no start.
LEMMA OtherNewsStarts ==
  ASSUME TypeInv, StartInvariant, NEW kind, Receive(kind), kind \notin {"reply", "started"},
         UNCHANGED <<turns, alive, subscribed, req, link, op, uTurn>>,
         kind \in {"idle", "completed"} \/ (IsBusy(reg) => IsBusy(reg'))
  PROVE  StartInvariant'
<1>1. /\ Len(wire) \in Nat /\ Len(wire') \in Nat /\ Len(wire) = Len(wire') + 1
      /\ DOMAIN wire = 1 .. Len(wire) /\ DOMAIN wire' = 1 .. Len(wire')
      /\ \A i \in DOMAIN wire' : wire'[i] = wire[i + 1] /\ i + 1 \in DOMAIN wire
  BY OneLineLess
<1>2. TimelyLive' = TimelyLive /\ (NoNews => NoNews') /\ OneAtATime' BY ToldEarlier DEF StartInvariant
<1>8. ~IsNews(wire[1]) BY OneLineLess DEF IsNews
<1>3. StartsAreGuarded' BY <1>8, GuardsMove
<1>4. NothingRuns' BY <1>2 DEF StartInvariant, NothingRuns
<1>5. ReadsAreFresh'
  <2>1. \A view : SeesLive(view) => SeesLive(view)' BY <1>2 DEF SeesLive
  <2>2. ASSUME op.phase = "read", NEW r \in DOMAIN wire', wire'[r].kind = "reply"
        PROVE  (\A k \in DOMAIN wire' : r < k => ~IsNews(wire'[k])) /\ SeesLive(wire'[r].view)
    <3>1. r + 1 \in DOMAIN wire /\ wire'[r] = wire[r + 1] BY <1>1
    <3>2. SeesLive(wire[r + 1].view) /\ \A k \in DOMAIN wire : r + 1 < k => ~IsNews(wire[k])
      BY <2>2, <3>1 DEF StartInvariant, ReadsAreFresh
    <3>3. ASSUME NEW k \in DOMAIN wire', r < k PROVE ~IsNews(wire'[k])
      <4>1. k + 1 \in DOMAIN wire /\ r + 1 < k + 1 /\ wire'[k] = wire[k + 1] BY <1>1, <3>3
      <4> QED BY <3>2, <4>1
    <3> QED BY <3>1, <3>2, <3>3
  <2>3. \A r \in DOMAIN wire' : SeesLive(wire'[r].view) => SeesLive(wire[r].view)' BY <1>2 DEF SeesLive
  <2> QED BY <1>2, <2>1, <2>2, <2>3 DEF StartInvariant, ReadsAreFresh
<1>6. OrphansAreUncertain' BY DEF StartInvariant, OrphansAreUncertain
<1>7. LostIsSilent' BY SilenceStays
<1> QED BY <1>2, <1>3, <1>4, <1>5, <1>6, <1>7 DEF StartInvariant

LEMMA HandleOthersStarts ==
  ASSUME TypeInv, StartInvariant, HandleLate \/ HandleStatus \/ HandleTurnCompleted \/ HandleItem
  PROVE  StartInvariant'
<1>1. UNCHANGED <<turns, alive, subscribed, req, link, op, uTurn>>
  BY DEF HandleLate, HandleStatus, HandleTurnCompleted, HandleItem, server, session
<1>2. CASE HandleLate BY <1>1, <1>2, OtherNewsStarts DEF HandleLate
<1>3. CASE HandleStatus
  <2>1. CASE Receive("active") /\ reg' = StatusActive(reg)
    <3>1. IsBusy(reg') BY <2>1, TypedParts DEF StatusActive, IsBusy, Runtime
    <3> QED BY <1>1, <2>1, <3>1, OtherNewsStarts
  <2>2. CASE Receive("idle") BY <1>1, <2>2, OtherNewsStarts
  <2> QED BY <1>3, <2>1, <2>2 DEF HandleStatus
<1>4. CASE HandleTurnCompleted BY <1>1, <1>4, OtherNewsStarts DEF HandleTurnCompleted
<1>5. CASE HandleItem BY <1>1, <1>5, OtherNewsStarts DEF HandleItem
<1> QED BY <1>2, <1>3, <1>4, <1>5

\* A child's connection goes down with its process, and a shared App Server's is
\* cut at once: what is served late is news of a connection that is up.
SharedInv ==
  /\ SharedServer => link # "closing"
  /\ ~SharedServer => /\ strays = {} /\ (link = "down" => ~alive)
                      /\ \A i \in DOMAIN wire : wire[i].kind = "started" => ~wire[i].rec.late

\* The start is told: from here on the runtime guards its Turn.
LEMMA HandleTurnStartedStarts ==
  ASSUME TypeInv, StartInvariant, SharedInv, HandleTurnStarted
  PROVE  StartInvariant'
<1>1. /\ Receive("started") /\ reg' = SetActiveTurn(Head(wire).turn) /\ uTurn' = NoUncertainTurn
      /\ UNCHANGED <<turns, alive, subscribed, req, link, op>>
  BY DEF HandleTurnStarted, server
<1>2. /\ Len(wire) \in Nat /\ Len(wire') \in Nat /\ Len(wire) = Len(wire') + 1
      /\ DOMAIN wire = 1 .. Len(wire) /\ DOMAIN wire' = 1 .. Len(wire')
      /\ \A i \in DOMAIN wire' : wire'[i] = wire[i + 1] /\ i + 1 \in DOMAIN wire
      /\ 1 \in DOMAIN wire /\ wire[1].kind = "started"
  BY <1>1, OneLineLess
<1>3. TimelyLive' = TimelyLive /\ OneAtATime' BY <1>1, ToldEarlier DEF StartInvariant
<1>6. IsBusy(reg') BY <1>1 DEF IsBusy, SetActiveTurn, Idle
<1>11. LostIsSilent' BY <1>1, SilenceStays
<1>12. CASE IsNews(wire[1])
  <2>4. ~NoNews BY <1>2, <1>12 DEF NoNews
  <2>5. NoNews'
    <3>1. ASSUME NEW i \in DOMAIN wire' PROVE ~IsNews(wire'[i])
      <4>1. i + 1 \in DOMAIN wire /\ i + 1 # 1 /\ wire'[i] = wire[i + 1] BY <1>2
      <4> QED BY <1>2, <1>12, <4>1 DEF StartInvariant, OneAtATime
    <3> QED BY <3>1 DEF NoNews
  <2>7. StartsAreGuarded'
    <3> SUFFICES ASSUME NEW e \in 1 .. Len(wire') + 1, Unseen(e)'
                 PROVE  Unclearing(1, e - 1)'
      BY <1>6 DEF StartsAreGuarded, GuardedByRuntime
    <3>1. TimelyLive /\ e = Len(wire') + 1 BY <1>3, <2>5 DEF Unseen, NoNews
    <3> SUFFICES ASSUME NEW k \in 1 .. e - 1 PROVE ~Clears(wire'[k]) BY DEF Unclearing
    <3>2. k \in DOMAIN wire' /\ k + 1 \in DOMAIN wire /\ 1 < k + 1 /\ wire'[k] = wire[k + 1] BY <1>2, <3>1
    <3> QED BY <1>2, <1>12, <3>1, <3>2 DEF StartInvariant, OneAtATime
  <2>8. NothingRuns' BY <1>1, <2>4, NoOpMeans DEF StartInvariant, NothingRuns
  <2>9. ReadsAreFresh'
    <3>1. op.phase = "read" => \A r \in DOMAIN wire' : wire'[r].kind = "reply" => SeesLive(wire'[r].view)
      BY <1>2 DEF StartInvariant, ReadsAreFresh
    <3>2. \A r \in DOMAIN wire' : SeesLive(wire'[r].view) => SeesLive(wire[r].view)' BY <1>1, <1>3 DEF SeesLive
    <3>3. \A k \in DOMAIN wire' : ~IsNews(wire'[k]) BY <2>5 DEF NoNews
    <3>4. \A view : SeesLive(view) => SeesLive(view)' BY <1>1, <1>3 DEF SeesLive
    <3> QED BY <1>1, <2>4, <2>5, <3>1, <3>2, <3>3, <3>4 DEF StartInvariant, ReadsAreFresh
  <2>10. OrphansAreUncertain' BY <1>1, <2>4 DEF StartInvariant, OrphansAreUncertain, NothingRuns
  <2> QED BY <1>3, <1>11, <2>7, <2>8, <2>9, <2>10 DEF StartInvariant
<1>13. CASE ~IsNews(wire[1])
  <2>1. wire[1].rec.late /\ link = "up" /\ (\A e \in 1 .. Len(wire') + 1 : Unseen(e)' => Unseen(e + 1))
        /\ (NoNews => NoNews')
    <3>1. wire[1].rec.late BY <1>2, <1>13 DEF IsNews
    <3>2. SharedServer /\ wire # << >> BY <1>2, <3>1 DEF SharedInv
    <3>3. link = "up"
      BY <3>2, TypedParts DEF SharedInv, StartInvariant, LostIsSilent, TypeInv, TypeOK, TransportTypeOK
    <3> QED BY <1>1, <1>13, <3>1, <3>3, ToldEarlier DEF StartInvariant
  <2>2. StartsAreGuarded'
    <3> SUFFICES ASSUME NEW e \in 1 .. Len(wire') + 1, Unseen(e)'
                 PROVE  (GuardedByRuntime(e) \/ GuardedByResponse(e))'
      BY DEF StartsAreGuarded
    <3>1. e + 1 \in 1 .. Len(wire) + 1 /\ (e + 1) - 1 = e /\ 1 \in 1 .. e /\ e \in Nat BY <1>2
    <3>2. GuardedByRuntime(e + 1) \/ GuardedAsUncertain(e + 1) \/ GuardedByResponse(e + 1)
      BY <2>1, <3>1 DEF StartInvariant, StartsAreGuarded
    <3>3. Unclearing(1, e) => Unclearing(1, e - 1)' BY <1>1, ToldEarlier DEF StartInvariant
    <3>4. CASE GuardedByRuntime(e + 1) \/ GuardedAsUncertain(e + 1)
      <4>1. Unclearing(1, e) BY <2>1, <3>1, <3>4 DEF GuardedByRuntime, GuardedAsUncertain
      <4> QED BY <1>6, <3>3, <4>1 DEF GuardedByRuntime
    <3>5. CASE GuardedByResponse(e + 1)
      <4>1. Starting' /\ op' = op BY <1>1, <3>5 DEF GuardedByResponse, Starting
      <4>2. CASE op.reply = NoReply /\ \A k \in 1 .. e : wire[k].kind # "reply"
        <5>1. ASSUME NEW k \in 1 .. e - 1 PROVE wire'[k].kind # "reply"
          <6>1. k \in DOMAIN wire' /\ k + 1 \in 1 .. e BY <1>2
          <6> QED BY <1>2, <4>2, <6>1
        <5> QED BY <4>1, <4>2, <5>1 DEF GuardedByResponse
      <4>3. CASE /\ op.reply = NoReply
                 /\ \E r \in 1 .. e : wire[r].kind = "reply" /\ wire[r].ok /\ Unclearing(r + 1, e)
        <5>1. PICK r \in 1 .. e : wire[r].kind = "reply" /\ wire[r].ok /\ Unclearing(r + 1, e) BY <4>3
        <5>2. r # 1 BY <1>2, <5>1
        <5>3. r - 1 \in 1 .. e - 1 /\ r - 1 \in DOMAIN wire' /\ (r - 1) + 1 = r BY <1>2, <5>2
        <5>4. wire'[r - 1].kind = "reply" /\ wire'[r - 1].ok BY <1>2, <5>1, <5>3
        <5>5. Unclearing((r - 1) + 1, e - 1)'
          <6> SUFFICES ASSUME NEW k \in r .. e - 1 PROVE ~Clears(wire'[k]) BY <5>3 DEF Unclearing
          <6>1. k \in DOMAIN wire' /\ k + 1 \in r + 1 .. e BY <1>2
          <6> QED BY <1>2, <5>1, <6>1 DEF Unclearing
        <5> QED BY <4>1, <4>3, <5>3, <5>4, <5>5 DEF GuardedByResponse
      <4>4. CASE op.reply # NoReply /\ op.reply.ok /\ Unclearing(1, e)
        BY <3>3, <4>1, <4>4 DEF GuardedByResponse
      <4> QED BY <3>1, <3>5, <4>2, <4>3, <4>4 DEF GuardedByResponse
    <3> QED BY <3>2, <3>4, <3>5
  <2>3. NothingRuns' BY <1>1, <1>3, <2>1, NoOpMeans DEF StartInvariant, NothingRuns
  <2>4. ReadsAreFresh'
    <3>1. \A view : SeesLive(view) => SeesLive(view)' BY <1>1, <1>3 DEF SeesLive
    <3>2. ASSUME op.phase = "read", NEW r \in DOMAIN wire', wire'[r].kind = "reply"
          PROVE  (\A k \in DOMAIN wire' : r < k => ~IsNews(wire'[k])) /\ SeesLive(wire'[r].view)
      <4>1. r + 1 \in DOMAIN wire /\ wire'[r] = wire[r + 1] BY <1>2
      <4>2. SeesLive(wire[r + 1].view) /\ \A k \in DOMAIN wire : r + 1 < k => ~IsNews(wire[k])
        BY <3>2, <4>1 DEF StartInvariant, ReadsAreFresh
      <4>3. ASSUME NEW k \in DOMAIN wire', r < k PROVE ~IsNews(wire'[k])
        <5>1. k + 1 \in DOMAIN wire /\ r + 1 < k + 1 /\ wire'[k] = wire[k + 1] BY <1>2, <4>3
        <5> QED BY <4>2, <5>1
      <4> QED BY <4>1, <4>2, <4>3
    <3>3. \A r \in DOMAIN wire' : SeesLive(wire'[r].view) => SeesLive(wire[r].view)' BY <1>1, <1>3 DEF SeesLive
    <3> QED BY <1>1, <2>1, <3>1, <3>2, <3>3 DEF StartInvariant, ReadsAreFresh
  <2>5. OrphansAreUncertain' BY <1>1, <2>1 DEF StartInvariant, OrphansAreUncertain
  <2> QED BY <1>3, <1>11, <2>2, <2>3, <2>4, <2>5 DEF StartInvariant
<1> QED BY <1>12, <1>13

----
(* The connection is lost and comes back. *)

\* A request is an orphan from the loss of its connection on; the start among
\* them has just become uncertain.
LEMMA OrphanFacts ==
  ASSUME TypeInv, StartInvariant, link = "up", req' \in {NoReq, Orphaned(req)}
  PROVE  /\ req'.orphan =>
              /\ op.phase \in Awaits /\ op.reply = NoReply
              /\ req'.kind = req.kind
              /\ req.kind = "start" => Awaiting("mutate") /\ op.kind = "start" /\ op.msg \in Msgs
         /\ req'.kind = "start" => req.kind = "start"
<1>1. ~req.orphan BY DEF StartInvariant, OrphansAreUncertain
<1>2. \/ req' = NoReq
      \/ req.kind \in {"start", "steer"} /\ req' = [req EXCEPT !.orphan = TRUE]
  BY DEF Orphaned
<1>3. CASE req' = NoReq BY <1>3 DEF NoReq
<1>4. CASE req.kind \in {"start", "steer"} /\ req' = [req EXCEPT !.orphan = TRUE]
  <2>1. req'.kind = req.kind BY <1>4, TypedParts DEF Requests
  <2>2. op.phase \in Awaits /\ op.reply = NoReply /\ req.kind = Asked(op)
    BY <1>1, <1>4 DEF TypeInv, RequestAwaited
  <2>3. op.phase = "mutate" /\ op.kind = req.kind BY <1>4, <2>2 DEF Asked, Awaits
  <2>4. op.kind = "start" => op.msg \in Msgs BY DEF TypeInv, MessagesInFlight
  <2> QED BY <2>1, <2>2, <2>3, <2>4 DEF Awaiting
<1> QED BY <1>2, <1>3, <1>4

\* What handleConnection("disconnected") makes of the holder and the runtime.
LEMMA DisconnectMeans ==
  ASSUME TypeInv, NEW to, Disconnect(to)
  PROVE  /\ Starting => Awaiting("mutate")
         /\ IsBusy(reg) => IsBusy(reg')
         /\ Awaiting("mutate") => IsBusy(reg') /\ op' = NoOp
         /\ Awaiting("mutate") /\ op.kind = "start" => uTurn'.msg = op.msg /\ op.msg \in Msgs
         /\ uTurn' = uTurn \/ (Awaiting("mutate") /\ op.kind = "start")
         /\ Awaiting("mutate") \/ (op'.kind = op.kind /\ op'.phase = op.phase /\ op'.view = op.view)
         /\ op'.phase \in Awaits => op'.reply # NoReply
         /\ op'.reply # NoReply /\ op'.reply.ok => op' = op
<1>1. Starting => Awaiting("mutate") BY DEF Disconnect, NextEvent, ReadsTwice, Starting, Awaiting
<1>2. Disconnected(reg).state = "disconnected" \/ Disconnected(reg) = reg
  BY TypedParts DEF Disconnected, Runtime
<1>3. IsBusy(reg) => IsBusy(reg') BY <1>2 DEF Disconnect, IsBusy, MarkOperationUncertain
<1>4. Awaiting("mutate") => IsBusy(reg') /\ op' = NoOp
  <2>1. MarkOperationUncertain(IF op.kind = "start" THEN op.base ELSE op.turn).state = "disconnected"
    BY DEF MarkOperationUncertain
  <2>2. Awaiting("mutate") => ~Awaiting("resume") /\ ~Awaiting("read") BY DEF Awaiting
  <2> QED BY <2>1, <2>2 DEF Disconnect, IsBusy
<1>5. Awaiting("mutate") /\ op.kind = "start" => uTurn'.msg = op.msg /\ op.msg \in Msgs
  BY DEF Disconnect, TypeInv, MessagesInFlight
<1>6. uTurn' = uTurn \/ (Awaiting("mutate") /\ op.kind = "start") BY DEF Disconnect
<1>7. /\ RejectPending(op).kind = op.kind /\ RejectPending(op).phase = op.phase /\ RejectPending(op).view = op.view
      /\ RejectPending(op).reply = Refused
  BY TypedParts, RejectedFields DEF RejectPending
<1>8. Awaiting("mutate") \/ op' \in {op, RejectPending(op)} BY DEF Disconnect
<1>9. Refused # NoReply /\ ~Refused.ok BY DEF Refused, NoReply, Reply, Line
<1>10. op'.phase \in Awaits => op'.reply # NoReply BY DisconnectOp
<1>11. op'.reply # NoReply /\ op'.reply.ok => op' = op BY <1>4, <1>7, <1>8, <1>9, NoOpMeans
<1>12. Awaiting("mutate") \/ (op'.kind = op.kind /\ op'.phase = op.phase /\ op'.view = op.view)
  <2>1. CASE op' = op BY <2>1
  <2>2. CASE op' = RejectPending(op) BY <1>7, <2>2
  <2> QED BY <1>8, <2>1, <2>2
<1> QED BY <1>1, <1>3, <1>4, <1>5, <1>6, <1>10, <1>11, <1>12

\* With the connection goes all that was on its way.
LEMMA DisconnectStarts ==
  ASSUME TypeInv, StartInvariant, link = "up", Disconnect("down"), UNCHANGED turns,
         wire' = << >>, subscribed' = FALSE, req' \in {NoReq, Orphaned(req)}
  PROVE  StartInvariant'
<1>1. TimelyLive' = TimelyLive /\ link' = "down" BY DEF TimelyLive, IsLive, LiveAt, Disconnect
<1>2. Len(wire') = 0 /\ DOMAIN wire' = {} /\ NoNews' BY DEF NoNews
<1>3. ~req.orphan BY DEF StartInvariant, OrphansAreUncertain
<1>4. StartsAreGuarded'
  <2> SUFFICES ASSUME NEW e \in 1 .. Len(wire') + 1, Unseen(e)'
               PROVE  (GuardedByRuntime(e) \/ GuardedAsUncertain(e))'
    BY DEF StartsAreGuarded
  <2>1. TimelyLive /\ e = 1 BY <1>1, <1>2 DEF Unseen
  <2>2. PICK f \in 1 .. Len(wire) + 1 : Unseen(f) BY <2>1, LiveIsUnseen
  <2>3. IsBusy(reg) \/ uTurn.msg # NoMsg \/ Starting
    BY <2>2 DEF StartInvariant, StartsAreGuarded, GuardedByRuntime, GuardedAsUncertain, GuardedByResponse
  <2>4. IsBusy(reg') \/ uTurn'.msg # NoMsg BY <2>3, DisconnectMeans
  <2>5. Unclearing(1, e - 1)' BY <2>1 DEF Unclearing
  <2> QED BY <2>4, <2>5 DEF GuardedByRuntime, GuardedAsUncertain
<1>5. OneAtATime' BY <1>1, <1>2 DEF StartInvariant, OneAtATime
<1>6. NothingRuns'
  <2>1. req'.kind = "start" => ~TimelyLive' BY <1>1, OrphanFacts DEF StartInvariant, NothingRuns
  <2>2. op'.kind = "start" => op.kind = "start" /\ uTurn' = uTurn /\ op'.phase = op.phase
    BY DisconnectMeans, NoOpMeans
  <2> QED BY <1>1, <1>2, <2>1, <2>2 DEF StartInvariant, NothingRuns
<1>7. ReadsAreFresh'
  <2>1. \A view : SeesLive(view) => SeesLive(view)' BY <1>1 DEF SeesLive
  <2>2. op'.phase = "read" /\ op'.reply # NoReply /\ op'.reply.ok => SeesLive(op.reply.view)'
    BY <1>1, DisconnectMeans DEF StartInvariant, ReadsAreFresh, SeesLive
  <2>3. op'.phase = "settle" => SeesLive(op.view)'
    <3>1. op'.phase = "settle" => op.phase = "settle" /\ op'.view = op.view BY DisconnectMeans, NoOpMeans
    <3> QED BY <1>1, <3>1 DEF StartInvariant, ReadsAreFresh, SeesLive
  <2> QED BY <1>1, <1>2, <2>2, <2>3 DEF ReadsAreFresh
<1>8. OrphansAreUncertain'
  <2> SUFFICES ASSUME req'.orphan
               PROVE  /\ op'.phase # "settle" /\ (op'.reply # NoReply => ~op'.reply.ok)
                      /\ req'.kind = "start" => uTurn'.msg # NoMsg
    BY <1>1 DEF OrphansAreUncertain
  <2>1. op.phase \in Awaits /\ op.reply = NoReply BY OrphanFacts
  <2>2. op'.phase # "settle" BY <2>1, DisconnectMeans, NoOpMeans DEF Awaits
  <2>3. op'.reply # NoReply => ~op'.reply.ok BY <2>1, DisconnectMeans
  <2>4. req'.kind = "start" => uTurn'.msg # NoMsg BY OrphanFacts, DisconnectMeans, ConstantsAssumption
  <2> QED BY <2>2, <2>3, <2>4
<1>9. LostIsSilent' BY <1>2, DisconnectMeans DEF LostIsSilent, Awaits
<1> QED BY <1>4, <1>5, <1>6, <1>7, <1>8, <1>9 DEF StartInvariant

LEMMA SocketLostStarts == ASSUME TypeInv, StartInvariant, SocketLost PROVE StartInvariant'
BY DisconnectStarts DEF SocketLost

LEMMA TransportClosedStarts ==
  ASSUME TypeInv, StartInvariant, TransportClosed
  PROVE  StartInvariant'
<1>1. /\ ~alive /\ wire = << >> /\ req' = NoReq /\ UNCHANGED <<turns, alive, subscribed, wire>>
  BY DEF TransportClosed
<1>2. ~subscribed /\ subscribed' = FALSE BY <1>1 DEF StartInvariant, LostIsSilent, TypeInv, TypeOK, ServerTypeOK
<1>3. CASE link = "up" /\ Disconnect("down") BY <1>1, <1>2, <1>3, DisconnectStarts
<1>4. CASE link = "closing" /\ link' = "down" /\ UNCHANGED <<session, reg, recovering>>
  <2>1. UNCHANGED <<op, uTurn, reg>> /\ TimelyLive' = TimelyLive /\ NoNews' = NoNews
    BY <1>1, <1>4 DEF session, TimelyLive, IsLive, LiveAt, NoNews
  <2>2. Len(wire') = 0 /\ DOMAIN wire' = {} /\ Len(wire) = 0 /\ DOMAIN wire = {} BY <1>1
  <2>3. StartsAreGuarded'
    <3> SUFFICES ASSUME NEW e \in 1 .. Len(wire') + 1, Unseen(e)'
                 PROVE  (GuardedByRuntime(e) \/ GuardedAsUncertain(e) \/ GuardedByResponse(e))'
      BY DEF StartsAreGuarded
    <3>1. e = 1 /\ e \in 1 .. Len(wire) + 1 /\ Unseen(e) BY <1>1, <2>1, <2>2 DEF Unseen
    <3>2. Unclearing(1, e - 1)' BY <3>1 DEF Unclearing
    <3>3. GuardedByRuntime(e) \/ GuardedAsUncertain(e) \/ GuardedByResponse(e)
      BY <3>1 DEF StartInvariant, StartsAreGuarded
    <3>4. GuardedByResponse(e) => GuardedByResponse(e)'
      BY <1>1, <2>1 DEF GuardedByResponse, Starting, Unclearing
    <3> QED BY <2>1, <3>2, <3>3, <3>4 DEF GuardedByRuntime, GuardedAsUncertain
  <2>4. OneAtATime' BY <1>1, <2>1 DEF StartInvariant, OneAtATime
  <2>5. NothingRuns' BY <1>1, <2>1, NoOpMeans DEF StartInvariant, NothingRuns
  <2>6. ReadsAreFresh'
    <3>1. \A view : SeesLive(view) => SeesLive(view)' BY <1>1, <2>1 DEF SeesLive
    <3> QED BY <1>4, <2>1, <2>2, <3>1 DEF StartInvariant, ReadsAreFresh
  <2>7. OrphansAreUncertain' BY <1>1 DEF OrphansAreUncertain, NoReq
  <2>8. LostIsSilent' BY <1>1, <1>2, <1>4, <2>1 DEF StartInvariant, LostIsSilent
  <2> QED BY <2>3, <2>4, <2>5, <2>6, <2>7, <2>8 DEF StartInvariant
<1> QED BY <1>3, <1>4 DEF TransportClosed

LEMMA ReconnectStarts ==
  ASSUME TypeInv, StartInvariant, Reconnect
  PROVE  StartInvariant'
<1>1. /\ link = "down" /\ req' = NoReq /\ link' = "up" /\ alive' = TRUE
      /\ UNCHANGED <<turns, subscribed, wire, op, uTurn, reg>>
  BY DEF Reconnect, session
<1>2. wire = << >> /\ DOMAIN wire = {} /\ Len(wire) = 0 BY <1>1 DEF StartInvariant, LostIsSilent
<1>3. TimelyLive' = TimelyLive /\ NoNews' = NoNews BY <1>1 DEF TimelyLive, IsLive, LiveAt, NoNews
<1>4. StartsAreGuarded'
  <2> SUFFICES ASSUME NEW e \in 1 .. Len(wire') + 1, Unseen(e)'
               PROVE  (GuardedByRuntime(e) \/ GuardedAsUncertain(e) \/ GuardedByResponse(e))'
    BY DEF StartsAreGuarded
  <2>1. e \in 1 .. Len(wire) + 1 /\ Unseen(e) BY <1>1, <1>3 DEF Unseen
  <2>2. GuardedByRuntime(e) \/ GuardedAsUncertain(e) \/ GuardedByResponse(e)
    BY <2>1 DEF StartInvariant, StartsAreGuarded
  <2>3. Unclearing(1, e - 1)' = Unclearing(1, e - 1) /\ (link # "closing" => (link # "closing")')
    BY <1>1 DEF Unclearing
  <2>4. GuardedByResponse(e) => GuardedByResponse(e)' BY <1>1 DEF GuardedByResponse, Starting, Unclearing
  <2> QED BY <1>1, <2>2, <2>3, <2>4 DEF GuardedByRuntime, GuardedAsUncertain
<1>5. OneAtATime' BY <1>1, <1>3 DEF StartInvariant, OneAtATime
<1>6. NothingRuns' BY <1>1, <1>3 DEF StartInvariant, NothingRuns, NoReq
<1>7. ReadsAreFresh'
  <2>1. \A view : SeesLive(view) => SeesLive(view)' BY <1>1, <1>3 DEF SeesLive
  <2> QED BY <1>1, <1>2, <1>3, <2>1 DEF StartInvariant, ReadsAreFresh
<1>8. OrphansAreUncertain' /\ LostIsSilent' BY <1>1 DEF OrphansAreUncertain, LostIsSilent, NoReq
<1> QED BY <1>4, <1>5, <1>6, <1>7, <1>8 DEF StartInvariant

\* A response nobody waits for any more is the only line that changes.
LEMMA LateNews ==
  ASSUME TypeInv, wire' = Late(wire), UNCHANGED turns
  PROVE  /\ TimelyLive' = TimelyLive /\ (NoNews <=> NoNews')
         /\ DOMAIN wire' = DOMAIN wire /\ Len(wire') = Len(wire)
         /\ \A r \in DOMAIN wire' : wire'[r].kind # "reply"
         /\ \A e : Unseen(e)' <=> Unseen(e)
         /\ \A e \in 1 .. Len(wire) + 1 : Unclearing(1, e - 1) => Unclearing(1, e - 1)'
         /\ OneAtATime => OneAtATime'
<1>1. Len(wire) \in Nat /\ DOMAIN wire = 1 .. Len(wire) /\ wire' \in Seq(Lines) BY Places, LateMeans
<1>2. DOMAIN wire' = DOMAIN wire /\ \A i \in DOMAIN wire : wire'[i] = IF wire[i].kind = "reply" THEN Line("late") ELSE wire[i]
  BY DEF Late
<1>3. Len(wire') = Len(wire) BY <1>1, <1>2
<1>4. \A i \in DOMAIN wire : (IsNews(wire'[i]) <=> IsNews(wire[i])) /\ (Clears(wire'[i]) <=> Clears(wire[i]))
  <2>1. Line("late").kind = "late" BY DEF Line
  <2> QED BY <1>2, <2>1 DEF IsNews, Clears
<1>5. TimelyLive' = TimelyLive BY DEF TimelyLive, IsLive, LiveAt
<1>6. NoNews <=> NoNews' BY <1>2, <1>4 DEF NoNews
<1>7. \A e : Unseen(e)' <=> Unseen(e) BY <1>2, <1>3, <1>4, <1>5, <1>6 DEF Unseen
<1>8. ASSUME NEW e \in 1 .. Len(wire) + 1, Unclearing(1, e - 1)
      PROVE  Unclearing(1, e - 1)'
  <2> SUFFICES ASSUME NEW k \in 1 .. e - 1 PROVE ~Clears(wire'[k]) BY DEF Unclearing
  <2>1. k \in DOMAIN wire BY <1>1
  <2> QED BY <1>4, <1>8, <2>1 DEF Unclearing
<1>9. OneAtATime => OneAtATime' BY <1>2, <1>4, <1>5 DEF OneAtATime
<1>10. \A r \in DOMAIN wire' : wire'[r].kind # "reply" BY LateMeans DEF NoReplies
<1> QED BY <1>2, <1>3, <1>5, <1>6, <1>7, <1>8, <1>9, <1>10

LEMMA ReadTimeoutStarts ==
  ASSUME TypeInv, StartInvariant, ReadTimeout
  PROVE  StartInvariant'
<1>1. /\ link = "up"
      /\ Awaiting("resume") \/ Awaiting("read")
      /\ op' = [op EXCEPT !.reply = Refused] /\ req' = NoReq /\ wire' = Late(wire)
      /\ UNCHANGED <<turns, alive, subscribed, link, uTurn, reg>>
  BY DEF ReadTimeout
<1>2. op'.kind = op.kind /\ op'.phase = op.phase /\ op'.reply = Refused BY <1>1, TypedParts, RejectedFields
<1>3. Refused # NoReply /\ ~Refused.ok BY DEF Refused, NoReply, Reply, Line
<1>4. op.phase \in {"resume", "read"} BY <1>1 DEF Awaiting
<1>5. /\ TimelyLive' = TimelyLive /\ (NoNews <=> NoNews') /\ OneAtATime'
      /\ Len(wire') = Len(wire) /\ \A r \in DOMAIN wire' : wire'[r].kind # "reply"
  BY <1>1, LateNews DEF StartInvariant
<1>6. StartsAreGuarded'
  <2> SUFFICES ASSUME NEW e \in 1 .. Len(wire') + 1, Unseen(e)'
               PROVE  (GuardedByRuntime(e) \/ GuardedAsUncertain(e))'
    BY DEF StartsAreGuarded
  <2>1. e \in 1 .. Len(wire) + 1 /\ Unseen(e) /\ (Unclearing(1, e - 1) => Unclearing(1, e - 1)')
    BY <1>1, <1>5, LateNews
  <2>2. GuardedByRuntime(e) \/ GuardedAsUncertain(e)
    BY <1>4, <2>1 DEF StartInvariant, StartsAreGuarded, GuardedByResponse, Starting
  <2> QED BY <1>1, <2>1, <2>2 DEF GuardedByRuntime, GuardedAsUncertain
<1>7. NothingRuns' BY <1>1, <1>2, <1>5, NoOpMeans DEF StartInvariant, NothingRuns
<1>8. ReadsAreFresh' BY <1>2, <1>3, <1>4, <1>5 DEF ReadsAreFresh
<1>9. OrphansAreUncertain' /\ LostIsSilent'
  BY <1>1, <1>2, <1>3 DEF StartInvariant, OrphansAreUncertain, LostIsSilent, NoReq
<1> QED BY <1>5, <1>6, <1>7, <1>8, <1>9 DEF StartInvariant

\* A mutation that takes too long costs the connection; a dying process still
\* talks.
LEMMA MutationTimeoutStarts ==
  ASSUME TypeInv, StartInvariant, MutationTimeout
  PROVE  StartInvariant'
<1>1. /\ link = "up" /\ Awaiting("mutate") /\ req' = Orphaned(req)
      /\ UNCHANGED <<turns, alive>>
      /\ Disconnect(IF SharedServer THEN "down" ELSE "closing")
      /\ wire' = (IF SharedServer THEN << >> ELSE Late(wire))
      /\ subscribed' = (subscribed /\ ~SharedServer)
  BY DEF MutationTimeout
<1>2. CASE SharedServer
  <2>1. Disconnect("down") /\ wire' = << >> /\ subscribed' = FALSE /\ req' \in {NoReq, Orphaned(req)}
    BY <1>1, <1>2
  <2> QED BY <1>1, <2>1, DisconnectStarts
<1>3. CASE ~SharedServer
  <2>1. Disconnect("closing") /\ wire' = Late(wire) /\ link' = "closing" /\ subscribed' = subscribed
    BY <1>1, <1>3 DEF Disconnect, TypeInv, TypeOK, ServerTypeOK
  <2>2. /\ TimelyLive' = TimelyLive /\ (NoNews <=> NoNews') /\ OneAtATime'
        /\ Len(wire') = Len(wire) /\ \A r \in DOMAIN wire' : wire'[r].kind # "reply"
    BY <1>1, <2>1, LateNews DEF StartInvariant
  <2>3. /\ IsBusy(reg') /\ op' = NoOp
        /\ op.kind = "start" => uTurn'.msg # NoMsg
        /\ op.kind # "start" => uTurn' = uTurn
    BY <1>1, <2>1, DisconnectMeans, ConstantsAssumption
  <2>4. StartsAreGuarded'
    <3> SUFFICES ASSUME NEW e \in 1 .. Len(wire') + 1, Unseen(e)'
                 PROVE  (GuardedByRuntime(e) \/ GuardedAsUncertain(e))'
      BY DEF StartsAreGuarded
    <3>1. e \in 1 .. Len(wire) + 1 /\ Unseen(e) /\ (Unclearing(1, e - 1) => Unclearing(1, e - 1)')
      BY <1>1, <2>1, <2>2, LateNews
    <3>2. CASE op.kind = "start" BY <2>1, <2>3, <3>2 DEF GuardedAsUncertain
    <3>3. CASE op.kind # "start"
      <4>1. GuardedByRuntime(e) \/ GuardedAsUncertain(e)
        BY <3>1, <3>3 DEF StartInvariant, StartsAreGuarded, GuardedByResponse, Starting
      <4> QED BY <2>1, <2>3, <3>1, <3>3, <4>1 DEF GuardedByRuntime, GuardedAsUncertain
    <3> QED BY <3>2, <3>3
  <2>5. req'.kind = "start" => req.kind = "start" BY <1>1, OrphanFacts
  <2>6. NothingRuns' BY <2>2, <2>3, <2>5, NoOpMeans DEF StartInvariant, NothingRuns
  <2>7. ReadsAreFresh' /\ LostIsSilent'
    BY <1>1, <2>1, <2>3, NoOpMeans DEF StartInvariant, ReadsAreFresh, LostIsSilent
  <2>8. OrphansAreUncertain'
    <3>1. req'.orphan /\ req'.kind = "start" => op.kind = "start" BY <1>1, OrphanFacts
    <3> QED BY <2>1, <2>3, <3>1, NoOpMeans DEF OrphansAreUncertain
  <2> QED BY <2>2, <2>4, <2>6, <2>7, <2>8 DEF StartInvariant
<1> QED BY <1>2, <1>3

\* The process dies, and with it every Turn in progress and what it had not said.
LEMMA CrashStarts ==
  ASSUME TypeInv, StartInvariant, Crash
  PROVE  StartInvariant'
<1>1. /\ alive' = FALSE /\ subscribed' = FALSE /\ req' = NoReq
      /\ turns' = [t \in DOMAIN turns |-> [turns[t] EXCEPT !.status = "ended"]]
      /\ UNCHANGED <<link, op, uTurn, reg>>
  BY DEF Crash, session
<1>2. PICK n \in 0 .. Len(wire) : wire' = SubSeq(wire, 1, n) BY DEF Crash
<1>3. /\ Len(wire) \in Nat /\ DOMAIN wire = 1 .. Len(wire) /\ n \in Nat /\ n <= Len(wire)
      /\ Len(wire') = n /\ DOMAIN wire' = 1 .. n
      /\ \A i \in DOMAIN wire' : wire'[i] = wire[i] /\ i \in DOMAIN wire
  BY <1>2, Places
<1>4. ~TimelyLive' /\ \A t \in DOMAIN turns' : ~Running(turns'[t])
  <2>1. \A t \in DOMAIN turns : [turns[t] EXCEPT !.status = "ended"].status = "ended" BY Places DEF Turn
  <2> QED BY <1>1, <2>1 DEF TimelyLive, IsLive, LiveAt, Running
<1>5. NoNews => NoNews' BY <1>3 DEF NoNews
<1>6. StartsAreGuarded'
  <2> SUFFICES ASSUME NEW e \in 1 .. Len(wire') + 1, Unseen(e)'
               PROVE  (GuardedByRuntime(e) \/ GuardedAsUncertain(e) \/ GuardedByResponse(e))'
    BY DEF StartsAreGuarded
  <2>1. e \in 1 .. Len(wire) + 1 /\ Unseen(e) /\ e \in DOMAIN wire' BY <1>3, <1>4 DEF Unseen
  <2>2. GuardedByRuntime(e) \/ GuardedAsUncertain(e) \/ GuardedByResponse(e)
    BY <2>1 DEF StartInvariant, StartsAreGuarded
  <2>3. \A k \in 1 .. e - 1 : k \in DOMAIN wire' /\ wire'[k] = wire[k] BY <1>3, <2>1
  <2>4. Unclearing(1, e - 1) => Unclearing(1, e - 1)' BY <2>3 DEF Unclearing
  <2>5. \A r \in 1 .. e - 1 : Unclearing(r + 1, e - 1) => Unclearing(r + 1, e - 1)'
    <3> SUFFICES ASSUME NEW r \in 1 .. e - 1, Unclearing(r + 1, e - 1), NEW k \in r + 1 .. e - 1
                 PROVE  ~Clears(wire'[k])
      BY DEF Unclearing
    <3>1. k \in 1 .. e - 1 OBVIOUS
    <3> QED BY <2>3, <3>1 DEF Unclearing
  <2>6. GuardedByResponse(e) => GuardedByResponse(e)' BY <1>1, <2>3, <2>4, <2>5 DEF GuardedByResponse, Starting
  <2> QED BY <1>1, <2>2, <2>4, <2>6 DEF GuardedByRuntime, GuardedAsUncertain
<1>7. OneAtATime' BY <1>3, <1>4 DEF StartInvariant, OneAtATime
<1>8. NothingRuns' BY <1>1, <1>4, <1>5, NoOpMeans DEF StartInvariant, NothingRuns
<1>9. ReadsAreFresh'
  <2>1. \A r \in DOMAIN wire' : wire'[r].kind = "reply" => wire[r].kind = "reply" /\ r \in DOMAIN wire BY <1>3
  <2>2. op.phase = "read" => \A r \in DOMAIN wire' : wire'[r].kind = "reply" =>
            \A k \in DOMAIN wire' : r < k => ~IsNews(wire'[k])
    BY <1>3, <2>1 DEF StartInvariant, ReadsAreFresh
  <2>3. /\ \A r \in DOMAIN wire' : TimelyLive' => LiveAt(wire'[r].view, Len(turns'))
        /\ TimelyLive' => LiveAt(op'.reply.view, Len(turns')) /\ LiveAt(op'.view, Len(turns'))
    BY <1>4
  <2> QED BY <1>1, <1>5, <2>2, <2>3 DEF StartInvariant, ReadsAreFresh, SeesLive
<1>10. OrphansAreUncertain' BY <1>1 DEF OrphansAreUncertain, NoReq
<1>11. LostIsSilent'
  <2>1. wire = << >> => wire' = << >> BY <1>2, <1>3
  <2> QED BY <1>1, <2>1 DEF StartInvariant, LostIsSilent
<1> QED BY <1>6, <1>7, <1>8, <1>9, <1>10, <1>11 DEF StartInvariant

----
(* The App Server serves a request. *)

LEMMA MoreLines ==
  ASSUME TypeInv, NEW u \in Seq(Lines), wire' = wire \o u
  PROVE  /\ Len(wire) \in Nat /\ Len(wire') \in Nat /\ Len(wire) <= Len(wire')
         /\ DOMAIN wire = 1 .. Len(wire) /\ DOMAIN wire' = 1 .. Len(wire')
         /\ \A k \in DOMAIN wire : k \in DOMAIN wire' /\ wire'[k] = wire[k]
         /\ \A k \in DOMAIN wire' : k \in DOMAIN wire \/ (k > Len(wire) /\ wire'[k] \in OnWire(u))
         /\ \A k \in DOMAIN wire' : k > Len(wire) => /\ wire'[k] = u[k - Len(wire)]
                                                     /\ k - Len(wire) \in DOMAIN u
<1>1. wire \in Seq(Lines) /\ Len(wire) \in Nat /\ DOMAIN wire = 1 .. Len(wire) BY Places
<1>2. /\ Len(u) \in Nat /\ DOMAIN u = 1 .. Len(u)
      /\ Len(wire') = Len(wire) + Len(u) /\ DOMAIN wire' = 1 .. Len(wire')
  BY <1>1
<1>3. \A k \in DOMAIN wire : k \in DOMAIN wire' /\ wire'[k] = wire[k] BY <1>1, <1>2
<1>4. ASSUME NEW k \in DOMAIN wire', k > Len(wire)
      PROVE  wire'[k] = u[k - Len(wire)] /\ k - Len(wire) \in DOMAIN u
  BY <1>1, <1>2, <1>4
<1>5. ASSUME NEW k \in DOMAIN wire'
      PROVE  k \in DOMAIN wire \/ (k > Len(wire) /\ wire'[k] \in OnWire(u))
  <2>1. CASE k > Len(wire) BY <1>4, <2>1 DEF OnWire
  <2>2. CASE ~(k > Len(wire)) BY <1>1, <1>2, <2>2
  <2> QED BY <2>1, <2>2
<1> QED BY <1>1, <1>2, <1>3, <1>4, <1>5

\* The lines before number e are the same.
LEMMA GuardsAsBefore ==
  ASSUME UNCHANGED <<reg, uTurn, op, link>>, NEW e \in Nat,
         \A k \in 1 .. e - 1 : wire'[k] = wire[k],
         GuardedByRuntime(e) \/ GuardedAsUncertain(e) \/ GuardedByResponse(e)
  PROVE  (GuardedByRuntime(e) \/ GuardedAsUncertain(e) \/ GuardedByResponse(e))'
<1>1. Unclearing(1, e - 1) => Unclearing(1, e - 1)' BY DEF Unclearing
<1>2. ASSUME NEW r \in 1 .. e - 1, Unclearing(r + 1, e - 1) PROVE Unclearing(r + 1, e - 1)'
  <2> SUFFICES ASSUME NEW k \in r + 1 .. e - 1 PROVE ~Clears(wire'[k]) BY DEF Unclearing
  <2>1. k \in 1 .. e - 1 OBVIOUS
  <2> QED BY <1>2, <2>1 DEF Unclearing
<1>3. GuardedByResponse(e) => GuardedByResponse(e)' BY <1>1, <1>2 DEF GuardedByResponse, Starting
<1> QED BY <1>1, <1>3 DEF GuardedByRuntime, GuardedAsUncertain

\* The App Server talks, but tells of no start.
LEMMA TalkStarts ==
  ASSUME TypeInv, TypeInv', StartInvariant, SharedInv, NEW u \in Seq(Lines), wire' = wire \o u, UNCHANGED <<reg, uTurn, op, link, alive>>,
         UNCHANGED strays \/ SharedServer,
         \A t \in DOMAIN turns' : Running(turns'[t]) => t = Len(turns'),
         TimelyLive' => TimelyLive /\ Len(turns') = Len(turns),
         \A l \in OnWire(u) :
            /\ ~IsNews(l) /\ (l.kind = "started" => SharedServer)
            /\ TimelyLive' => ~Clears(l)
            /\ op.phase = "read" /\ l.kind = "reply" /\ TimelyLive' => LiveAt(l.view, Len(turns')),
         \/ TimelyLive' /\ Starting => op.reply # NoReply /\ ~op.reply.ok
         \/ \A l \in OnWire(u) : l.kind # "reply",
         req' \in {NoReq, req},
         link = "down" => u = << >> /\ ~subscribed',
         ~alive' => ~subscribed'
  PROVE  StartInvariant' /\ SharedInv'
<1>1. /\ Len(wire) \in Nat /\ Len(wire') \in Nat /\ Len(wire) <= Len(wire')
      /\ DOMAIN wire = 1 .. Len(wire) /\ DOMAIN wire' = 1 .. Len(wire')
      /\ \A k \in DOMAIN wire : k \in DOMAIN wire' /\ wire'[k] = wire[k]
      /\ \A k \in DOMAIN wire' : k \in DOMAIN wire \/ (k > Len(wire) /\ wire'[k] \in OnWire(u))
  BY MoreLines
<1>2. TimelyLive' => TimelyLive /\ Len(turns') = Len(turns) OBVIOUS
<1>3. \A k \in DOMAIN wire' : IsNews(wire'[k]) => k \in DOMAIN wire /\ IsNews(wire[k]) BY <1>1
<1>4. NoNews <=> NoNews' BY <1>1, <1>3 DEF NoNews
<1>5. StartsAreGuarded'
  <2> SUFFICES ASSUME NEW e \in 1 .. Len(wire') + 1, Unseen(e)'
               PROVE  (GuardedByRuntime(e) \/ GuardedAsUncertain(e) \/ GuardedByResponse(e))'
    BY DEF StartsAreGuarded
  <2>1. CASE e \in DOMAIN wire' /\ IsNews(wire'[e])
    <3>1. e \in DOMAIN wire /\ IsNews(wire[e]) /\ e \in 1 .. Len(wire) + 1 /\ e \in Nat BY <1>1, <1>3, <2>1
    <3>2. GuardedByRuntime(e) \/ GuardedAsUncertain(e) \/ GuardedByResponse(e)
      BY <3>1 DEF StartInvariant, StartsAreGuarded, Unseen
    <3>3. \A k \in 1 .. e - 1 : wire'[k] = wire[k] BY <1>1, <3>1
    <3> QED BY <3>1, <3>2, <3>3, GuardsAsBefore
  <2>2. CASE e = Len(wire') + 1 /\ TimelyLive' /\ NoNews'
    <3>1. Len(wire) + 1 \in 1 .. Len(wire) + 1 /\ Unseen(Len(wire) + 1) /\ (Len(wire) + 1) - 1 = Len(wire)
          /\ (Len(wire') + 1) - 1 = Len(wire')
      BY <1>1, <1>2, <1>4, <2>2 DEF Unseen
    <3>2. \/ GuardedByRuntime(Len(wire) + 1) \/ GuardedAsUncertain(Len(wire) + 1)
          \/ GuardedByResponse(Len(wire) + 1)
      BY <3>1 DEF StartInvariant, StartsAreGuarded
    <3>3. ASSUME Unclearing(1, Len(wire)) PROVE \A k \in DOMAIN wire' : ~Clears(wire'[k])
      <4> SUFFICES ASSUME NEW k \in DOMAIN wire' PROVE ~Clears(wire'[k]) OBVIOUS
      <4>1. CASE k \in DOMAIN wire
        <5>1. k \in 1 .. Len(wire) /\ wire'[k] = wire[k] BY <1>1, <4>1
        <5> QED BY <3>3, <5>1 DEF Unclearing
      <4>2. CASE k \notin DOMAIN wire BY <1>1, <2>2, <4>2
      <4> QED BY <4>1, <4>2
    <3>4. e - 1 = Len(wire') /\ DOMAIN wire' = 1 .. e - 1 BY <1>1, <2>2
    <3>5. Unclearing(1, Len(wire)) => Unclearing(1, e - 1)' BY <3>3, <3>4 DEF Unclearing
    <3>6. Unclearing(1, (Len(wire) + 1) - 1) <=> Unclearing(1, Len(wire)) BY <3>1
    <3>7. CASE GuardedByRuntime(Len(wire) + 1)
      <4>1. IsBusy(reg)' /\ Unclearing(1, e - 1)' BY <3>5, <3>6, <3>7 DEF GuardedByRuntime
      <4> QED BY <4>1 DEF GuardedByRuntime
    <3>8. CASE GuardedAsUncertain(Len(wire) + 1)
      <4>1. uTurn'.msg # NoMsg /\ (link' # "closing" => Unclearing(1, e - 1)')
        BY <3>5, <3>6, <3>8 DEF GuardedAsUncertain
      <4> QED BY <4>1 DEF GuardedAsUncertain
    <3>9. CASE GuardedByResponse(Len(wire) + 1)
      <4>1. Starting' /\ (\A l \in OnWire(u) : l.kind # "reply") BY <2>2, <3>9 DEF GuardedByResponse, Starting
      <4>2. CASE op.reply = NoReply /\ \A k \in 1 .. Len(wire) : wire[k].kind # "reply"
        <5>1. \A k \in 1 .. e - 1 : wire'[k].kind # "reply" BY <1>1, <3>4, <4>1, <4>2
        <5> QED BY <4>1, <4>2, <5>1 DEF GuardedByResponse
      <4>3. CASE /\ op.reply = NoReply
                 /\ \E r \in 1 .. Len(wire) : wire[r].kind = "reply" /\ wire[r].ok /\ Unclearing(r + 1, Len(wire))
        <5>1. PICK r \in 1 .. Len(wire) : wire[r].kind = "reply" /\ wire[r].ok /\ Unclearing(r + 1, Len(wire))
          BY <4>3
        <5>2. r \in 1 .. e - 1 /\ wire'[r] = wire[r] BY <1>1, <3>4
        <5>3. Unclearing(r + 1, e - 1)'
          <6> SUFFICES ASSUME NEW k \in r + 1 .. e - 1 PROVE ~Clears(wire'[k]) BY DEF Unclearing
          <6>1. k \in DOMAIN wire' /\ k \in Nat BY <1>1, <3>4
          <6>2. CASE k \in DOMAIN wire
            <7>1. k \in r + 1 .. Len(wire) /\ wire'[k] = wire[k] BY <1>1, <6>2
            <7> QED BY <5>1, <7>1 DEF Unclearing
          <6>3. CASE k \notin DOMAIN wire BY <1>1, <2>2, <6>1, <6>3
          <6> QED BY <6>2, <6>3
        <5> QED BY <4>1, <4>3, <5>1, <5>2, <5>3 DEF GuardedByResponse
      <4>4. CASE op.reply # NoReply /\ op.reply.ok /\ Unclearing(1, Len(wire))
        BY <3>5, <4>1, <4>4 DEF GuardedByResponse
      <4> QED BY <3>1, <3>9, <4>2, <4>3, <4>4 DEF GuardedByResponse
    <3> QED BY <3>2, <3>7, <3>8, <3>9
  <2> QED BY <2>1, <2>2 DEF Unseen
<1>6. OneAtATime'
  <2>1. \A t \in DOMAIN turns' : Running(turns'[t]) => t = Len(turns') OBVIOUS
  <2>2. \A i, j \in DOMAIN wire' : IsNews(wire'[i]) /\ IsNews(wire'[j]) => i = j
    BY <1>3 DEF StartInvariant, OneAtATime
  <2>3. ASSUME TimelyLive', NEW i \in DOMAIN wire', NEW k \in DOMAIN wire', IsNews(wire'[i]), i < k
        PROVE  ~Clears(wire'[k])
    <3>1. CASE k \in DOMAIN wire BY <1>1, <1>2, <1>3, <2>3, <3>1 DEF StartInvariant, OneAtATime
    <3>2. CASE k \notin DOMAIN wire BY <1>1, <2>3, <3>2
    <3> QED BY <3>1, <3>2
  <2> QED BY <2>1, <2>2, <2>3 DEF OneAtATime
<1>7. NothingRuns' BY <1>2, <1>4, NoOpMeans DEF StartInvariant, NothingRuns
<1>8. ReadsAreFresh'
  <2>1. ASSUME op.phase = "read", NEW r \in DOMAIN wire', wire'[r].kind = "reply"
        PROVE  /\ \A k \in DOMAIN wire' : r < k => ~IsNews(wire'[k])
               /\ TimelyLive' => LiveAt(wire'[r].view, Len(turns'))
    <3>1. CASE r \in DOMAIN wire
      <4>1. wire[r] = wire'[r] /\ wire[r].kind = "reply" BY <1>1, <2>1, <3>1
      <4>2. SeesLive(wire[r].view) /\ \A k \in DOMAIN wire : r < k => ~IsNews(wire[k])
        BY <2>1, <3>1, <4>1 DEF StartInvariant, ReadsAreFresh
      <4> QED BY <1>2, <1>3, <4>1, <4>2 DEF SeesLive
    <3>2. CASE r \notin DOMAIN wire
      <4>1. r > Len(wire) /\ wire'[r] \in OnWire(u) BY <1>1, <3>2
      <4>2. ASSUME NEW k \in DOMAIN wire', r < k PROVE ~IsNews(wire'[k])
        <5>1. k \notin DOMAIN wire BY <1>1, <4>1, <4>2
        <5> QED BY <1>3, <5>1
      <4> QED BY <2>1, <4>1, <4>2
    <3> QED BY <3>1, <3>2
  <2>2. \A view : SeesLive(view) => (TimelyLive' => LiveAt(view, Len(turns'))) BY <1>2 DEF SeesLive
  <2>3. op.phase = "read" /\ op.reply # NoReply /\ op.reply.ok => (NoNews' /\ link' # "closing" /\ SeesLive(op.reply.view)')
    BY <1>4, <2>2 DEF StartInvariant, ReadsAreFresh, SeesLive
  <2>4. op.phase = "settle" => (NoNews' /\ link' # "closing" /\ SeesLive(op.view)')
    BY <1>4, <2>2 DEF StartInvariant, ReadsAreFresh, SeesLive
  <2> QED BY <2>1, <2>3, <2>4 DEF ReadsAreFresh, SeesLive
<1>9. OrphansAreUncertain'
  <2>1. ~NoReq.orphan BY DEF NoReq
  <2> QED BY <2>1 DEF StartInvariant, OrphansAreUncertain
<1>10. LostIsSilent'
  <2>1. link = "down" => wire' = << >>
    <3> SUFFICES ASSUME link = "down" PROVE wire' = << >> OBVIOUS
    <3>1. wire = << >> /\ u = << >> BY DEF StartInvariant, LostIsSilent
    <3> QED BY <3>1
  <2> QED BY <2>1 DEF StartInvariant, LostIsSilent
<1>11. SharedInv'
  <2>1. ASSUME ~SharedServer, NEW k \in DOMAIN wire', wire'[k].kind = "started" PROVE ~wire'[k].rec.late
    <3>1. k \in DOMAIN wire /\ wire'[k] = wire[k] BY <1>1, <2>1
    <3> QED BY <2>1, <3>1 DEF SharedInv
  <2> QED BY <2>1 DEF SharedInv
<1> QED BY <1>5, <1>6, <1>7, <1>8, <1>9, <1>10, <1>11 DEF StartInvariant

LEMMA Spoken ==
  /\ \A l \in Lines : <<l>> \in Seq(Lines) /\ OnWire(<<l>>) = {l}
  /\ << >> \in Seq(Lines) /\ OnWire(<< >>) = {}
<1>1. \A l \in Lines : <<l>> \in Seq(Lines) /\ OnWire(<<l>>) = {l}
  <2> SUFFICES ASSUME NEW l \in Lines PROVE <<l>> \in Seq(Lines) /\ OnWire(<<l>>) = {l} OBVIOUS
  <2>1. DOMAIN <<l>> = {1} /\ <<l>>[1] = l OBVIOUS
  <2> QED BY <2>1 DEF OnWire
<1> QED BY <1>1 DEF OnWire

LEMMA SpokenTogether ==
  ASSUME NEW v \in Seq(Lines), NEW w \in Seq(Lines), NEW u \in {v \o w, w \o v}
  PROVE  /\ u \in Seq(Lines) /\ OnWire(u) \subseteq OnWire(v) \cup OnWire(w)
         /\ v = << >> /\ w = << >> => u = << >>
<1>1. u \in Seq(Lines) /\ (v = << >> /\ w = << >> => u = << >>)
  <2>1. u \in Seq(Lines)
    <3>1. v \o w \in Seq(Lines) /\ w \o v \in Seq(Lines) OBVIOUS
    <3> QED BY <3>1
  <2>2. ASSUME v = << >>, w = << >> PROVE u = << >>
    <3>1. Len(u) = 0 BY <2>2
    <3> QED BY <2>1, <3>1, EmptySeq
  <2> QED BY <2>1, <2>2
<1>2. ASSUME NEW i \in DOMAIN u PROVE u[i] \in OnWire(v) \cup OnWire(w)
  <2>1. ASSUME NEW x \in Seq(Lines), NEW y \in Seq(Lines), NEW j \in DOMAIN (x \o y)
        PROVE  \/ j \in DOMAIN x /\ (x \o y)[j] = x[j]
               \/ j - Len(x) \in DOMAIN y /\ (x \o y)[j] = y[j - Len(x)]
    OBVIOUS
  <2>2. CASE u = v \o w BY <1>2, <2>1, <2>2 DEF OnWire
  <2>3. CASE u = w \o v BY <1>2, <2>1, <2>3 DEF OnWire
  <2> QED BY <2>2, <2>3
<1> QED BY <1>1, <1>2 DEF OnWire

\* Both orders of two pieces of news that follow what is on the wire.
LEMMA SaidInOrder ==
  ASSUME TypeInv, NEW v \in Seq(Lines), NEW w \in Seq(Lines),
         wire' \in {(wire \o v) \o w, (wire \o w) \o v}
  PROVE  \E u \in {v \o w, w \o v} : wire' = wire \o u
<1>1. wire \in Seq(Lines) BY Places
<1>2. (wire \o v) \o w = wire \o (v \o w) BY <1>1, ConcatAssociative
<1>3. (wire \o w) \o v = wire \o (w \o v) BY <1>1, ConcatAssociative
<1> QED BY <1>2, <1>3

\* A start that was answered is no start that is asked.
LEMMA AskedMeans ==
  ASSUME TypeInv, StartInvariant, req.kind # "none"
  PROVE  /\ ~req.orphan => op.reply = NoReply /\ req.kind = Asked(op) /\ link = "up" /\ NoReplies(wire)
         /\ req.orphan => link # "up" /\ (op.phase = "mutate" => op.reply # NoReply /\ ~op.reply.ok)
         /\ link = "down" => req.orphan /\ ~subscribed
         /\ req.kind = "steer" /\ ~req.orphan => op.phase = "mutate" /\ op.kind = "steer"
         /\ req.kind = "start" /\ ~req.orphan => Starting
         /\ req.kind \in {"resume", "read"} => ~req.orphan /\ op.phase = req.kind
<1>1. ~req.orphan => op.phase \in Awaits /\ op.reply = NoReply /\ req.kind = Asked(op) /\ NoReplies(wire)
  BY DEF TypeInv, RequestAwaited
<1>2. link # "up" /\ op.phase \in Awaits => op.reply # NoReply BY DEF StartInvariant, LostIsSilent, Awaits
<1>3. req.orphan => link # "up" /\ (op.reply # NoReply => ~op.reply.ok)
  BY DEF StartInvariant, OrphansAreUncertain
<1>4. link = "down" => ~subscribed BY DEF StartInvariant, LostIsSilent
<1>5. op.phase = "mutate" => op.kind \in {"start", "steer"} BY DEF TypeInv, MessagesInFlight
<1>6. req.kind \in {"resume", "read"} => ~req.orphan BY DEF TypeInv, MessagesInFlight
<1> QED BY <1>1, <1>2, <1>3, <1>4, <1>5, <1>6 DEF Asked, Awaits, Starting

LEMMA ServeReadStarts ==
  ASSUME TypeInv, TypeInv', StartInvariant, SharedInv, ServeRead
  PROVE  StartInvariant' /\ SharedInv'
<1> DEFINE line == Reply(TRUE, 0, turns)
<1>1. /\ req.kind = "read" /\ req' = NoReq /\ wire' = Append(wire, line)
      /\ UNCHANGED <<turns, alive, subscribed, link, strays, op, uTurn, reg>>
  BY DEF ServeRead, session
<1>2. line \in Lines /\ line.kind = "reply" /\ line.view = turns
  BY Places, TurnsAreView, Constants, ReplyTypes DEF Reply, Line, TypeInv, TypeOK, ServerTypeOK
<1> HIDE DEF line
<1>3. /\ wire' = wire \o <<line>> /\ OnWire(<<line>>) = {line} /\ <<line>> \in Seq(Lines)
  <2>1. wire \in Seq(Lines) BY Places
  <2> QED BY <1>1, <1>2, <2>1, Spoken, AppendIsConcat
<1>4. op.phase = "read" /\ link = "up" BY <1>1, AskedMeans
<1>5. (TimelyLive' <=> TimelyLive) /\ \A t \in DOMAIN turns' : Running(turns'[t]) => t = Len(turns')
  BY <1>1 DEF TimelyLive, IsLive, LiveAt, StartInvariant, OneAtATime
<1>6. TimelyLive => LiveAt(turns, Len(turns)) BY DEF TimelyLive, IsLive, LiveAt, StartInvariant, OneAtATime
<1>7. \A l \in OnWire(<<line>>) :
              /\ ~IsNews(l) /\ (l.kind = "started" => SharedServer)
              /\ TimelyLive' => ~Clears(l)
              /\ op.phase = "read" /\ l.kind = "reply" /\ TimelyLive' => LiveAt(l.view, Len(turns'))
  BY <1>1, <1>2, <1>3, <1>5, <1>6 DEF IsNews, Clears
<1>8. ~alive' => ~subscribed' BY <1>1 DEF StartInvariant, LostIsSilent
<1>9. ~Starting BY <1>4 DEF Starting
<1> QED BY <1>1, <1>3, <1>4, <1>5, <1>7, <1>8, <1>9, TalkStarts

LEMMA ServeResumeStarts ==
  ASSUME TypeInv, TypeInv', StartInvariant, SharedInv, ServeResume
  PROVE  StartInvariant' /\ SharedInv'
<1> DEFINE kind == IF LiveTurn THEN "active" ELSE "idle"
           status == <<Line(kind)>>
           view == IF Paginated THEN NoTurns ELSE turns
           line == Reply(TRUE, 0, view)
           answer == <<line>>
<1>1. /\ alive /\ req.kind = "resume" /\ req' = NoReq /\ subscribed' = TRUE
      /\ UNCHANGED <<turns, alive, link, strays, op, uTurn, reg>>
      /\ \/ wire' = wire \o answer
         \/ wire' = (wire \o status) \o answer
         \/ wire' = (wire \o answer) \o status
  BY DEF ServeResume, session
<1>2. line \in Lines /\ line.kind = "reply"
  <2>1. view \in View BY TurnsAreView, NoTurnsType DEF TypeInv, TypeOK, ServerTypeOK
  <2> HIDE DEF view
  <2> QED BY <2>1, Constants, ReplyTypes DEF Reply, Line
<1>3. Line(kind) \in Lines /\ Line(kind).kind = kind BY LineTypes DEF Line
<1>4. kind \in {"active", "idle"} /\ (TimelyLive => kind = "active") BY DEF LiveTurn, TimelyLive, IsLive, LiveAt
<1> HIDE DEF line, kind
<1>5. status \in Seq(Lines) /\ answer \in Seq(Lines) /\ OnWire(status) = {Line(kind)} /\ OnWire(answer) = {line}
  BY <1>2, <1>3, Spoken
<1> HIDE DEF status, answer
<1>6. PICK u : wire' = wire \o u /\ (u = answer \/ u \in {status \o answer, answer \o status})
  <2>1. CASE wire' = wire \o answer BY <2>1
  <2>2. CASE wire' \in {(wire \o status) \o answer, (wire \o answer) \o status} BY <1>5, <2>2, SaidInOrder
  <2> QED BY <1>1, <2>1, <2>2
<1>7. u \in Seq(Lines) /\ OnWire(u) \subseteq {Line(kind), line} BY <1>5, <1>6, SpokenTogether
<1>8. op.phase = "resume" /\ link = "up" BY <1>1, AskedMeans
<1>9. (TimelyLive' <=> TimelyLive) /\ \A t \in DOMAIN turns' : Running(turns'[t]) => t = Len(turns')
  BY <1>1 DEF TimelyLive, IsLive, LiveAt, StartInvariant, OneAtATime
<1>10. \A l \in OnWire(u) :
              /\ ~IsNews(l) /\ (l.kind = "started" => SharedServer)
              /\ TimelyLive' => ~Clears(l)
              /\ op.phase = "read" /\ l.kind = "reply" /\ TimelyLive' => LiveAt(l.view, Len(turns'))
  BY <1>2, <1>3, <1>4, <1>7, <1>8, <1>9 DEF IsNews, Clears
<1>11. ~Starting BY <1>8 DEF Starting
<1> QED BY <1>1, <1>6, <1>7, <1>8, <1>9, <1>10, <1>11, TalkStarts

\* The answer to a steer, or that to a start that was refused.
LEMMA AnswerIsModest ==
  ASSUME TypeInv, StartInvariant, req.kind \in {"start", "steer"}, NEW line \in Lines, line.kind = "reply"
  PROVE  /\ Respond(line) \in Seq(Lines) /\ OnWire(Respond(line)) \subseteq {line}
         /\ ~IsNews(line) /\ ~Clears(line)
         /\ link = "down" => Respond(line) = << >>
         /\ op.phase = "read" => Respond(line) = << >>
<1>1. Respond(line) \in Seq(Lines) /\ OnWire(Respond(line)) \subseteq {line} BY Spoken DEF Respond
<1>2. link = "down" \/ op.phase = "read" => req.orphan BY AskedMeans DEF Starting
<1> QED BY <1>1, <1>2 DEF Respond, IsNews, Clears

LEMMA RefusalStarts ==
  ASSUME TypeInv, TypeInv', StartInvariant, SharedInv, req.kind \in {"start", "steer"}, req' = NoReq,
         wire' = wire \o Respond(Refused), UNCHANGED <<turns, alive, subscribed, link, strays, op, uTurn, reg>>,
         req.kind = "start" => ~req.orphan
  PROVE  StartInvariant' /\ SharedInv'
<1>1. Refused \in Lines /\ Refused.kind = "reply" BY ReplyTypes DEF Refused, Reply, Line
<1> DEFINE u == Respond(Refused)
<1>2. /\ u \in Seq(Lines) /\ OnWire(u) \subseteq {Refused} /\ ~IsNews(Refused) /\ ~Clears(Refused) /\ Refused.kind = "reply"
      /\ link = "down" => u = << >>
      /\ op.phase = "read" => u = << >>
  BY <1>1, AnswerIsModest
<1>3. (TimelyLive' <=> TimelyLive) /\ \A t \in DOMAIN turns' : Running(turns'[t]) => t = Len(turns')
  BY DEF TimelyLive, IsLive, LiveAt, StartInvariant, OneAtATime
<1>4. OnWire(<< >>) = {} BY DEF OnWire
<1>5. req.kind = "start" => ~TimelyLive BY DEF StartInvariant, NothingRuns
<1>6. TimelyLive' /\ Starting => op.reply # NoReply /\ ~op.reply.ok BY <1>3, <1>5, AskedMeans DEF Starting
<1>7. (link = "down" => ~subscribed') /\ (~alive' => ~subscribed') BY DEF StartInvariant, LostIsSilent
<1> HIDE DEF u
<1>8. \A l \in OnWire(u) :
              /\ ~IsNews(l) /\ (l.kind = "started" => SharedServer)
              /\ TimelyLive' => ~Clears(l)
              /\ op.phase = "read" /\ l.kind = "reply" /\ TimelyLive' => LiveAt(l.view, Len(turns'))
  BY <1>2, <1>4
<1>9. wire' = wire \o u BY DEF u
<1> QED BY <1>2, <1>3, <1>6, <1>7, <1>8, <1>9, TalkStarts

LEMMA ServeSteerStarts ==
  ASSUME TypeInv, TypeInv', StartInvariant, SharedInv, ServeSteer
  PROVE  StartInvariant' /\ SharedInv'
<1> DEFINE rec == [turns[req.turn] EXCEPT !.msgs = {req.msg}]
           l == TurnLine("item", req.turn, rec)
           item == Notify(<<l>>)
           line == Reply(TRUE, req.turn, NoTurns)
           answer == Respond(line)
<1>1. /\ req.kind = "steer" /\ req' = NoReq /\ UNCHANGED <<alive, subscribed, link, strays, op, uTurn, reg>>
  BY DEF ServeSteer, session
<1>2. CASE wire' = wire \o Respond(Refused) /\ UNCHANGED turns BY <1>1, <1>2, RefusalStarts
<1>3. CASE /\ LiveAt(turns, req.turn)
           /\ turns' = [turns EXCEPT ![req.turn].msgs = @ \cup {req.msg}]
           /\ wire' \in {wire \o item \o answer, wire \o answer \o item}
  <2>1. req.msg \in Msgs /\ req.turn \in MaybeNumber BY <1>1, TypedParts DEF TypeInv, MessagesInFlight, Requests
  <2>2. l \in Lines /\ l.kind = "item"
    <3>1. turns[req.turn] \in Turn BY <1>3 DEF LiveAt, TypeInv, TypeOK, ServerTypeOK
    <3>2. rec \in Turn BY <2>1, <3>1 DEF Turn
    <3> HIDE DEF rec
    <3> QED BY <2>1, <3>2, LineTypes DEF TurnLine, Line
  <2>3. line \in Lines /\ line.kind = "reply" BY <2>1, NoTurnsType, ReplyTypes DEF Reply, Line
  <2> HIDE DEF l, line
  <2>4. item \in Seq(Lines) /\ OnWire(item) \subseteq {l} BY <2>2, Spoken DEF Notify
  <2>5. /\ answer \in Seq(Lines) /\ OnWire(answer) \subseteq {line} /\ ~IsNews(line) /\ ~Clears(line)
        /\ link = "down" => answer = << >>
        /\ op.phase = "read" => answer = << >>
    BY <1>1, <2>3, AnswerIsModest
  <2>6. link = "down" => item = << >> /\ ~subscribed BY <1>1, AskedMeans DEF Notify
  <2> HIDE DEF item, answer
  <2>7. PICK u \in {item \o answer, answer \o item} : wire' = wire \o u BY <1>3, <2>4, <2>5, SaidInOrder
  <2>8. /\ u \in Seq(Lines) /\ OnWire(u) \subseteq OnWire(item) \cup OnWire(answer)
        /\ link = "down" => u = << >>
    BY <2>4, <2>5, <2>6, <2>7, SpokenTogether
  <2>9. OnWire(<< >>) = {} BY DEF OnWire
  <2>10. \A k \in OnWire(u) : ~IsNews(k) /\ k.kind # "started" /\ ~Clears(k) /\ (op.phase = "read" => k.kind # "reply")
    <3>1. \A k \in OnWire(u) : k \in {l, line} /\ (op.phase = "read" => k = l) BY <2>4, <2>5, <2>8, <2>9
    <3> QED BY <2>2, <2>3, <3>1 DEF IsNews, Clears
  <2>11. /\ Len(turns') = Len(turns) /\ DOMAIN turns' = DOMAIN turns
         /\ \A t \in DOMAIN turns' : turns'[t].status = turns[t].status /\ turns'[t].late = turns[t].late
    BY <1>3, Places DEF Turn, LiveAt
  <2>12. /\ \A t \in DOMAIN turns' : Running(turns'[t]) => t = Len(turns')
         /\ TimelyLive' => TimelyLive
    BY <2>11 DEF Running, TimelyLive, IsLive, LiveAt, StartInvariant, OneAtATime
  <2>13. Starting => op.reply # NoReply /\ ~op.reply.ok BY <1>1, AskedMeans DEF Starting
  <2>14. ~alive' => ~subscribed' BY <1>1 DEF StartInvariant, LostIsSilent
  <2> QED BY <1>1, <2>6, <2>7, <2>8, <2>10, <2>11, <2>12, <2>13, <2>14, TalkStarts
<1> QED BY <1>2, <1>3 DEF ServeSteer

\* A Turn that the App Server starts late is nobody's news; what it tells of the
\* thread's state only makes the runtime busy.
LEMMA ServeStrayStartStarts ==
  ASSUME TypeInv, TypeInv', StartInvariant, SharedInv, ServeStrayStart
  PROVE  StartInvariant' /\ SharedInv'
<1>1. PICK r \in strays :
        /\ r.kind = "start"
        /\ turns' = Append(turns, [status |-> "inProgress", msgs |-> {r.msg}, late |-> TRUE])
        /\ wire' = wire \o Notify(<<Line("active"), TurnLine("started", Len(turns) + 1,
                                  [status |-> "inProgress", msgs |-> {r.msg}, late |-> TRUE])>>)
  BY DEF ServeStrayStart
<1>2. ~LiveTurn /\ Len(turns) < MaxTurns /\ UNCHANGED <<alive, subscribed, req, link, op, uTurn, reg>>
  <2>1. Len(turns) + (IF StartUnderWay THEN 1 ELSE 0) < MaxTurns /\ Len(turns) \in Nat BY Places DEF ServeStrayStart
  <2> QED BY <2>1, ConstantsAssumption DEF ServeStrayStart, session
<1> DEFINE t == Len(turns) + 1
           fresh == [status |-> "inProgress", msgs |-> {r.msg}, late |-> TRUE]
           started == TurnLine("started", t, fresh)
           u == Notify(<<Line("active"), started>>)
<1>3. fresh \in Turn /\ t \in MaybeNumber
  <2>1. r.msg \in Msgs BY DEF TypeInv, TypeOK, TransportTypeOK
  <2> QED BY <1>2, <2>1, Places, Constants, ConstantsAssumption DEF Turn, Numbers
<1>4. started \in Lines /\ started.kind = "started" /\ started.rec = fresh
  <2> HIDE DEF fresh, t
  <2> QED BY <1>3, LineTypes DEF Line, TurnLine
<1>5. Line("active") \in Lines /\ Line("active").kind = "active" BY LineTypes DEF Line
<1>6. fresh.late OBVIOUS
<1>7. turns' = Append(turns, fresh) /\ wire' = wire \o u BY <1>1
<1> HIDE DEF started, fresh
<1>8. u \in Seq(Lines) /\ OnWire(u) \subseteq {Line("active"), started} /\ (~subscribed => u = << >>)
  <2>1. <<Line("active"), started>> \in Seq(Lines) /\ << >> \in Seq(Lines) BY <1>4, <1>5
  <2>2. OnWire(<<Line("active"), started>>) = {Line("active"), started} /\ OnWire(<< >>) = {}
    BY TwoOnWire DEF OnWire
  <2> QED BY <2>1, <2>2 DEF Notify
<1>9. \A l \in OnWire(u) : ~IsNews(l) /\ ~Clears(l) /\ l.kind # "reply"
  BY <1>4, <1>5, <1>6, <1>8 DEF IsNews, Clears
<1> HIDE DEF u
<1>10. /\ Len(turns') = Len(turns) + 1 /\ Len(turns) \in Nat /\ DOMAIN turns' = 1 .. Len(turns) + 1
       /\ \A k \in 1 .. Len(turns) : k \in DOMAIN turns /\ turns'[k] = turns[k]
       /\ turns'[Len(turns) + 1] = fresh
  BY <1>3, <1>7, Places
<1>11. /\ \A k \in DOMAIN turns' : Running(turns'[k]) => k = Len(turns')
       /\ ~TimelyLive'
  BY <1>2, <1>6, <1>10 DEF LiveTurn, TimelyLive, IsLive, LiveAt
<1>12. (link = "down" => u = << >> /\ ~subscribed') /\ (~alive' => ~subscribed')
  BY <1>2, <1>8 DEF StartInvariant, LostIsSilent
<1>14. SharedServer BY <1>1 DEF SharedInv
<1> QED BY <1>14, <1>2, <1>7, <1>8, <1>9, <1>11, <1>12, TalkStarts

LEMMA ServeStraySteerStarts ==
  ASSUME TypeInv, TypeInv', StartInvariant, SharedInv, ServeStraySteer
  PROVE  StartInvariant' /\ SharedInv'
<1>1. PICK r \in strays :
        /\ LiveAt(turns, r.turn)
        /\ turns' = [turns EXCEPT ![r.turn].msgs = @ \cup {r.msg}]
        /\ wire' = wire \o Notify(<<TurnLine("item", r.turn, [turns[r.turn] EXCEPT !.msgs = {r.msg}])>>)
  BY DEF ServeStraySteer
<1>2. UNCHANGED <<alive, subscribed, req, link, op, uTurn, reg>> BY DEF ServeStraySteer, session
<1> DEFINE rec == [turns[r.turn] EXCEPT !.msgs = {r.msg}]
           l == TurnLine("item", r.turn, rec)
           u == Notify(<<l>>)
<1>3. rec \in Turn /\ r.turn \in MaybeNumber
  <2>1. r.msg \in Msgs /\ r.turn \in MaybeNumber BY DEF TypeInv, TypeOK, TransportTypeOK
  <2> QED BY <1>1, <2>1, Places DEF Turn, LiveAt
<1>4. l \in Lines /\ l.kind = "item"
  <2> HIDE DEF rec
  <2> QED BY <1>3, LineTypes DEF TurnLine, Line
<1>5. wire' = wire \o u BY <1>1
<1> HIDE DEF l
<1>6. u \in Seq(Lines) /\ OnWire(u) \subseteq {l} /\ (~subscribed => u = << >>) BY <1>4, Spoken DEF Notify
<1>7. \A k \in OnWire(u) : ~IsNews(k) /\ ~Clears(k) /\ k.kind # "reply" BY <1>4, <1>6 DEF IsNews, Clears
<1> HIDE DEF u
<1>8. /\ Len(turns') = Len(turns) /\ DOMAIN turns' = DOMAIN turns
      /\ \A t \in DOMAIN turns' : turns'[t].status = turns[t].status /\ turns'[t].late = turns[t].late
  BY <1>1, Places DEF Turn, LiveAt
<1>9. /\ \A t \in DOMAIN turns' : Running(turns'[t]) => t = Len(turns')
      /\ TimelyLive' => TimelyLive
  BY <1>8 DEF Running, TimelyLive, IsLive, LiveAt, StartInvariant, OneAtATime
<1>10. (link = "down" => u = << >> /\ ~subscribed') /\ (~alive' => ~subscribed')
  BY <1>2, <1>6 DEF StartInvariant, LostIsSilent
<1>14. SharedServer BY <1>1 DEF SharedInv
<1> QED BY <1>14, <1>2, <1>5, <1>6, <1>7, <1>8, <1>9, <1>10, TalkStarts

LEMMA EndTurnStarts ==
  ASSUME TypeInv, TypeInv', StartInvariant, SharedInv, EndTurn
  PROVE  StartInvariant' /\ SharedInv'
<1>1. PICK t \in DOMAIN turns :
        /\ Running(turns[t])
        /\ turns' = [turns EXCEPT ![t].status = "ended"]
        /\ wire' \in {wire \o Notify(<<TurnLine("completed", t, turns'[t]), Line("idle")>>),
                      wire \o Notify(<<Line("idle"), TurnLine("completed", t, turns'[t])>>)}
  BY DEF EndTurn
<1>2. UNCHANGED <<alive, subscribed, req, link, strays, op, uTurn, reg>> BY DEF EndTurn, session
<1>3. /\ Len(turns') = Len(turns) /\ DOMAIN turns' = DOMAIN turns
      /\ \A s \in DOMAIN turns' : s # t => turns'[s] = turns[s]
      /\ ~Running(turns'[t])
  BY <1>1, Places DEF Turn, Running
<1>5. \A s \in DOMAIN turns' : ~Running(turns'[s]) BY <1>1, <1>3 DEF StartInvariant, OneAtATime
<1>4. ~TimelyLive' BY <1>5 DEF TimelyLive, IsLive, LiveAt
<1> DEFINE completed == TurnLine("completed", t, turns'[t])
<1>6. completed \in Lines /\ completed.kind = "completed"
  <2>1. t \in MaybeNumber BY <1>1, Places, ConstantsAssumption DEF MaybeNumber, TypeInv, TypeOK, ServerTypeOK
  <2>2. turns'[t] \in Turn BY <1>3, Places DEF TypeInv, TypeOK, ServerTypeOK
  <2> QED BY <2>1, <2>2, LineTypes DEF TurnLine, Line
<1>7. Line("idle") \in Lines /\ Line("idle").kind = "idle" BY LineTypes DEF Line
<1>8. PICK u \in {Notify(<<completed, Line("idle")>>), Notify(<<Line("idle"), completed>>)} : wire' = wire \o u
  BY <1>1
<1> HIDE DEF completed
<1>9. u \in Seq(Lines) /\ OnWire(u) \subseteq {completed, Line("idle")}
  <2>1. <<completed, Line("idle")>> \in Seq(Lines) /\ <<Line("idle"), completed>> \in Seq(Lines) /\ << >> \in Seq(Lines)
    BY <1>6, <1>7
  <2>2. /\ OnWire(<<completed, Line("idle")>>) = {completed, Line("idle")}
        /\ OnWire(<<Line("idle"), completed>>) = {completed, Line("idle")}
        /\ OnWire(<< >>) = {}
    BY TwoOnWire DEF OnWire
  <2> QED BY <1>8, <2>1, <2>2 DEF Notify
<1>10. (link = "down" => ~subscribed) /\ (~alive' => ~subscribed') BY <1>2 DEF StartInvariant, LostIsSilent
<1>11. link = "down" => u = << >> /\ ~subscribed' BY <1>2, <1>8, <1>10 DEF Notify
<1>12. \A l \in OnWire(u) :
              /\ ~IsNews(l) /\ (l.kind = "started" => SharedServer)
              /\ TimelyLive' => ~Clears(l)
              /\ op.phase = "read" /\ l.kind = "reply" /\ TimelyLive' => LiveAt(l.view, Len(turns'))
  BY <1>4, <1>6, <1>7, <1>9 DEF IsNews
<1> QED BY <1>2, <1>3, <1>4, <1>5, <1>8, <1>9, <1>10, <1>11, <1>12, TalkStarts

----
(* A Turn starts. *)

TellsNothing(w) == \A i \in DOMAIN w : ~IsNews(w[i])
TellsOnce(w) == \A i, j \in DOMAIN w : IsNews(w[i]) /\ IsNews(w[j]) => i = j

LEMMA ToldTogether ==
  ASSUME NEW v \in Seq(Lines), NEW w \in Seq(Lines)
  PROVE  /\ v \o w \in Seq(Lines) /\ OnWire(v \o w) \subseteq OnWire(v) \cup OnWire(w)
         /\ TellsNothing(v) /\ TellsNothing(w) => TellsNothing(v \o w)
         /\ TellsOnce(v) /\ TellsNothing(w) => TellsOnce(v \o w)
         /\ TellsNothing(v) /\ TellsOnce(w) => TellsOnce(v \o w)
<1> DEFINE u == v \o w
<1>1. /\ u \in Seq(Lines) /\ Len(v) \in Nat /\ DOMAIN u \subseteq Nat
      /\ \A i \in DOMAIN u : /\ i <= Len(v) => i \in DOMAIN v /\ u[i] = v[i]
                             /\ i > Len(v) => i - Len(v) \in DOMAIN w /\ u[i] = w[i - Len(v)]
  OBVIOUS
<1>2. OnWire(u) \subseteq OnWire(v) \cup OnWire(w) BY SpokenTogether
<1> HIDE DEF u
<1>3. ASSUME TellsNothing(v), TellsNothing(w) PROVE TellsNothing(u) BY <1>1, <1>3 DEF TellsNothing
<1>4. ASSUME TellsOnce(v), TellsNothing(w) PROVE TellsOnce(u)
  <2>1. \A i \in DOMAIN u : IsNews(u[i]) => i \in DOMAIN v /\ u[i] = v[i] BY <1>1, <1>4 DEF TellsNothing
  <2> QED BY <2>1, <1>4 DEF TellsOnce
<1>5. ASSUME TellsNothing(v), TellsOnce(w) PROVE TellsOnce(u)
  <2>1. \A i \in DOMAIN u : IsNews(u[i]) => i \in Nat /\ i - Len(v) \in DOMAIN w /\ u[i] = w[i - Len(v)]
    BY <1>1, <1>5 DEF TellsNothing
  <2>2. ASSUME NEW i \in DOMAIN u, NEW j \in DOMAIN u, IsNews(u[i]), IsNews(u[j]) PROVE i = j
    <3>1. i - Len(v) = j - Len(v) BY <2>1, <2>2, <1>5 DEF TellsOnce
    <3> QED BY <1>1, <2>1, <2>2, <3>1
  <2> QED BY <2>2 DEF TellsOnce
<1> QED BY <1>1, <1>2, <1>3, <1>4, <1>5 DEF u

LEMMA CutOnce ==
  ASSUME NEW s \in Seq(Lines), TellsOnce(s), NEW i \in 0 .. Len(s)
  PROVE  /\ SubSeq(s, 1, i) \in Seq(Lines) /\ SubSeq(s, i + 1, Len(s)) \in Seq(Lines)
         /\ OnWire(SubSeq(s, 1, i)) \subseteq OnWire(s) /\ OnWire(SubSeq(s, i + 1, Len(s))) \subseteq OnWire(s)
         /\ TellsOnce(SubSeq(s, 1, i)) /\ TellsOnce(SubSeq(s, i + 1, Len(s)))
         /\ TellsNothing(SubSeq(s, 1, i)) \/ TellsNothing(SubSeq(s, i + 1, Len(s)))
         /\ s = << >> => SubSeq(s, 1, i) = << >> /\ SubSeq(s, i + 1, Len(s)) = << >>
<1> DEFINE v == SubSeq(s, 1, i)
           w == SubSeq(s, i + 1, Len(s))
<1>1. Len(s) \in Nat /\ DOMAIN s = 1 .. Len(s) /\ i \in Nat OBVIOUS
<1>2. /\ v \in Seq(Lines) /\ w \in Seq(Lines) /\ DOMAIN v = 1 .. i
      /\ \A k \in DOMAIN v : k \in DOMAIN s /\ k \in Nat /\ k <= i /\ v[k] = s[k]
      /\ \A k \in DOMAIN w : k \in Nat /\ k >= 1 /\ k + i \in DOMAIN s /\ w[k] = s[k + i]
  OBVIOUS
<1>7. s = << >> => v = << >> /\ w = << >> OBVIOUS
<1> HIDE DEF v, w
<1>3. OnWire(v) \subseteq OnWire(s) /\ OnWire(w) \subseteq OnWire(s) BY <1>2 DEF OnWire
<1>4. TellsOnce(v) BY <1>2 DEF TellsOnce
<1>5. TellsOnce(w)
  <2> SUFFICES ASSUME NEW j \in DOMAIN w, NEW k \in DOMAIN w, IsNews(w[j]), IsNews(w[k]) PROVE j = k
    BY DEF TellsOnce
  <2>1. j + i = k + i BY <1>2 DEF TellsOnce
  <2> QED BY <1>1, <1>2, <2>1
<1>6. TellsNothing(v) \/ TellsNothing(w)
  <2> SUFFICES ASSUME NEW j \in DOMAIN v, NEW k \in DOMAIN w, IsNews(v[j]), IsNews(w[k]) PROVE FALSE
    BY DEF TellsNothing
  <2>1. j = k + i BY <1>2 DEF TellsOnce
  <2> QED BY <1>1, <1>2, <2>1
<1> QED BY <1>2, <1>3, <1>4, <1>5, <1>6, <1>7 DEF v, w

\* A response among the lines that tell of a start.
LEMMA AnswerAmongNews ==
  ASSUME TypeInv, NEW news \in Seq(Lines), TellsOnce(news),
         NEW answer \in Seq(Lines), \A l \in OnWire(answer) : l.kind = "reply",
         NEW i \in 0 .. Len(news),
         wire' = wire \o SubSeq(news, 1, i) \o answer \o SubSeq(news, i + 1, Len(news))
  PROVE  \E u \in Seq(Lines) :
            /\ wire' = wire \o u /\ TellsOnce(u) /\ OnWire(u) \subseteq OnWire(news) \cup OnWire(answer)
            /\ news = << >> /\ answer = << >> => u = << >>
<1> DEFINE v == SubSeq(news, 1, i)
           w == SubSeq(news, i + 1, Len(news))
<1>1. TellsNothing(answer) BY DEF TellsNothing, OnWire, IsNews
<1>2. /\ v \in Seq(Lines) /\ OnWire(v) \subseteq OnWire(news) /\ TellsOnce(v)
      /\ w \in Seq(Lines) /\ OnWire(w) \subseteq OnWire(news) /\ TellsOnce(w)
      /\ TellsNothing(v) \/ TellsNothing(w)
      /\ news = << >> => v = << >> /\ w = << >>
  BY CutOnce
<1>3. wire' = ((wire \o v) \o answer) \o w OBVIOUS
<1> HIDE DEF v, w
<1>4. wire \in Seq(Lines) BY Places
<1> DEFINE x == v \o answer
<1>5. /\ x \in Seq(Lines) /\ OnWire(x) \subseteq OnWire(v) \cup OnWire(answer)
      /\ TellsOnce(x) /\ (TellsNothing(v) => TellsNothing(x))
  BY <1>1, <1>2, ToldTogether
<1>6. v = << >> /\ answer = << >> => x = << >> BY <1>2, SpokenTogether
<1>7. (wire \o v) \o answer = wire \o x BY <1>2, <1>4, ConcatAssociative
<1> HIDE DEF x
<1> DEFINE u == x \o w
<1>8. u \in Seq(Lines) /\ OnWire(u) \subseteq OnWire(x) \cup OnWire(w) /\ TellsOnce(u)
  BY <1>2, <1>5, ToldTogether
<1>9. x = << >> /\ w = << >> => u = << >> BY <1>2, <1>5, SpokenTogether
<1>10. (wire \o x) \o w = wire \o u
  <2>1. x \in Seq(Lines) /\ w \in Seq(Lines) BY <1>2, <1>5
  <2> QED BY <1>4, <2>1, ConcatAssociative
<1> HIDE DEF u
<1>11. wire' = wire \o u BY <1>3, <1>7, <1>10, Zenon
<1>12. OnWire(u) \subseteq OnWire(news) \cup OnWire(answer) BY <1>2, <1>5, <1>8
<1>13. news = << >> /\ answer = << >> => u = << >> BY <1>2, <1>6, <1>9
<1> QED BY <1>8, <1>11, <1>12, <1>13

\* While a start is asked nothing runs; what the App Server then tells of its Turn
\* comes after everything else.
LEMMA TurnStarts ==
  ASSUME TypeInv, TypeInv', StartInvariant, SharedInv, req.kind = "start", req' = NoReq,
         UNCHANGED <<alive, subscribed, link, strays, op, uTurn, reg>>,
         ~LiveTurn, NEW fresh \in Turn, turns' = Append(turns, fresh),
         NEW u \in Seq(Lines), wire' = wire \o u, TellsOnce(u),
         \A l \in OnWire(u) : /\ ~Clears(l) /\ (l.kind = "reply" => l.ok /\ ~req.orphan)
                              /\ l.kind = "started" => ~l.rec.late,
         req.orphan /\ ~subscribed => u = << >>
  PROVE  StartInvariant' /\ SharedInv'
<1>1. /\ Len(wire) \in Nat /\ Len(wire') \in Nat /\ Len(wire) <= Len(wire')
      /\ DOMAIN wire = 1 .. Len(wire) /\ DOMAIN wire' = 1 .. Len(wire')
      /\ \A k \in DOMAIN wire : k \in DOMAIN wire' /\ wire'[k] = wire[k]
      /\ \A k \in DOMAIN wire' : k \in DOMAIN wire \/ (k > Len(wire) /\ wire'[k] \in OnWire(u))
      /\ \A k \in DOMAIN wire' : k > Len(wire) => /\ wire'[k] = u[k - Len(wire)]
                                                  /\ k - Len(wire) \in DOMAIN u
  BY MoreLines
<1>2. ~TimelyLive /\ NoNews BY DEF StartInvariant, NothingRuns
<1>3. \A k \in DOMAIN wire' : IsNews(wire'[k]) => k > Len(wire) BY <1>1, <1>2 DEF NoNews
<1>4. \A k \in DOMAIN wire' : k > Len(wire) => /\ ~Clears(wire'[k])
                                               /\ wire'[k].kind = "reply" => wire'[k].ok /\ ~req.orphan
  BY <1>1
<1>5. ~req.orphan => Starting /\ op.reply = NoReply /\ NoReplies(wire) /\ link = "up" BY AskedMeans
<1>6. req.orphan => /\ link # "up" /\ uTurn.msg # NoMsg /\ op.kind # "start" /\ op.phase # "settle"
                    /\ op.reply # NoReply => ~op.reply.ok
  BY DEF StartInvariant, OrphansAreUncertain, NothingRuns
<1>7. OneAtATime'
  <2>1. /\ Len(turns') = Len(turns) + 1 /\ Len(turns) \in Nat /\ DOMAIN turns' = 1 .. Len(turns) + 1
        /\ \A t \in 1 .. Len(turns) : t \in DOMAIN turns /\ turns'[t] = turns[t]
    BY Places
  <2>2. \A t \in DOMAIN turns' : Running(turns'[t]) => t = Len(turns') BY <2>1 DEF LiveTurn
  <2>3. ASSUME NEW i \in DOMAIN wire', NEW j \in DOMAIN wire', IsNews(wire'[i]), IsNews(wire'[j]) PROVE i = j
    <3>1. /\ i > Len(wire) /\ i - Len(wire) \in DOMAIN u /\ IsNews(u[i - Len(wire)])
          /\ j > Len(wire) /\ j - Len(wire) \in DOMAIN u /\ IsNews(u[j - Len(wire)])
      BY <1>1, <1>3, <2>3
    <3>2. i - Len(wire) = j - Len(wire) BY <3>1 DEF TellsOnce
    <3> QED BY <1>1, <3>2
  <2>4. ASSUME NEW i \in DOMAIN wire', NEW k \in DOMAIN wire', IsNews(wire'[i]), i < k PROVE ~Clears(wire'[k])
    BY <1>1, <1>3, <1>4, <2>4
  <2> QED BY <2>2, <2>3, <2>4 DEF OneAtATime
<1>8. StartsAreGuarded'
  <2> SUFFICES ASSUME NEW e \in 1 .. Len(wire') + 1, Unseen(e)'
               PROVE  (GuardedByRuntime(e) \/ GuardedAsUncertain(e) \/ GuardedByResponse(e))'
    BY DEF StartsAreGuarded
  <2>1. e - 1 <= Len(wire') /\ e \in Nat /\ \A k \in 1 .. e - 1 : k \in DOMAIN wire' /\ k \in Nat BY <1>1
  <2>2. CASE req.orphan
    <3>1. ASSUME link # "closing" PROVE Unclearing(1, e - 1)'
      <4>1. link = "down" BY <1>6, <2>2, <3>1, TypedParts DEF TypeInv, TypeOK, TransportTypeOK
      <4>2. wire = << >> BY <4>1 DEF StartInvariant, LostIsSilent
      <4>3. \A k \in 1 .. e - 1 : k \in DOMAIN wire' /\ k > Len(wire) BY <2>1, <4>2
      <4> QED BY <1>4, <4>3 DEF Unclearing
    <3>2. GuardedAsUncertain(e)' BY <1>6, <2>2, <3>1 DEF GuardedAsUncertain
    <3> QED BY <3>2
  <2>3. CASE ~req.orphan
    <3>1. Starting' /\ op'.reply = NoReply BY <1>5, <2>3 DEF Starting
    <3>2. ASSUME NEW r \in 1 .. e - 1, wire'[r].kind = "reply"
          PROVE  wire'[r].ok /\ Unclearing(r + 1, e - 1)'
      <4>1. r \in DOMAIN wire' /\ r > Len(wire) /\ r \in Nat BY <1>1, <1>5, <2>1, <2>3, <3>2 DEF NoReplies
      <4>2. \A k \in r + 1 .. e - 1 : k \in DOMAIN wire' /\ k > Len(wire) BY <1>1, <2>1, <4>1
      <4> QED BY <1>4, <3>2, <4>1, <4>2 DEF Unclearing
    <3>3. GuardedByResponse(e)' BY <3>1, <3>2 DEF GuardedByResponse
    <3> QED BY <3>3
  <2> QED BY <2>2, <2>3
<1>9. NothingRuns'
  <2>1. ~(op'.kind = "start" /\ op'.phase # "mutate") /\ req'.kind # "start" BY <1>5, <1>6 DEF Starting, NoReq
  <2> QED BY <2>1 DEF NothingRuns, StartInvariant
<1>10. ReadsAreFresh'
  <2>1. CASE ~req.orphan BY <1>5, <2>1 DEF ReadsAreFresh, Starting
  <2>2. CASE req.orphan
    <3>1. op.phase = "read" => op.reply # NoReply /\ ~op.reply.ok BY <1>6, <2>2 DEF StartInvariant, LostIsSilent
    <3>2. op.phase = "read" => NoReplies(wire) BY <3>1 DEF TypeInv, AnswerAwaited, NoReplies
    <3>3. op.phase = "read" => \A r \in DOMAIN wire' : wire'[r].kind # "reply" BY <1>1, <2>2, <3>2 DEF NoReplies
    <3> QED BY <1>6, <2>2, <3>1, <3>3 DEF ReadsAreFresh
  <2> QED BY <2>1, <2>2
<1>11. OrphansAreUncertain' BY DEF OrphansAreUncertain, NoReq
<1>12. LostIsSilent'
  <2>1. link = "down" => wire' = << >>
    <3> SUFFICES ASSUME link = "down" PROVE wire' = << >> OBVIOUS
    <3>1. wire = << >> /\ ~subscribed /\ req.orphan BY <1>5 DEF StartInvariant, LostIsSilent
    <3> QED BY <3>1
  <2> QED BY <2>1 DEF StartInvariant, LostIsSilent
<1>13. SharedInv'
  <2>1. ASSUME ~SharedServer, NEW k \in DOMAIN wire', wire'[k].kind = "started" PROVE ~wire'[k].rec.late
    BY <1>1, <2>1 DEF SharedInv
  <2> QED BY <2>1 DEF SharedInv
<1> QED BY <1>7, <1>8, <1>9, <1>10, <1>11, <1>12, <1>13 DEF StartInvariant

LEMMA ServeStartStarts ==
  ASSUME TypeInv, TypeInv', StartInvariant, SharedInv, ServeStart
  PROVE  StartInvariant' /\ SharedInv'
<1> DEFINE t == Len(turns) + 1
           fresh == [status |-> "inProgress", msgs |-> {req.msg}, late |-> FALSE]
           active == Line("active")
           started == TurnLine("started", t, fresh)
           news == Notify(<<active, started>>)
           line == [Reply(TRUE, t, NoTurns) EXCEPT !.rec = [fresh EXCEPT !.msgs = {}]]
           answer == Respond(line)
<1>1. /\ req.kind = "start" /\ req' = NoReq
      /\ UNCHANGED <<alive, subscribed, link, strays, op, uTurn, reg>>
  BY DEF ServeStart, session
<1>2. req.msg \in Msgs BY <1>1 DEF TypeInv, MessagesInFlight
<1>3. CASE ~(subscribed \/ req.orphan) /\ wire' = wire \o Respond(Refused) /\ UNCHANGED turns
  BY <1>1, <1>3, RefusalStarts
<1>4. CASE /\ ~LiveTurn /\ t <= MaxTurns
           /\ turns' = Append(turns, fresh)
           /\ \E i \in 0 .. Len(news) :
                wire' = wire \o SubSeq(news, 1, i) \o answer \o SubSeq(news, i + 1, Len(news))
  <2>1. t \in MaybeNumber BY <1>4, Places, Constants, ConstantsAssumption DEF Numbers
  <2>2. fresh \in Turn /\ [fresh EXCEPT !.msgs = {}] \in Turn /\ ~fresh.late BY <1>2 DEF Turn
  <2> HIDE DEF t, fresh
  <2>3. active \in Lines /\ active.kind = "active" BY LineTypes DEF Line
  <2>4. started \in Lines /\ started.kind = "started" /\ started.rec = fresh
    BY <2>1, <2>2, LineTypes DEF Line, TurnLine
  <2>5. line \in Lines /\ line.kind = "reply" /\ line.ok
    <3>1. Reply(TRUE, t, NoTurns) \in Lines BY <2>1, NoTurnsType, ReplyTypes
    <3>2. Reply(TRUE, t, NoTurns).kind = "reply" /\ Reply(TRUE, t, NoTurns).ok BY DEF Reply, Line
    <3> QED BY <2>2, <3>1, <3>2 DEF Lines
  <2> HIDE DEF active, started, line
  <2>6. /\ answer \in Seq(Lines) /\ OnWire(answer) \subseteq {line}
        /\ req.orphan => answer = << >>
    BY <2>5, Spoken DEF Respond
  <2>7. /\ news \in Seq(Lines) /\ OnWire(news) \subseteq {active, started} /\ TellsOnce(news)
        /\ ~subscribed => news = << >>
    <3>1. /\ <<active, started>> \in Seq(Lines) /\ OnWire(<<active, started>>) = {active, started}
          /\ DOMAIN <<active, started>> = {1, 2} /\ <<active, started>>[1] = active /\ << >> \in Seq(Lines)
      BY <2>3, <2>4, TwoOnWire
    <3>2. TellsOnce(<<active, started>>) /\ TellsOnce(<< >>) /\ OnWire(<< >>) = {}
      BY <2>3, <3>1 DEF TellsOnce, IsNews, OnWire
    <3> QED BY <3>1, <3>2 DEF Notify
  <2> HIDE DEF news, answer
  <2>8. PICK i \in 0 .. Len(news) :
                wire' = wire \o SubSeq(news, 1, i) \o answer \o SubSeq(news, i + 1, Len(news))
    BY <1>4
  <2>9. \A l \in OnWire(answer) : l.kind = "reply" BY <2>5, <2>6
  <2>10. PICK u \in Seq(Lines) :
              /\ wire' = wire \o u /\ TellsOnce(u) /\ OnWire(u) \subseteq OnWire(news) \cup OnWire(answer)
              /\ news = << >> /\ answer = << >> => u = << >>
    BY <2>6, <2>7, <2>8, <2>9, AnswerAmongNews
  <2>11. OnWire(<< >>) = {} BY DEF OnWire
  <2>12. \A l \in OnWire(u) : l \in {active, started} \/ (l = line /\ ~req.orphan) BY <2>6, <2>7, <2>10, <2>11
  <2>13. \A l \in OnWire(u) : /\ ~Clears(l) /\ (l.kind = "reply" => l.ok /\ ~req.orphan)
                              /\ l.kind = "started" => ~l.rec.late
    BY <2>2, <2>3, <2>4, <2>5, <2>12 DEF Clears
  <2>14. req.orphan /\ ~subscribed => u = << >> BY <2>6, <2>7, <2>10
  <2> QED BY <1>1, <1>4, <2>2, <2>10, <2>13, <2>14, TurnStarts
<1> QED BY <1>3, <1>4 DEF ServeStart

LEMMA InitStarts == Init => StartInvariant
<1> SUFFICES ASSUME Init PROVE StartInvariant OBVIOUS
<1>1. /\ op = NoOp /\ req = NoReq /\ wire = << >> /\ link = "up" /\ alive = TRUE /\ subscribed = FALSE
      /\ uTurn = NoUncertainTurn
      /\ turns \in {<< >>, <<EndedTurn>>}
  BY DEF Init, EndedTurn
<1>2. \A t \in DOMAIN turns : ~Running(turns[t]) BY <1>1 DEF Running, EndedTurn
<1>3. ~TimelyLive /\ NoNews /\ DOMAIN wire = {} /\ Len(wire) = 0 BY <1>1, <1>2 DEF TimelyLive, IsLive, LiveAt, NoNews
<1>4. NoReq.kind = "none" /\ ~NoReq.orphan BY DEF NoReq
<1>5. StartsAreGuarded BY <1>3 DEF StartsAreGuarded, Unseen
<1>6. OneAtATime /\ NothingRuns BY <1>1, <1>2, <1>3, <1>4, NoOpMeans DEF OneAtATime, NothingRuns
<1>7. ReadsAreFresh /\ OrphansAreUncertain /\ LostIsSilent
  BY <1>1, <1>4, NoOpMeans DEF ReadsAreFresh, OrphansAreUncertain, LostIsSilent
<1> QED BY <1>5, <1>6, <1>7 DEF StartInvariant

LEMMA NextStarts ==
  ASSUME TypeInv, TypeInv', MessageInvariant, StartInvariant, SharedInv, Next
  PROVE  StartInvariant'
<1>1. CASE Submit BY <1>1, QuietStarts DEF Submit
<1>2. CASE Begin BY <1>2, BeginStartStarts, BeginSteerStarts, BeginReadStarts, BeginResolveStarts DEF Begin
<1>3. CASE Continue
  BY <1>3, BeginReadStarts, ResumedStarts, ReadDoneStarts, DelayOverStarts, ResolveReadStarts,
    ResolveNotAppliedStarts, SendStarts, RespondedStarts DEF Continue
<1>4. CASE Handle BY <1>4, HandleReplyStarts, HandleOthersStarts, HandleTurnStartedStarts DEF Handle
<1>5. CASE FinishTimer BY <1>5, QuietStarts
<1>6. CASE Lose BY <1>6, MutationTimeoutStarts, SocketLostStarts, ReadTimeoutStarts, CrashStarts DEF Lose
<1>7. CASE Recover BY <1>7, TransportClosedStarts, ReconnectStarts, QuietStarts DEF Recover
<1>8. CASE Serve BY <1>8, ServeStartStarts, ServeSteerStarts, ServeResumeStarts, ServeReadStarts DEF Serve
<1>9. CASE EndTurn BY <1>9, EndTurnStarts
<1>10. CASE ServeStray BY <1>10, ServeStrayStartStarts, ServeStraySteerStarts DEF ServeStray
<1> QED BY <1>1, <1>2, <1>3, <1>4, <1>5, <1>6, <1>7, <1>8, <1>9, <1>10 DEF Next

\* The last line of a child's connection goes before the process is noticed.
LEMMA InitShares == Init => SharedInv
BY DEF Init, SharedInv

LEMMA LinesStay ==
  ASSUME SharedInv, UNCHANGED <<strays, link, alive, wire>>
  PROVE  SharedInv'
BY DEF SharedInv

LEMMA NextShares ==
  ASSUME TypeInv, TypeInv', StartInvariant, SharedInv, Next
  PROVE  SharedInv'
<1>1. CASE Submit
  BY <1>1, LinesStay DEF Submit, AcceptStart, AcceptScheduled, AcceptSteer, Accept, AcceptResolve, server, transport
<1>2. CASE Begin
  BY <1>2, LinesStay DEF Begin, BeginStart, BeginScheduled, BeginSteer, BeginRead, BeginResolve, server, transport
<1>3. CASE Continue
  BY <1>3, LinesStay DEF Continue, BeginReconcile, Resumed, ReadDone, DelayOver, ResolveRead, ResolveNotApplied,
    Send, Responded, server, transport
<1>4. CASE Handle \/ FinishTimer
  <2>1. CASE FinishTimer BY <2>1, LinesStay DEF FinishTimer, server, transport
  <2>2. CASE Handle
    <3>1. PICK kind : Receive(kind) BY <2>2
      DEF Handle, HandleReply, HandleLate, HandleStatus, HandleTurnStarted, HandleTurnCompleted, HandleItem
    <3>2. \A i \in DOMAIN wire' : wire'[i] = wire[i + 1] /\ i + 1 \in DOMAIN wire BY <3>1, OneLineLess
    <3>3. UNCHANGED <<strays, link, alive>> BY <2>2
      DEF Handle, HandleReply, HandleLate, HandleStatus, HandleTurnStarted, HandleTurnCompleted, HandleItem, server
    <3> QED BY <3>2, <3>3 DEF SharedInv
  <2> QED BY <1>4, <2>1, <2>2
<1>5. CASE Lose
  <2>1. CASE MutationTimeout \/ ReadTimeout
    <3>1. /\ UNCHANGED <<strays, alive>> /\ wire' \in {<< >>, Late(wire)}
          /\ link' \in {link, IF SharedServer THEN "down" ELSE "closing"}
      BY <2>1 DEF MutationTimeout, ReadTimeout, Disconnect
    <3>2. Line("late").kind = "late" BY DEF Line
    <3>3. \A i \in DOMAIN wire' : wire'[i].kind = "started" => i \in DOMAIN wire /\ wire'[i] = wire[i]
      BY <3>1, <3>2 DEF Late
    <3> QED BY <3>1, <3>3 DEF SharedInv
  <2>2. CASE SocketLost BY <2>2 DEF SocketLost, Disconnect, SharedInv
  <2>3. CASE Crash
    <3>1. PICK n \in 0 .. Len(wire) : wire' = SubSeq(wire, 1, n) BY <2>3 DEF Crash
    <3>2. \A i \in DOMAIN wire' : wire'[i] = wire[i] /\ i \in DOMAIN wire BY <3>1, Places
    <3> QED BY <2>3, <3>2 DEF Crash, SharedInv
  <2> QED BY <1>5, <2>1, <2>2, <2>3 DEF Lose
<1>6. CASE Recover
  <2>1. CASE TransportClosed BY <2>1 DEF TransportClosed, Disconnect, SharedInv
  <2>2. CASE Reconnect BY <2>2 DEF Reconnect, SharedInv
  <2>3. CASE ListDisconnected BY <2>3, LinesStay DEF ListDisconnected, server, transport
  <2> QED BY <1>6, <2>1, <2>2, <2>3 DEF Recover
<1>8. CASE SharedServer /\ (Serve \/ ServeStray \/ EndTurn)
  BY <1>8 DEF SharedInv, Serve, ServeStart, ServeSteer, ServeResume, ServeRead, ServeStray, ServeStrayStart,
    ServeStraySteer, EndTurn
<1>9. CASE ~SharedServer /\ (Serve \/ ServeStray \/ EndTurn)
  BY <1>9, ServeStartStarts, ServeSteerStarts, ServeResumeStarts, ServeReadStarts, EndTurnStarts DEF Serve,
    ServeStray, ServeStrayStart, ServeStraySteer, SharedInv
<1> QED BY <1>1, <1>2, <1>3, <1>4, <1>5, <1>6, <1>8, <1>9 DEF Next

LEMMA StutterShares == ASSUME SharedInv, UNCHANGED vars PROVE SharedInv'
BY LinesStay DEF vars, server, transport

LEMMA StutterStarts == ASSUME StartInvariant, UNCHANGED vars PROVE StartInvariant'
BY StandStill DEF vars, server, transport, session

\* Whatever is lost, late or out of order, a Turn in progress and the news of a
\* start that waits in the wire keep assertNoActiveTurn from letting a prompt
\* through: by the runtime's state, by the start that is uncertain, or because the
\* start's own response is handled first.  The invariant of startTurn.
THEOREM StartsInductive == Spec => [](TypeInv /\ MessageInvariant /\ StartInvariant /\ SharedInv)
<1>1. Init => TypeInv /\ MessageInvariant /\ StartInvariant /\ SharedInv
  BY InitTypeInv, InitTells, InitStarts, InitShares
<1>2. ASSUME TypeInv, MessageInvariant, StartInvariant, SharedInv, [Next]_vars
      PROVE  (TypeInv /\ MessageInvariant /\ StartInvariant /\ SharedInv)'
  <2>1. TypeInv' BY <1>2, NextKeeps, StutterKeeps
  <2>2. MessageInvariant' BY <1>2, <2>1, NextTells, StutterTells
  <2>3. StartInvariant' BY <1>2, <2>1, NextStarts, StutterStarts
  <2>4. SharedInv' BY <1>2, <2>1, NextShares, StutterShares
  <2> QED BY <2>1, <2>2, <2>3, <2>4
<1>3. TypeInv /\ MessageInvariant /\ StartInvariant /\ SharedInv /\ [Next]_vars
      => (TypeInv /\ MessageInvariant /\ StartInvariant /\ SharedInv)'
  BY <1>2
<1> QED BY <1>1, <1>3, PTL DEF Spec

\* startTurn asks for a Turn only while none is in progress: the thread's lock,
\* assertNoActiveTurn and the disconnected state leave no gap, for any number of
\* prompts, Turns, losses and timeouts, and however late a shared App Server serves
\* the requests of replaced connections; a Turn of these does not count itself.
THEOREM OneStart == Spec => []NoConcurrentStart
<1>1. StartInvariant => NoConcurrentStart
  BY DEF StartInvariant, NothingRuns, NoConcurrentStart, TimelyLive, IsLive, LiveAt
<1> QED BY <1>1, StartsInductive, PTL

====
