---- MODULE PromptSchedulerProofs ----
(*
For every number of Turns, saves, stops and losses: a claim sends once,
a confirmed schedule sends no more, and no late job undoes a pause.
*)
EXTENDS PromptScheduler, TLAPS

----
\* A started Turn is recorded in a sequence of Turns.
LEMMA TurnsTyped == ASSUME TypeOK PROVE /\ Len(turns) \in Nat
                                        /\ \A t \in TurnIds : t \in Nat \ {0} /\ turns[t] \in Turn
<1> QED BY DEF TypeOK, TurnIds

\* Pausing keeps the identity of a schedule.
LEMMA PausedRow == ASSUME TypeOK, NEW r \in {row, Paused(row), NoRow}
                   PROVE  /\ r \in Schedule
                          /\ r = NoRow \/ (r.id = row.id /\ r.autoStop = row.autoStop /\ (r.enabled => r = row))
                          /\ r.next = "due" => r = row
                          /\ NoRow.id = 0 /\ NoRow.enabled = FALSE
<1>1. NoRow \in Schedule /\ NoRow.id = 0 /\ NoRow.enabled = FALSE /\ NoRow.next = "never" BY DEF NoRow, Schedule
<1>2. row \in Schedule BY DEF TypeOK
<1>3. /\ Paused(row) \in Schedule
      /\ Paused(row).id = row.id /\ Paused(row).autoStop = row.autoStop
      /\ Paused(row).enabled = FALSE /\ Paused(row).next = "never"
  BY <1>2 DEF Paused, Schedule
<1> QED BY <1>1, <1>2, <1>3

\* A step that starts nothing and completes nothing: jobs end, the schedule may be
\* paused or removed, and the Turn of a job that ends without an answer is lost.
LEMMA ShrinkingStep ==
  ASSUME ScheduleInvariant, UNCHANGED <<turns, saves, sent>>,
         row' \in {row, Paused(row), NoRow},
         jobs' \subseteq jobs, news' \subseteq news,
         lost \subseteq lost', lost' \subseteq TurnIds,
         web' \in {"up", "stopping", "down"}, connected' \in BOOLEAN,
         stops' \in Nat, losses' \in Nat,
         \A j \in jobs : j.phase = "started" => j \in jobs' \/ j.turn \in lost'
  PROVE  ScheduleInvariant'
<1> USE DEF ScheduleInvariant
<1>1. /\ row' \in Schedule
      /\ row' = NoRow \/ (row'.id = row.id /\ row'.autoStop = row.autoStop /\ (row'.enabled => row' = row))
      /\ row'.next = "due" => row' = row
      /\ NoRow.id = 0 /\ NoRow.enabled = FALSE
  BY PausedRow
<1>2. TurnIds' = TurnIds BY DEF TurnIds
<1>3. TypeOK' BY <1>1, <1>2 DEF TypeOK
<1>4. Identified' BY <1>1, <1>2 DEF Identified, TypeOK
<1>5. OneJob' BY <1>2 DEF OneJob
<1>6. Fresh' BY <1>1 DEF Fresh
<1>7. \A i, t : Tracked(i, t)' => Tracked(i, t) BY DEF Tracked
<1>8. \A t : Unconfirmed(t)' <=> Unconfirmed(t) BY DEF Unconfirmed
<1>9. Watched'
  <2>1. ASSUME row'.enabled, NEW t \in TurnIds, Tracked(row.id, t)'
        PROVE  t = row'.pending \/ Unconfirmed(t)' \/ \E j \in jobs' : j.phase = "started" /\ j.turn = t
    <3>1. row' = row BY <2>1, <1>1
    <3>2. Tracked(row.id, t) BY <2>1, <3>1 DEF Tracked
    <3>3. CASE \E j \in jobs : j.phase = "started" /\ j.turn = t
      <4>1. t \notin lost' BY <2>1 DEF Tracked
      <4> QED BY <3>3, <4>1
    <3>4. CASE ~\E j \in jobs : j.phase = "started" /\ j.turn = t BY <2>1, <3>1, <3>2, <3>4, <1>8 DEF Watched
    <3> QED BY <3>3, <3>4
  <2>2. ASSUME NEW j \in jobs', NEW t \in TurnIds, Tracked(j.schedule.id, t)'
        PROVE  \/ Unconfirmed(t)'
               \/ j.phase = "reading" /\ t = j.schedule.pending
               \/ j.phase = "started" /\ t = j.turn
    BY <2>2, <1>7, <1>8 DEF Watched
  <2> QED BY <2>1, <2>2, <1>2 DEF Watched
<1>10. Superseded' BY <1>2 DEF Superseded, Tracked, Unconfirmed
<1> QED BY <1>3, <1>4, <1>5, <1>6, <1>9, <1>10
----
(* The invariant holds initially, and each action preserves it. *)

LEMMA ScheduleInit == Init => ScheduleInvariant
<1> SUFFICES ASSUME Init PROVE ScheduleInvariant OBVIOUS
<1>1. TurnIds = {} BY DEF Init, TurnIds
<1>2. NoRow \in Schedule /\ NoRow.id = 0 /\ NoRow.enabled = FALSE /\ NoRow.next = "never" BY DEF NoRow, Schedule
<1>3. TypeOK BY <1>2 DEF Init, TypeOK
<1> QED BY <1>1, <1>2, <1>3 DEF Init, ScheduleInvariant, Identified, OneJob, Fresh, Watched, Superseded

LEMMA SetStep == ASSUME ScheduleInvariant, Set PROVE ScheduleInvariant'
<1> USE DEF ScheduleInvariant
<1>1. /\ saves' = saves + 1
      /\ UNCHANGED <<jobs, web, connected, turns, news, stops, losses, lost, sent>>
  BY DEF Set
<1>2. /\ row' \in Schedule /\ row'.id = saves + 1 /\ row'.pending = 0
      /\ row'.next \in {"later", "never"}
  <2>1. PICK enabled, autoStop \in BOOLEAN :
           row' = [id |-> saves + 1, enabled |-> enabled, autoStop |-> autoStop, pending |-> 0,
                   next |-> IF enabled THEN "later" ELSE "never"]
    BY DEF Set
  <2> QED BY <2>1 DEF TypeOK, Schedule
<1>3. TurnIds' = TurnIds BY <1>1 DEF TurnIds
<1>4. TypeOK' BY <1>1, <1>2, <1>3 DEF TypeOK
<1>5. Identified' BY <1>1, <1>2, <1>3, TurnsTyped DEF Identified, TypeOK
<1>6. OneJob' /\ Superseded' BY <1>1, <1>3 DEF OneJob, Superseded, Tracked, Unconfirmed
<1>7. Fresh' BY <1>1, <1>2 DEF Fresh
<1>8. Watched'
  <2>1. \A t \in TurnIds : turns[t].id # saves + 1 BY DEF Identified, TypeOK
  <2>2. \A t \in TurnIds : ~Tracked(saves + 1, t) BY <2>1 DEF Tracked
  <2> QED BY <1>1, <1>2, <1>3, <2>2 DEF Watched, Tracked, Unconfirmed
<1> QED BY <1>4, <1>5, <1>6, <1>7, <1>8

LEMMA ElapseStep == ASSUME ScheduleInvariant, Elapse PROVE ScheduleInvariant'
<1> USE DEF ScheduleInvariant
<1> DEFINE Aged(j) == [j EXCEPT !.fresh = FALSE]
<1>1. /\ jobs' = {Aged(j) : j \in jobs} /\ sent' = 0
      /\ row' = [row EXCEPT !.next = "due"]
      /\ UNCHANGED <<web, connected, turns, news, bounded, lost>>
  BY DEF Elapse
<1>2. /\ row' \in Schedule /\ row'.id = row.id /\ row'.enabled = row.enabled
      /\ row'.autoStop = row.autoStop /\ row'.pending = row.pending
  BY <1>1 DEF TypeOK, Schedule
<1>3. \A j \in jobs : /\ Aged(j) \in Job /\ ~Aged(j).fresh
                      /\ Aged(j).phase = j.phase /\ Aged(j).schedule = j.schedule /\ Aged(j).turn = j.turn
  BY DEF TypeOK, Job
<1>4. TurnIds' = TurnIds BY <1>1 DEF TurnIds
<1> HIDE DEF Aged
<1>5. TypeOK' BY <1>1, <1>2, <1>3, <1>4 DEF TypeOK, bounded
<1>6. Identified' BY <1>1, <1>2, <1>3, <1>4 DEF Identified, bounded
<1>7. OneJob' BY <1>1, <1>3, <1>4 DEF OneJob
<1>8. Fresh' BY <1>1, <1>3 DEF Fresh
<1>9. Watched' BY <1>1, <1>2, <1>3, <1>4 DEF Watched, Tracked, Unconfirmed
<1>10. Superseded' BY <1>1, <1>4 DEF Superseded, Tracked, Unconfirmed
<1> QED BY <1>5, <1>6, <1>7, <1>8, <1>9, <1>10

LEMMA TickStep == ASSUME ScheduleInvariant, Tick PROVE ScheduleInvariant'
<1> USE DEF ScheduleInvariant
<1> DEFINE job == [phase |-> IF AsksFirst(row) THEN "reading" ELSE "preparing",
                   schedule |-> Claim(row), turn |-> 0, fresh |-> TRUE]
<1>1. /\ row.enabled /\ row.next = "due" /\ jobs = {}
      /\ row' = Claim(row) /\ jobs' = {job}
      /\ UNCHANGED <<web, connected, turns, news, bounded, lost, sent>>
  BY DEF Tick
<1>2. /\ Claim(row) \in Schedule /\ Claim(row).id = row.id /\ Claim(row).enabled = row.enabled
      /\ Claim(row).autoStop = row.autoStop /\ Claim(row).pending = row.pending
      /\ Claim(row).next = "later"
  BY DEF TypeOK, Schedule, Claim
<1>3. /\ job \in Job /\ job.schedule = Claim(row) /\ job.phase # "started"
      /\ job.phase = "reading" <=> AsksFirst(row)
  BY <1>2 DEF Job
<1> HIDE DEF job
<1>4. TurnIds' = TurnIds BY <1>1 DEF TurnIds
<1>5. TypeOK' BY <1>1, <1>2, <1>3, <1>4 DEF TypeOK, bounded
<1>6. Identified'
  <2>1. row.id \in 1 .. saves BY <1>1 DEF Identified, TypeOK, Schedule
  <2> QED BY <1>1, <1>2, <1>3, <1>4, <2>1 DEF Identified, bounded
<1>7. OneJob' BY <1>1, <1>3, <1>4 DEF OneJob
<1>8. Fresh' BY <1>1, <1>2 DEF Fresh
<1>9. \A t \in TurnIds : Tracked(row.id, t) => Unconfirmed(t) \/ (AsksFirst(row) /\ t = row.pending)
  <2>1. SUFFICES ASSUME NEW t \in TurnIds, Tracked(row.id, t), ~Unconfirmed(t)
                 PROVE  AsksFirst(row) /\ t = row.pending
    OBVIOUS
  <2>2. t = row.pending BY <1>1, <2>1 DEF Watched
  <2>3. row.autoStop BY <2>1 DEF Tracked, Identified
  <2>4. t # 0 BY TurnsTyped
  <2> QED BY <2>2, <2>3, <2>4 DEF AsksFirst
<1>10. Watched' BY <1>1, <1>2, <1>3, <1>4, <1>9 DEF Watched, Tracked, Unconfirmed
<1>11. Superseded' BY <1>1, <1>4 DEF Superseded, Tracked, Unconfirmed
<1> QED BY <1>5, <1>6, <1>7, <1>8, <1>10, <1>11
LEMMA ReadDoneStep == ASSUME ScheduleInvariant, NEW j \in jobs, ReadDone(j) PROVE ScheduleInvariant'
<1> USE DEF ScheduleInvariant
<1> DEFINE t == j.schedule.pending
           inProgress == turns[t].status = "inProgress" \/ t \in news
           confirmed == SeenCompleted(t) /\ turns[t].marked
           prepared == [j EXCEPT !.phase = "preparing"]
<1>1. /\ j.phase = "reading"
      /\ UNCHANGED <<web, connected, turns, news, bounded, lost, sent>>
  BY DEF ReadDone
<1>2. CASE jobs' = jobs \ {j} /\ row' \in {row, Paused(row), NoRow}
  BY <1>1, <1>2, ShrinkingStep DEF TypeOK, bounded, OneJob
<1>3. CASE /\ ~inProgress /\ ~confirmed /\ UNCHANGED row
           /\ jobs' = (jobs \ {j}) \cup {prepared}
  <2>1. prepared \in Job /\ prepared.phase = "preparing" /\ prepared.schedule = j.schedule /\ prepared.fresh = j.fresh
    BY DEF TypeOK, Job
  <2>2. jobs' = {prepared} BY <1>3 DEF OneJob
  <2> HIDE DEF prepared
  <2>3. TurnIds' = TurnIds BY <1>1 DEF TurnIds
  <2>4. TypeOK' BY <1>1, <1>3, <2>1, <2>2, <2>3 DEF TypeOK, bounded
  <2>5. Identified' BY <1>1, <1>3, <2>1, <2>2, <2>3 DEF Identified, bounded
  <2>6. OneJob' BY <1>1, <2>1, <2>2, <2>3 DEF OneJob
  <2>7. Fresh' BY <1>1, <1>3, <2>1, <2>2 DEF Fresh
  <2>8. Unconfirmed(t) \/ t \notin TurnIds BY <1>3 DEF SeenCompleted, Unconfirmed, OneJob
  <2>9. \A u \in TurnIds : Tracked(j.schedule.id, u) => Unconfirmed(u) BY <1>1, <2>8 DEF Watched
  <2>10. ASSUME row.enabled, NEW u \in TurnIds, Tracked(row.id, u) PROVE u = row.pending \/ Unconfirmed(u)
    BY <1>1, <2>10 DEF Watched, OneJob
  <2>11. Watched' BY <1>1, <1>3, <2>1, <2>2, <2>3, <2>9, <2>10 DEF Watched, Tracked, Unconfirmed
  <2>12. Superseded' BY <1>1, <2>3 DEF Superseded, Tracked, Unconfirmed
  <2> QED BY <2>4, <2>5, <2>6, <2>7, <2>11, <2>12
<1> QED BY <1>2, <1>3 DEF ReadDone, ConfirmedBy

LEMMA StartedStep == ASSUME ScheduleInvariant, NEW j \in jobs, Started(j) PROVE ScheduleInvariant'
<1> USE DEF ScheduleInvariant
<1> DEFINE n == Len(turns) + 1
           turn == [id |-> j.schedule.id, autoStop |-> j.schedule.autoStop, status |-> "inProgress", marked |-> FALSE]
           started == [j EXCEPT !.phase = "started", !.turn = n]
<1>1. /\ j.phase = "preparing" /\ turns' = Append(turns, turn)
      /\ jobs' = (jobs \ {j}) \cup {started}
      /\ sent' = (IF j.fresh THEN sent + 1 ELSE sent)
      /\ UNCHANGED <<row, web, connected, news, bounded, lost>>
  BY DEF Started
<1>2. /\ j \in Job /\ j.schedule \in Schedule /\ Len(turns) \in Nat /\ turns \in Seq(Turn) BY DEF TypeOK, Job
<1>3. /\ turn \in Turn /\ turn.id = j.schedule.id /\ turn.autoStop = j.schedule.autoStop
      /\ turn.status = "inProgress" /\ turn.marked = FALSE
  BY <1>2 DEF Turn, Schedule
<1>4. /\ started \in Job /\ started.phase = "started" /\ started.turn = n
      /\ started.schedule = j.schedule /\ started.fresh = j.fresh
  <2>1. n \in Nat BY <1>2
  <2> HIDE DEF n
  <2> QED BY <1>2, <2>1 DEF Job
<1>5. jobs' = {started} /\ \A k \in jobs : k = j BY <1>1 DEF OneJob
<1> HIDE DEF turn, started
<1>6. /\ turns' \in Seq(Turn) /\ TurnIds' = TurnIds \cup {n} /\ n \notin TurnIds
      /\ \A u \in TurnIds : turns'[u] = turns[u]
      /\ turns'[n] = turn
  BY <1>1, <1>2, <1>3 DEF TurnIds
<1>7. TypeOK' BY <1>1, <1>4, <1>5, <1>6 DEF TypeOK, bounded
<1>8. Identified'
  <2>1. /\ turn.id \in 1 .. saves /\ (turn.id = row.id => turn.autoStop = row.autoStop)
        /\ started.schedule.id \in 1 .. saves
        /\ started.schedule.id = row.id => started.schedule.autoStop = row.autoStop
    BY <1>3, <1>4 DEF Identified
  <2>2. \A u \in TurnIds' : /\ turns'[u].id \in 1 .. saves
                            /\ turns'[u].id = row.id => turns'[u].autoStop = row.autoStop
    BY <1>6, <2>1 DEF Identified
  <2> QED BY <1>1, <1>5, <2>1, <2>2 DEF Identified, bounded
<1>9. OneJob' BY <1>3, <1>4, <1>5, <1>6 DEF OneJob
<1>10. Fresh' BY <1>1, <1>4, <1>5 DEF Fresh, TypeOK
<1>11. \A u \in TurnIds : Tracked(j.schedule.id, u) => Unconfirmed(u) BY <1>1 DEF Watched
<1>12. \A u \in TurnIds : \A i : (Tracked(i, u)' <=> Tracked(i, u)) /\ (Unconfirmed(u)' <=> Unconfirmed(u))
  BY <1>1, <1>6 DEF Tracked, Unconfirmed
<1>13. Watched'
  <2>1. ASSUME row.enabled, NEW u \in TurnIds, Tracked(row.id, u) PROVE u = row.pending \/ Unconfirmed(u)
    BY <1>1, <1>5, <2>1 DEF Watched
  <2> QED BY <1>1, <1>4, <1>5, <1>6, <1>11, <1>12, <2>1 DEF Watched
<1>14. Superseded'
  <2>1. ASSUME NEW u \in TurnIds', NEW v \in TurnIds', u < v,
               turns'[u].id = turns'[v].id, turns'[u].autoStop, u \notin lost'
        PROVE  turns'[u].status # "inProgress" /\ ~turns'[u].marked
    <3>1. u \in TurnIds /\ turns'[u] = turns[u] /\ lost' = lost BY <1>1, <1>2, <1>6, <2>1 DEF TurnIds
    <3>2. CASE v = n BY <1>3, <1>6, <1>11, <2>1, <3>1, <3>2 DEF Tracked, Unconfirmed
    <3>3. CASE v # n
      <4>1. v \in TurnIds /\ turns'[v] = turns[v] BY <1>6, <2>1, <3>3
      <4> QED BY <2>1, <3>1, <4>1 DEF Superseded, Tracked, Unconfirmed
    <3> QED BY <3>2, <3>3
  <2> QED BY <2>1 DEF Superseded, Tracked, Unconfirmed
<1> QED BY <1>7, <1>8, <1>9, <1>10, <1>13, <1>14

LEMMA RespondedStep == ASSUME ScheduleInvariant, NEW j \in jobs, Responded(j) PROVE ScheduleInvariant'
<1> USE DEF ScheduleInvariant
<1>1. /\ j.phase = "started" /\ row' = Record(j) /\ jobs' = jobs \ {j}
      /\ UNCHANGED <<web, connected, turns, news, bounded, lost, sent>>
  BY DEF Responded
<1>2. jobs' = {} /\ j \in Job /\ j.schedule \in Schedule /\ j.turn \in TurnIds /\ j.turn \in Nat
  BY <1>1, TurnsTyped DEF OneJob, TypeOK, Job
<1>3. /\ row' \in Schedule /\ row'.id = row.id /\ row'.enabled = row.enabled
      /\ row'.autoStop = row.autoStop /\ row'.next = row.next
      /\ StillCurrent(j) /\ j.schedule.autoStop => row'.pending = j.turn
  BY <1>1, <1>2 DEF Record, TypeOK, Schedule
<1>4. TurnIds' = TurnIds BY <1>1 DEF TurnIds
<1>5. TypeOK' BY <1>1, <1>2, <1>3, <1>4 DEF TypeOK, bounded
<1>6. Identified' BY <1>1, <1>2, <1>3, <1>4 DEF Identified, bounded
<1>7. OneJob' /\ Fresh' /\ Superseded'
  BY <1>1, <1>2, <1>3, <1>4 DEF OneJob, Fresh, Superseded, Tracked, Unconfirmed
<1>8. ASSUME row.enabled, NEW t \in TurnIds, Tracked(row.id, t) PROVE t = row'.pending \/ Unconfirmed(t)
  <2>1. CASE row.id = j.schedule.id
    <3>1. Unconfirmed(t) \/ t = j.turn BY <1>1, <1>8, <2>1 DEF Watched
    <3>2. row.autoStop /\ StillCurrent(j) BY <1>8, <2>1 DEF Tracked, Identified, StillCurrent
    <3>3. j.schedule.autoStop BY <2>1, <3>2 DEF Identified
    <3> QED BY <1>3, <3>1, <3>2, <3>3
  <2>2. CASE row.id # j.schedule.id
    <3>1. row' = row BY <1>1, <2>2 DEF Record, StillCurrent
    <3>2. turns[j.turn].id # row.id /\ turns[t].id = row.id BY <1>1, <1>8, <2>2 DEF OneJob, Tracked
    <3> QED BY <1>8, <3>1, <3>2 DEF Watched, OneJob
  <2> QED BY <2>1, <2>2
<1>9. Watched' BY <1>1, <1>2, <1>3, <1>4, <1>8 DEF Watched, Tracked, Unconfirmed
<1> QED BY <1>5, <1>6, <1>7, <1>9
\* A Turn that ends was in progress, and so nothing was known of it that changes.
LEMMA TurnEndsStep ==
  ASSUME ScheduleInvariant, NEW t \in TurnIds, turns[t].status = "inProgress",
         NEW status \in {"completed", "interrupted"}, NEW marked \in BOOLEAN,
         marked => status = "completed",
         turns' = [turns EXCEPT ![t].status = status, ![t].marked = marked],
         news' \subseteq TurnIds,
         UNCHANGED <<row, jobs, web, connected, bounded, lost, sent>>
  PROVE  ScheduleInvariant'
<1> USE DEF ScheduleInvariant
<1>1. Len(turns) \in Nat /\ turns \in Seq(Turn) /\ turns[t] \in Turn BY TurnsTyped DEF TypeOK
<1>2. /\ turns' \in Seq(Turn) /\ TurnIds' = TurnIds
      /\ \A u \in TurnIds : /\ turns'[u].id = turns[u].id /\ turns'[u].autoStop = turns[u].autoStop
                            /\ u # t => turns'[u] = turns[u]
      /\ turns'[t].status = status /\ turns'[t].marked = marked
  <2>1. [turns[t] EXCEPT !.status = status, !.marked = marked] \in Turn BY <1>1 DEF Turn
  <2>2. turns' = [turns EXCEPT ![t] = [turns[t] EXCEPT !.status = status, !.marked = marked]] OBVIOUS
  <2>3. turns' \in Seq(Turn) /\ Len(turns') = Len(turns) BY <1>1, <2>1, <2>2 DEF TurnIds
  <2>4. \A u \in TurnIds : turns'[u] = IF u = t THEN [turns[t] EXCEPT !.status = status, !.marked = marked] ELSE turns[u]
    BY <1>1, <2>2 DEF TurnIds
  <2> QED BY <1>1, <2>3, <2>4 DEF TurnIds, Turn
<1>3. TypeOK' BY <1>2 DEF TypeOK, bounded
<1>4. Identified' BY <1>2 DEF Identified, bounded
<1>5. OneJob' BY <1>2 DEF OneJob
<1>6. Fresh' BY DEF Fresh
<1>7. \A i : \A u \in TurnIds : (Tracked(i, u)' <=> Tracked(i, u)) /\ (Unconfirmed(u) => Unconfirmed(u)')
  BY <1>2 DEF Tracked, Unconfirmed
<1>8. Watched' BY <1>2, <1>7 DEF Watched
<1>9. Superseded' BY <1>2, <1>7 DEF Superseded
<1> QED BY <1>3, <1>4, <1>5, <1>6, <1>8, <1>9

LEMMA TurnEventStep ==
  ASSUME ScheduleInvariant, NEW t \in TurnIds, Completes(t) \/ Interrupted(t) \/ HandleTurnCompleted(t)
  PROVE  ScheduleInvariant'
<1>1. TypeOK /\ turns[t] \in Turn /\ (turns[t].status = "inProgress" => turns[t].marked = FALSE)
  BY TurnsTyped DEF ScheduleInvariant, OneJob, Turn
<1>2. CASE Completes(t)
  <2>1. PICK marked \in BOOLEAN : turns' = [turns EXCEPT ![t].status = "completed", ![t].marked = marked]
    BY <1>2 DEF Completes
  <2>2. news' \subseteq TurnIds BY <1>1, <1>2 DEF Completes, TypeOK
  <2> QED BY <1>2, <2>1, <2>2, TurnEndsStep DEF Completes
<1>3. CASE Interrupted(t)
  <2>1. turns[t].status = "inProgress" /\ turns' = [turns EXCEPT ![t].status = "interrupted"]
    BY <1>3 DEF Interrupted
  <2>2. [turns[t] EXCEPT !.status = "interrupted"] = [turns[t] EXCEPT !.status = "interrupted", !.marked = FALSE]
    BY <1>1, <2>1 DEF Turn
  <2>3. turns' = [turns EXCEPT ![t].status = "interrupted", ![t].marked = FALSE] BY <2>1, <2>2
  <2> QED BY <1>1, <1>3, <2>1, <2>3, TurnEndsStep DEF Interrupted, TypeOK
<1>4. CASE HandleTurnCompleted(t) BY <1>1, <1>4, ShrinkingStep DEF HandleTurnCompleted, TypeOK, bounded
<1> QED BY <1>2, <1>3, <1>4

LEMMA ServerStep == ASSUME ScheduleInvariant, Server PROVE ScheduleInvariant'
<1>1. TypeOK /\ OneJob BY DEF ScheduleInvariant
<1>2. \A j \in jobs : j.phase = "started" => j.turn \in TurnIds /\ j \in Unanswered
  BY <1>1 DEF OneJob, Unanswered
<1> DEFINE Typed == web' \in {"up", "stopping", "down"} /\ connected' \in BOOLEAN
                    /\ stops' \in Nat /\ losses' \in Nat
<1>0. /\ web \in {"up", "stopping", "down"} /\ connected \in BOOLEAN /\ stops \in Nat /\ losses \in Nat
      /\ lost \subseteq TurnIds
  BY <1>1 DEF TypeOK
<1>3. CASE Disconnect
  <2>1. /\ news' = {} /\ jobs' = jobs \ Unanswered
        /\ lost' = lost \cup {j.turn : j \in Unanswered}
        /\ UNCHANGED <<row, turns, saves, sent>>
    BY <1>3 DEF Disconnect
  <2>2. lost' \subseteq TurnIds /\ lost \subseteq lost' BY <1>0, <1>1, <2>1 DEF OneJob, Unanswered
  <2>3. \A j \in jobs : j.phase = "started" => j \in jobs' \/ j.turn \in lost' BY <1>2, <2>1
  <2>4. Typed
    <3>1. losses' = losses + 1 /\ web' = web /\ stops' = stops BY <1>3 DEF Disconnect
    <3>2. connected' \in BOOLEAN BY <1>3, Zenon DEF Disconnect
    <3> QED BY <1>0, <3>1, <3>2
  <2> QED BY <2>1, <2>2, <2>3, <2>4, ShrinkingStep
<1>4. CASE Reconnect \/ Stop \/ Restart
  <2>1. UNCHANGED <<row, jobs, turns, news, saves, lost, sent>> BY <1>4 DEF Reconnect, Stop, Restart, bounded
  <2>2. Typed
    <3>1. CASE Reconnect BY <1>0, <3>1 DEF Reconnect, bounded
    <3>2. CASE Stop BY <1>0, <3>2 DEF Stop
    <3>3. CASE Restart BY <1>0, <3>3 DEF Restart, bounded
    <3> QED BY <1>4, <3>1, <3>2, <3>3
  <2> QED BY <1>0, <2>1, <2>2, ShrinkingStep
<1>5. CASE Stopped BY <1>1, <1>5, ShrinkingStep DEF Stopped, Awaited, Gone, TypeOK
<1>6. CASE Crash
  <2>1. /\ news' = {} /\ jobs' = {}
        /\ lost' = lost \cup {j.turn : j \in Unanswered}
        /\ UNCHANGED <<row, turns, saves, sent>>
    BY <1>6 DEF Crash, Gone
  <2>2. lost' \subseteq TurnIds /\ lost \subseteq lost' BY <1>0, <1>1, <2>1 DEF OneJob, Unanswered
  <2>3. \A j \in jobs : j.phase = "started" => j.turn \in lost' BY <1>2, <2>1
  <2>4. Typed
    <3>1. stops' = stops + 1 /\ web' = "down" /\ losses' = losses BY <1>6 DEF Crash, Gone
    <3>2. connected' \in BOOLEAN BY <1>6, Zenon DEF Crash, Gone
    <3> QED BY <1>0, <3>1, <3>2
  <2> QED BY <2>1, <2>2, <2>3, <2>4, ShrinkingStep
<1> QED BY <1>3, <1>4, <1>5, <1>6 DEF Server

LEMMA SettlesStep == ASSUME ScheduleInvariant, Remove \/ (\E j \in jobs : Refused(j)) \/ UNCHANGED vars PROVE ScheduleInvariant'
<1>1. TypeOK /\ OneJob BY DEF ScheduleInvariant
<1>2. CASE Remove BY <1>1, <1>2, ShrinkingStep DEF Remove, TypeOK, bounded
<1>3. CASE \E j \in jobs : Refused(j)
  <2>1. PICK j \in jobs : Refused(j) BY <1>3
  <2> QED BY <1>1, <2>1, ShrinkingStep DEF Refused, TypeOK, bounded
<1>4. CASE UNCHANGED vars BY <1>1, <1>4, ShrinkingStep DEF vars, TypeOK
<1> QED BY <1>2, <1>3, <1>4

LEMMA ScheduleStep == ASSUME ScheduleInvariant, [Next]_vars PROVE ScheduleInvariant'
<1>1. CASE Settings BY <1>1, SetStep, SettlesStep DEF Settings
<1>2. CASE Elapse BY <1>2, ElapseStep
<1>3. CASE Tick BY <1>3, TickStep
<1>4. CASE RunJob BY <1>4, ReadDoneStep, SettlesStep, StartedStep, RespondedStep DEF RunJob
<1>5. CASE TurnEvent BY <1>5, TurnEventStep DEF TurnEvent
<1>6. CASE Server BY <1>6, ServerStep
<1>7. CASE UNCHANGED vars BY <1>7, SettlesStep
<1> QED BY <1>1, <1>2, <1>3, <1>4, <1>5, <1>6, <1>7 DEF Next, Idle

----
\* ScheduleInvariant is inductive.
THEOREM ScheduleInductive == Spec => []ScheduleInvariant
<1> QED BY ScheduleInit, ScheduleStep, PTL DEF Spec

\* The persisted schedule, the jobs and the Turns stay of their types.
THEOREM ScheduleTyped == Spec => []TypeOK
<1>1. ScheduleInvariant => TypeOK BY DEF ScheduleInvariant
<1> QED BY <1>1, ScheduleInductive, PTL

\* PromptScheduler claims before it sends: one interval, one prompt, whatever
\* dies in between.
THEOREM ClaimSendsOnce == Spec => []OncePerInterval
<1>1. ScheduleInvariant => OncePerInterval BY DEF ScheduleInvariant, Fresh, OncePerInterval
<1> QED BY <1>1, ScheduleInductive, PTL

\* A schedule whose Turn has confirmed completion starts no further Turn, unless
\* the start of that Turn had an unknown result.
THEOREM ConfirmedSendsNoMore == Spec => []ConfirmedIsLast
<1>1. ScheduleInvariant => ConfirmedIsLast
  BY DEF ScheduleInvariant, Superseded, ConfirmedIsLast, Tracked, Unconfirmed
<1> QED BY <1>1, ScheduleInductive, PTL

\* No job of PromptScheduler that ends late undoes a save, a pause or a removal.
THEOREM LateJobsRespectPauses == Spec => NoStaleWrite
<1> DEFINE Respects == saves' = saves => row' = NoRow \/ (row'.id = row.id /\ (row'.enabled => row.enabled))
<1>1. ASSUME TypeOK, [Next]_vars PROVE [Respects]_vars
  <2>1. row \in Schedule /\ saves \in Nat BY <1>1 DEF TypeOK
  <2>2. Paused(row).id = row.id /\ Paused(row).enabled = FALSE BY <2>1 DEF Paused, Schedule
  <2>3. CASE Settings BY <2>1, <2>3 DEF Settings, Set, Remove
  <2>4. CASE Elapse \/ Tick BY <2>1, <2>4 DEF Elapse, Tick, Claim, Schedule
  <2>5. CASE RunJob
    <3>1. PICK j \in jobs : ReadDone(j) \/ Refused(j) \/ Started(j) \/ Responded(j) BY <2>5 DEF RunJob
    <3>2. Record(j).id = row.id /\ Record(j).enabled = row.enabled BY <2>1 DEF Record, Schedule
    <3> QED BY <2>2, <3>1, <3>2 DEF ReadDone, ConfirmedBy, Refused, Started, Responded
  <2>6. CASE TurnEvent BY <2>2, <2>6 DEF TurnEvent, Completes, Interrupted, HandleTurnCompleted
  <2>7. CASE Server BY <2>7 DEF Server, Disconnect, Reconnect, Stop, Stopped, Crash, Restart, Gone
  <2>8. CASE UNCHANGED vars BY <2>8
  <2> QED BY <1>1, <2>3, <2>4, <2>5, <2>6, <2>7, <2>8 DEF Next, Idle
<1> QED BY <1>1, ScheduleTyped, PTL DEF Spec, NoStaleWrite

====
