---- MODULE PromptScheduler ----
(*
The schedule of one session: its row in prompt_schedules, the job of
PromptScheduler that sends the prompt, and the web server that is
stopped or dies between any two steps of it.

SessionService is external here: startTurn ends in a Turn, a refusal or
an unknown result, readSession in the Turns or an error.  A tick, a
continuation and an event are one step each.  Times are reduced to
whether nextRunAt has passed.  lastRunAt changes only at a claim, and a
claim waits for the job, so that comparing it adds nothing to the
comparison of scheduleId and is left out, as is the text of lastResult.
*)
EXTENDS Naturals, Sequences

CONSTANTS
    MaxTurns,   \* bound: Turns of scheduled prompts
    MaxSets,    \* bound: saves of the settings
    MaxStops,   \* bound: ends of the web server
    MaxLosses   \* bound: losses of the App Server connection

ASSUME ScheduleBounds ==
    MaxTurns \in Nat /\ MaxSets \in Nat /\ MaxStops \in Nat /\ MaxLosses \in Nat

VARIABLES
    row,        \* the persisted schedule
    jobs,       \* calls of send that have not ended
    web,        \* "up", "stopping" (stop awaits the jobs) or "down"
    connected,  \* what the scheduler asks before a claim
    turns,      \* Turns of scheduled prompts, in the order they started
    news,       \* completed Turns whose notification is not handled yet
    saves, stops, losses,  \* history: bounded events
    lost,       \* history: Turns whose start had an unknown result
    sent        \* history: prompts sent by claims of the current interval

vars == <<row, jobs, web, connected, turns, news, saves, stops, losses, lost, sent>>
bounded == <<saves, stops, losses>>

Schedule == [id : Nat, enabled : BOOLEAN, autoStop : BOOLEAN, pending : Nat,
             next : {"never", "later", "due"}]
NoRow == [id |-> 0, enabled |-> FALSE, autoStop |-> FALSE, pending |-> 0, next |-> "never"]

Job == [phase : {"reading", "preparing", "started"}, schedule : Schedule, turn : Nat, fresh : BOOLEAN]
Turn == [id : Nat, autoStop : BOOLEAN, status : {"inProgress", "completed", "interrupted"}, marked : BOOLEAN]

TurnIds == 1 .. Len(turns)

Init ==
    /\ row = NoRow /\ jobs = {} /\ web = "up" /\ connected = TRUE
    /\ turns = <<>> /\ news = {} /\ lost = {}
    /\ saves = 0 /\ stops = 0 /\ losses = 0 /\ sent = 0

----
(* Settings *)

\* PUT /schedule: every save is a new schedule, with a full interval ahead.
Set ==
    /\ web # "down" /\ saves < MaxSets
    /\ saves' = saves + 1
    /\ \E enabled, autoStop \in BOOLEAN :
          row' = [id |-> saves + 1, enabled |-> enabled, autoStop |-> autoStop, pending |-> 0,
                  next |-> IF enabled THEN "later" ELSE "never"]
    /\ UNCHANGED <<jobs, web, connected, turns, news, stops, losses, lost, sent>>

\* The session is archived or its project removed: ON DELETE CASCADE.
Remove ==
    /\ web # "down" /\ row # NoRow
    /\ row' = NoRow
    /\ UNCHANGED <<jobs, web, connected, turns, news, bounded, lost, sent>>

----
(* A run *)

Paused(r) == [r EXCEPT !.enabled = FALSE, !.pending = 0, !.next = "never"]

\* nextRunAt passes, or a whole interval after it.
Elapse ==
    /\ row.next # "never"
    /\ row' = [row EXCEPT !.next = "due"]
    /\ jobs' = {[j EXCEPT !.fresh = FALSE] : j \in jobs}
    /\ sent' = 0
    /\ UNCHANGED <<web, connected, turns, news, bounded, lost>>

ClaimLater(r) == r                                                   \* mutant
Claim(r) == [r EXCEPT !.next = "later"]

NeverAsks(r) == FALSE                                                \* mutant
AsksFirst(r) == r.autoStop /\ r.pending # 0

\* tick up to the first await of send: the claim is written before anything is
\* asked or sent.
Tick ==
    /\ web = "up" /\ connected
    /\ row.enabled /\ row.next = "due" /\ jobs = {}
    /\ row' = Claim(row)
    /\ jobs' = {[phase |-> IF AsksFirst(row) THEN "reading" ELSE "preparing",
                  schedule |-> Claim(row), turn |-> 0, fresh |-> TRUE]}
    /\ UNCHANGED <<web, connected, turns, news, bounded, lost, sent>>

\* The snapshot has what was completed, unless its notification is still to come.
SeenCompleted(t) == turns[t].status = "completed" /\ t \notin news

\* The reply confirms that everything is done: pause, and do not send.
ConfirmedBy(j, t) ==
    /\ row' = IF row.enabled /\ row.id = j.schedule.id /\ row.pending = t THEN Paused(row) ELSE row
    /\ jobs' = jobs \ {j}

Replaced(j) == row.id # j.schedule.id

ReadDone(j) ==
    LET t == j.schedule.pending
        inProgress == turns[t].status = "inProgress" \/ t \in news
        confirmed == SeenCompleted(t) /\ turns[t].marked
    IN  /\ j.phase = "reading"
        /\ \/ inProgress /\ jobs' = jobs \ {j} /\ UNCHANGED row
           \/ ~inProgress /\ confirmed /\ ConfirmedBy(j, t)
           \/ ~inProgress /\ ~confirmed /\ Replaced(j) /\ jobs' = jobs \ {j} /\ UNCHANGED row
           \/ /\ ~inProgress /\ ~confirmed /\ ~Replaced(j)
              /\ jobs' = (jobs \ {j}) \cup {[j EXCEPT !.phase = "preparing"]}
              /\ UNCHANGED row
        /\ UNCHANGED <<web, connected, turns, news, bounded, lost, sent>>

\* readSession or startTurn rejects, and no Turn has started.
Refused(j) ==
    /\ j.phase \in {"reading", "preparing"}
    /\ jobs' = jobs \ {j}
    /\ UNCHANGED <<row, web, connected, turns, news, bounded, lost, sent>>

\* The App Server starts the Turn; the response is under way.
Started(j) ==
    /\ j.phase = "preparing" /\ connected
    /\ Len(turns) < MaxTurns
    /\ \A t \in TurnIds : turns[t].status # "inProgress" /\ t \notin news
    /\ turns' = Append(turns, [id |-> j.schedule.id, autoStop |-> j.schedule.autoStop,
                               status |-> "inProgress", marked |-> FALSE])
    /\ jobs' = (jobs \ {j}) \cup {[j EXCEPT !.phase = "started", !.turn = Len(turns) + 1]}
    /\ sent' = IF j.fresh THEN sent + 1 ELSE sent
    /\ UNCHANGED <<row, web, connected, news, bounded, lost>>

StillCurrent(j) == row.enabled /\ row.id = j.schedule.id

\* The row is read again: only the Turn's id is added to what it has become.
RecordCaptured(j) == [j.schedule EXCEPT !.pending = j.turn]           \* mutant
RecordFirst(j) == IF StillCurrent(j) /\ row.pending = 0 THEN [row EXCEPT !.pending = j.turn] ELSE row  \* mutant
Record(j) == IF StillCurrent(j)
             THEN [row EXCEPT !.pending = IF j.schedule.autoStop THEN j.turn ELSE 0] ELSE row

Responded(j) ==
    /\ j.phase = "started"
    /\ row' = Record(j)
    /\ jobs' = jobs \ {j}
    /\ UNCHANGED <<web, connected, turns, news, bounded, lost, sent>>

----
(* Turns of scheduled prompts, and the connection *)

Completes(t) ==
    /\ turns[t].status = "inProgress"
    /\ \E marked \in BOOLEAN :
          turns' = [turns EXCEPT ![t].status = "completed", ![t].marked = marked]
    /\ news' = IF web # "down" /\ connected THEN news \cup {t} ELSE news
    /\ UNCHANGED <<row, jobs, web, connected, bounded, lost, sent>>

Interrupted(t) ==
    /\ turns[t].status = "inProgress"
    /\ turns' = [turns EXCEPT ![t].status = "interrupted"]
    /\ UNCHANGED <<row, jobs, web, connected, news, bounded, lost, sent>>

HandleTurnCompleted(t) ==
    /\ t \in news
    /\ news' = news \ {t}
    /\ row' = IF row.enabled /\ row.autoStop /\ row.pending = t /\ turns[t].marked THEN Paused(row) ELSE row
    /\ UNCHANGED <<jobs, web, connected, turns, bounded, lost, sent>>

Unanswered == {j \in jobs : j.phase = "started"}

Disconnect ==
    /\ web # "down" /\ connected /\ losses < MaxLosses
    /\ losses' = losses + 1
    /\ connected' = FALSE
    /\ news' = {}
    /\ jobs' = jobs \ Unanswered
    /\ lost' = lost \cup {j.turn : j \in Unanswered}
    /\ UNCHANGED <<row, web, turns, saves, stops, sent>>

Reconnect ==
    /\ web # "down" /\ ~connected
    /\ connected' = TRUE
    /\ UNCHANGED <<row, jobs, web, turns, news, bounded, lost, sent>>

----
(* The web server *)

Stop ==
    /\ web = "up" /\ stops < MaxStops
    /\ stops' = stops + 1
    /\ web' = "stopping"
    /\ UNCHANGED <<row, jobs, connected, turns, news, saves, losses, lost, sent>>

Gone ==
    /\ web' = "down" /\ connected' = FALSE
    /\ jobs' = {} /\ news' = {}
    /\ UNCHANGED <<row, turns, saves, losses, sent>>

\* stop awaits the jobs before the process ends.
Awaited == jobs = {}
Stopped ==
    /\ web = "stopping" /\ Awaited
    /\ Gone /\ UNCHANGED <<stops, lost>>

Crash ==
    /\ web # "down" /\ stops < MaxStops
    /\ stops' = stops + 1
    /\ lost' = lost \cup {j.turn : j \in Unanswered}
    /\ Gone

Restart ==
    /\ web = "down"
    /\ web' = "up"
    /\ UNCHANGED <<row, jobs, connected, turns, news, bounded, lost, sent>>

Settings == Set \/ Remove
RunJob == \E j \in jobs : ReadDone(j) \/ Refused(j) \/ Started(j) \/ Responded(j)
TurnEvent == \E t \in TurnIds : Completes(t) \/ Interrupted(t) \/ HandleTurnCompleted(t)
Server == Disconnect \/ Reconnect \/ Stop \/ Stopped \/ Crash \/ Restart

\* Nothing is scheduled, and nothing under way.
Idle == row.next = "never" /\ jobs = {} /\ web = "up" /\ connected /\ UNCHANGED vars

Next == Settings \/ Elapse \/ Tick \/ RunJob \/ TurnEvent \/ Server \/ Idle

Spec == Init /\ [][Next]_vars

\* Time passes, the interval timer ticks, calls of SessionService end and do not
\* fail for ever, the connection and the web server come back.
FairSpec ==
    /\ Spec
    /\ WF_vars(Elapse) /\ WF_vars(Tick) /\ WF_vars(RunJob)
    /\ SF_vars(\E j \in jobs : ReadDone(j))
    /\ WF_vars(\E t \in TurnIds : HandleTurnCompleted(t))
    /\ WF_vars(Reconnect) /\ WF_vars(Stopped) /\ WF_vars(Restart)

----
TypeOK ==
    /\ row \in Schedule
    /\ jobs \subseteq Job
    /\ web \in {"up", "stopping", "down"} /\ connected \in BOOLEAN
    /\ turns \in Seq(Turn)
    /\ news \subseteq TurnIds /\ lost \subseteq TurnIds
    /\ saves \in Nat /\ stops \in Nat /\ losses \in Nat /\ sent \in Nat

\* A claim is good for one prompt, whatever dies or restarts: no interval's prompt
\* is sent twice.
OncePerInterval == sent <= 1

\* Once a reply has confirmed that all is done, its schedule sends nothing more,
\* unless the result of that very start was unknown.
ConfirmedIsLast ==
    \A t, u \in TurnIds :
        t < u /\ turns[t].id = turns[u].id /\ turns[t].autoStop /\ turns[t].marked => t \in lost

\* README.md:282: the reply to a scheduled prompt that contains the marker pauses
\* the schedule, and after a restart the last reply is checked before the next prompt.
ConfirmationEndsPolling ==
    \A t, u \in TurnIds : t < u /\ turns[t].id = turns[u].id /\ turns[t].autoStop => ~turns[t].marked

\* Without a save a schedule is only paused or removed: a job that ends late
\* brings back neither an older schedule nor one that was paused or removed.
NoStaleWrite ==
    [][saves' = saves => row' = NoRow \/ (row'.id = row.id /\ (row'.enabled => row.enabled))]_vars

\* A confirmation in the recorded Turn pauses the schedule, even when its
\* notification was lost with the connection or the web server.
ConfirmationPauses ==
    \A s \in 1 .. MaxSets :
        (row.id = s /\ row.pending # 0 /\ turns[row.pending].marked) ~> (row.id # s \/ ~row.enabled)

----
(* The inductive invariant behind these, proved in PromptSchedulerProofs. *)

\* Ids grow with the saves, and what carries the id of the row is of its kind.
Identified ==
    /\ row.id <= saves /\ (row.enabled => row.id # 0)
    /\ \A j \in jobs : /\ j.schedule.id \in 1 .. saves
                       /\ j.schedule.id = row.id => j.schedule.autoStop = row.autoStop
    /\ \A t \in TurnIds : /\ turns[t].id \in 1 .. saves
                          /\ turns[t].id = row.id => turns[t].autoStop = row.autoStop

OneJob ==
    /\ \A j, k \in jobs : j = k
    /\ \A j \in jobs : j.phase = "started" => j.turn \in TurnIds /\ turns[j.turn].id = j.schedule.id
    /\ \A t \in TurnIds : turns[t].marked => turns[t].status = "completed"

Fresh ==
    /\ sent <= 1
    /\ row.next = "due" => sent = 0 /\ \A j \in jobs : ~j.fresh
    /\ sent = 1 => \A j \in jobs : j.fresh => j.phase = "started"

Tracked(i, t) == turns[t].id = i /\ turns[t].autoStop /\ t \notin lost
Unconfirmed(t) == turns[t].status # "inProgress" /\ ~turns[t].marked

\* Every Turn of a schedule that may still confirm is the one somebody looks at.
Watched ==
    /\ row.enabled => \A t \in TurnIds : Tracked(row.id, t) =>
          t = row.pending \/ Unconfirmed(t) \/ \E j \in jobs : j.phase = "started" /\ j.turn = t
    /\ \A j \in jobs : \A t \in TurnIds : Tracked(j.schedule.id, t) =>
          \/ Unconfirmed(t)
          \/ j.phase = "reading" /\ t = j.schedule.pending
          \/ j.phase = "started" /\ t = j.turn

\* A Turn that the next one of its schedule has replaced can confirm no more.
Superseded ==
    \A t, u \in TurnIds : t < u /\ Tracked(turns[u].id, t) => Unconfirmed(t)

ScheduleInvariant == TypeOK /\ Identified /\ OneJob /\ Fresh /\ Watched /\ Superseded

====
