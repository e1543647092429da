---- MODULE SessionDetails ----
(*
What the list of sessions and the page show of a session beside its
Turns: whether it has a Goal and what it is called.  Loads of the list
that hold no lock, operations under the session's lock, automatic
titles, notifications, removal and return of the session meet in the
caches of SessionService.

A request is sent, served and answered; the answers and notifications
of the App Server come in one order.  A continuation runs at any time
after its answer: the lines that came with the answer are handled
before it.
*)
EXTENDS Naturals, Sequences

CONSTANTS
    Sessions,
    Forked,         \* the sessions with a fork Turn
    Kinds,          \* what users do, of read, rename, setGoal, clearGoal, archive
    GoalLoads, ForkLoads,   \* bound: loads under way for a session at a time
    MaxChanges,     \* bound: changes by Turns and users, archives, returns
    MaxTroubles     \* bound: refused requests, losses of the connection

VARIABLES
    thread,     \* per session, at the App Server: name, goal, first Turn, archived
    row,        \* sessions with a row
    removed,    \* removedThreads
    life,       \* sessionGenerations
    snapshot,   \* sessionSnapshots; life: of the session when it was loaded
    presence,   \* goalPresence
    loading,    \* goalPresenceLoading
    attempted,  \* autoTitleAttempts
    naming,     \* the automatic title of a session
    unsure,     \* uncertainArchives
    job,        \* operations and loads, with their requests
    lines,      \* output of the App Server that was not handled yet
    changes, troubles

vars == <<thread, row, removed, life, snapshot, presence, loading, attempted, naming, unsure,
          job, lines, changes, troubles>>

caches == <<removed, life, snapshot, presence, loading, attempted, unsure>>
bounds == <<changes, troubles>>

\* One operation at a time holds the lock of a session.
Slots == {"locked"} \cup GoalLoads \cup ForkLoads

NoSnapshot == [name |-> "absent", turn |-> "none", life |-> 0]
Unknown == [goal |-> "unknown", life |-> 0]
NoJob == [kind |-> "none", asked |-> {}, sent |-> {}, got |-> {}, refused |-> FALSE,
          name |-> "none", turn |-> "none", goal |-> "no", life |-> 0, since |-> 0]

Init ==
    /\ thread = [s \in Sessions |-> [name |-> "none", goal |-> "no", turn |-> "none", archived |-> FALSE]]
    /\ row = Sessions /\ removed = {} /\ life = [s \in Sessions |-> 0]
    /\ snapshot = [s \in Sessions |-> NoSnapshot] /\ presence = [s \in Sessions |-> Unknown]
    /\ loading = {} /\ attempted = {} /\ naming = [s \in Sessions |-> "idle"] /\ unsure = {}
    /\ job = [s \in Sessions |-> [k \in Slots |-> NoJob]]
    /\ lines = <<>> /\ changes = 0 /\ troubles = 0

Change == changes < MaxChanges /\ changes' = changes + 1 /\ UNCHANGED troubles

----
(* Operations and loads begin *)

\* adapter.readSession asks for the thread, and when it has it for its Turns.
FirstRequests(kind) ==
    CASE kind = "goals" -> {"goal"}
      [] kind = "read" -> {"goal", "meta"}
      [] kind \in {"forks", "title"} -> {"meta"}
      [] OTHER -> {kind}

Job(kind, s) ==
    [NoJob EXCEPT !.kind = kind, !.asked = FirstRequests(kind), !.sent = FirstRequests(kind), !.life = life[s]]

\* The loads that listSessions starts for a session.
Loads(s) ==
    (IF presence[s] = Unknown /\ s \notin loading THEN {"goals"} ELSE {})
    \cup (IF s \in Forked /\ snapshot[s] = NoSnapshot THEN {"forks"} ELSE {})

FreeSlots(s, kind) ==
    {k \in IF kind = "goals" THEN GoalLoads ELSE ForkLoads : job[s][k].kind = "none"}
SlotOf(s, kind) == CHOOSE k \in FreeSlots(s, kind) : TRUE

\* listSessions: restoreSession, ensureGoalPresence and ensureForkSnapshots (of
\* at most eight sessions: one batch).
List ==
    /\ \A s \in row : \A kind \in Loads(s) : FreeSlots(s, kind) # {}
    /\ \E s \in row : Loads(s) # {} \/ s \in removed
    /\ removed' = removed \ row
    /\ loading' = loading \cup {s \in row : "goals" \in Loads(s)}
    /\ job' = [s \in Sessions |-> [k \in Slots |->
          LET kinds == {kind \in Loads(s) : SlotOf(s, kind) = k}
          IN  IF s \in row /\ kinds # {} THEN Job(CHOOSE kind \in kinds : TRUE, s) ELSE job[s][k]]]
    /\ UNCHANGED <<thread, row, life, snapshot, presence, attempted, naming, unsure, lines, bounds>>

LockIsFree(s) == job[s]["locked"].kind = "none"

\* readSession, rename, setGoal and clearGoal, archive: under the lock.
Begin(s, kind) ==
    /\ LockIsFree(s) /\ s \in row
    /\ kind = "archive" => thread[s].turn # "runs"
    /\ kind # "read" => Change
    /\ kind = "read" => UNCHANGED bounds
    /\ removed' = IF kind = "read" THEN removed \ {s} ELSE removed
    /\ job' = [job EXCEPT ![s]["locked"] = Job(kind, s)]
    /\ UNCHANGED <<thread, row, life, snapshot, presence, loading, attempted, naming, unsure, lines>>

\* generateAndApplyAutoTitle has its title and the lock.
ApplyTitle(s) ==
    /\ naming[s] = "titled" /\ LockIsFree(s)
    /\ naming' = [naming EXCEPT ![s] = "idle"]
    /\ job' = IF s \in row /\ snapshot[s].name = "none"
              THEN [job EXCEPT ![s]["locked"] = Job("title", s)] ELSE job
    /\ UNCHANGED <<thread, row, caches, lines, bounds>>

\* The title worker answers, or fails.
Titled(s) ==
    /\ naming[s] = "generating"
    /\ naming' \in {[naming EXCEPT ![s] = at] : at \in {"titled", "idle"}}
    /\ UNCHANGED <<thread, row, caches, job, lines, bounds>>

----
(* Requests *)

\* mutant: the cached name alone decides.
UnnamedByCache(s, j) == snapshot[s].name = "none"

\* A title is still wanted after the read.
Unnamed(s, j) == j.name = "none" /\ snapshot[s].name = "none"

\* The automatic title goes out.
RenameSent(s) ==
    LET j == job[s]["locked"]
    IN  /\ j.kind = "title" /\ j.got = {"meta", "turns"} /\ "rename" \notin j.sent
        /\ Unnamed(s, j)
        /\ job' = [job EXCEPT ![s]["locked"].asked = {"rename"}, ![s]["locked"].sent = @ \cup {"rename"}]
        /\ UNCHANGED <<thread, row, caches, naming, lines, bounds>>

Answer(s, k, r, value) == [s |-> s, what |-> r, value |-> value, to |-> k]
Event(s, what, value) == [s |-> s, what |-> what, value |-> value, to |-> "all"]

\* What a request does to the thread.
Effect(s, k, r) ==
    CASE r = "rename" -> [thread EXCEPT ![s].name = IF job[s][k].kind = "title" THEN "auto" ELSE "user"]
      [] r = "setGoal" -> [thread EXCEPT ![s].goal = "yes"]
      [] r = "clearGoal" -> [thread EXCEPT ![s].goal = "no"]
      [] r = "archive" -> [thread EXCEPT ![s].archived = TRUE]
      [] OTHER -> thread

\* The notification that goes with it.
Told(s, k, r) ==
    CASE r = "rename" -> <<Event(s, "name", IF job[s][k].kind = "title" THEN "auto" ELSE "user")>>
      [] r = "setGoal" -> <<Event(s, "goal", "yes")>>
      [] r = "clearGoal" -> <<Event(s, "goal", "no")>>
      [] OTHER -> <<>>

Asked(s, r) ==
    CASE r = "meta" -> thread[s].name [] r = "turns" -> thread[s].turn
      [] r = "goal" -> thread[s].goal [] OTHER -> "ok"

\* History: the life of the session when the first request was served.
Since(s, k) == IF job[s][k].asked = FirstRequests(job[s][k].kind) THEN life[s] ELSE job[s][k].since

\* The App Server serves a request, or refuses it.
Serve(s, k, r) ==
    /\ r \in job[s][k].asked
    /\ job' = [job EXCEPT ![s][k].asked = @ \ {r}, ![s][k].since = Since(s, k)]
    /\ \/ /\ ~thread[s].archived
          /\ thread' = Effect(s, k, r)
          /\ lines' = lines \o Told(s, k, r) \o <<Answer(s, k, r, Asked(s, r))>>
          /\ UNCHANGED bounds
       \/ /\ thread[s].archived \/ troubles < MaxTroubles
          /\ troubles' = IF thread[s].archived THEN troubles ELSE troubles + 1
          /\ lines' = Append(lines, Answer(s, k, r, "refused"))
          /\ UNCHANGED <<thread, changes>>
    /\ UNCHANGED <<row, caches, naming>>

----
(* The output of the App Server *)

\* scheduleAutoTitle: the first Turn is over and nobody has named the session.
TitleWanted(s) ==
    /\ s \notin attempted /\ s \in row
    /\ snapshot[s].name = "none" /\ naming[s] = "idle"

\* handleEvent and updateSessionSnapshot.
Notified(e) ==
    LET s == e.s
    IN  IF s \in removed THEN UNCHANGED <<snapshot, presence, attempted, naming>>
        ELSE /\ presence' = IF e.what = "goal"
                            THEN [presence EXCEPT ![s] = [goal |-> e.value, life |-> life[s]]] ELSE presence
             /\ snapshot' = IF snapshot[s] = NoSnapshot THEN snapshot
                            ELSE IF e.what = "name" THEN [snapshot EXCEPT ![s].name = e.value]
                            ELSE IF e.what = "turn" THEN [snapshot EXCEPT ![s].turn = e.value] ELSE snapshot
             /\ IF e.what = "turn" /\ e.value = "done" /\ TitleWanted(s)
                THEN attempted' = attempted \cup {s} /\ naming' = [naming EXCEPT ![s] = "generating"]
                ELSE UNCHANGED <<attempted, naming>>

\* An answer settles its request; with the thread read, its Turns are asked for.
Settled(j, l) ==
    IF l.value = "refused" THEN [j EXCEPT !.refused = TRUE]
    ELSE [j EXCEPT !.got = @ \cup {l.what},
                   !.asked = IF l.what = "meta" THEN @ \cup {"turns"} ELSE @,
                   !.sent = IF l.what = "meta" THEN @ \cup {"turns"} ELSE @,
                   !.name = IF l.what = "meta" THEN l.value ELSE @,
                   !.turn = IF l.what = "turns" THEN l.value ELSE @,
                   !.goal = IF l.what = "goal" THEN l.value ELSE @]

HandleLine ==
    /\ lines # <<>> /\ lines' = Tail(lines)
    /\ LET l == Head(lines)
       IN  IF l.to = "all" THEN Notified(l) /\ UNCHANGED job
           ELSE /\ job' = [job EXCEPT ![l.s][l.to] = Settled(@, l)]
                /\ UNCHANGED <<snapshot, presence, attempted, naming>>
    /\ UNCHANGED <<thread, row, removed, life, loading, unsure, bounds>>

----
(* Operations and loads end *)

Later(mine, other) == IF "done" \in {mine, other} THEN "done" ELSE IF "runs" \in {mine, other} THEN "runs" ELSE "none"

\* mutant: a load counts for whoever has the id by now.
StillValidId(s, k) == s \notin removed

\* The load is still of the session it was started for.
StillValid(s, k) == s \notin removed /\ life[s] = job[s][k].life

Loaded(s, j) == [name |-> j.name, turn |-> j.turn, life |-> j.since]
Known(j) == [goal |-> j.goal, life |-> j.since]

\* mergeSessionSnapshot: Turns of both, the rest of what was read.
Merged(s, j) ==
    [Loaded(s, j) EXCEPT !.turn = IF snapshot[s] = NoSnapshot THEN @ ELSE Later(@, snapshot[s].turn)]

\* clearSessionCaches
Forget(s) ==
    /\ snapshot' = [snapshot EXCEPT ![s] = NoSnapshot] /\ presence' = [presence EXCEPT ![s] = Unknown]
    /\ loading' = loading \ {s} /\ attempted' = attempted \ {s} /\ unsure' = unsure \ {s}
    /\ removed' = removed \cup {s} /\ life' = [life EXCEPT ![s] = @ + 1]

Named(s, name) ==
    snapshot' = IF snapshot[s] = NoSnapshot THEN snapshot ELSE [snapshot EXCEPT ![s].name = name]

Complete(s, k) ==
    LET j == job[s][k]
    IN  /\ j.kind # "none" /\ ~j.refused /\ j.sent \subseteq j.got
        /\ j.kind = "title" => "rename" \in j.sent \/ ~Unnamed(s, j)

\* ensureGoalPresence goes on; its finally.
GoalLoaded(s, k) ==
    /\ k \in GoalLoads /\ job[s][k].kind # "none"
    /\ \/ /\ Complete(s, k) /\ StillValid(s, k)
          /\ presence' = [presence EXCEPT ![s] = Known(job[s][k])]
       \/ /\ job[s][k].refused \/ (Complete(s, k) /\ ~StillValid(s, k))
          /\ UNCHANGED presence
    /\ loading' = loading \ {s}
    /\ job' = [job EXCEPT ![s][k] = NoJob]
    /\ UNCHANGED <<thread, row, removed, life, snapshot, attempted, naming, unsure, lines, bounds>>

\* ensureForkSnapshots goes on.
ForkLoaded(s, k) ==
    /\ k \in ForkLoads /\ job[s][k].kind # "none"
    /\ \/ /\ Complete(s, k) /\ StillValid(s, k)
          /\ snapshot' = [snapshot EXCEPT ![s] = Loaded(s, job[s][k])]
       \/ /\ job[s][k].refused \/ (Complete(s, k) /\ ~StillValid(s, k))
          /\ UNCHANGED snapshot
    /\ job' = [job EXCEPT ![s][k] = NoJob]
    /\ UNCHANGED <<thread, row, removed, life, presence, loading, attempted, naming, unsure, lines, bounds>>

\* The operation under the lock ends well.
Done(s) ==
    LET j == job[s]["locked"]
    IN  /\ Complete(s, "locked")
        /\ \/ /\ j.kind = "read"
              /\ snapshot' = [snapshot EXCEPT ![s] = Merged(s, j)]
              /\ presence' = [presence EXCEPT ![s] = Known(j)]
              /\ UNCHANGED <<row, removed, life, loading, attempted, unsure>>
           \/ /\ j.kind \in {"rename", "title"}
              /\ Named(s, IF j.kind = "rename" THEN "user" ELSE IF "rename" \in j.got THEN "auto" ELSE j.name)
              /\ UNCHANGED <<row, removed, life, presence, loading, attempted, unsure>>
           \/ j.kind \in {"setGoal", "clearGoal"} /\ UNCHANGED <<row, caches>>
           \/ j.kind = "archive" /\ row' = row \ {s} /\ Forget(s)
        /\ job' = [job EXCEPT ![s]["locked"] = NoJob]
        /\ UNCHANGED <<thread, naming, lines, bounds>>

\* (The other requests of the operation are answered for nobody.)
Refused(s) ==
    /\ job[s]["locked"].refused /\ job[s]["locked"].asked = {}
    /\ \A i \in DOMAIN lines : lines[i].to = "locked" => lines[i].s # s
    /\ job' = [job EXCEPT ![s]["locked"] = NoJob]
    /\ UNCHANGED <<thread, row, caches, naming, lines, bounds>>

\* The connection is lost, with its output and the requests that were not served.
Lose ==
    /\ troubles < MaxTroubles /\ troubles' = troubles + 1
    /\ unsure' = unsure \cup {s \in Sessions : job[s]["locked"].kind = "archive" /\ ~Complete(s, "locked")}
    /\ job' = [s \in Sessions |-> [k \in Slots |->
          IF job[s][k].sent \subseteq job[s][k].got THEN job[s][k]
          ELSE IF k = "locked" THEN NoJob ELSE [job[s][k] EXCEPT !.asked = {}, !.refused = TRUE]]]
    /\ naming' = [s \in Sessions |-> IF naming[s] = "generating" THEN "idle" ELSE naming[s]]
    /\ lines' = <<>>
    /\ UNCHANGED <<thread, row, removed, life, snapshot, presence, loading, attempted, changes>>

\* recoverUncertainArchives, without the lock of the session (SessionFamilies has
\* its list apart from what follows from it).
RecoverArchive(s) ==
    /\ s \in unsure
    /\ IF thread[s].archived THEN row' = row \ {s} /\ Forget(s)
       ELSE unsure' = unsure \ {s} /\ UNCHANGED <<row, removed, life, snapshot, presence, loading, attempted>>
    /\ UNCHANGED <<thread, naming, job, lines, bounds>>

----
(* The App Server and the rest of the service *)

TurnChanges(s) ==
    /\ Change /\ ~thread[s].archived
    /\ LET next == [none |-> "runs", runs |-> "done", done |-> "done"][thread[s].turn]
       IN  /\ next # thread[s].turn
           /\ thread' = [thread EXCEPT ![s].turn = next] /\ lines' = Append(lines, Event(s, "turn", next))
    /\ UNCHANGED <<row, caches, naming, job>>

\* A Turn completes the Goal, or sets one.
GoalChanges(s) ==
    /\ Change /\ thread[s].turn = "runs" /\ ~thread[s].archived
    /\ \E goal \in {"yes", "no"} \ {thread[s].goal} :
          /\ thread' = [thread EXCEPT ![s].goal = goal] /\ lines' = Append(lines, Event(s, "goal", goal))
    /\ UNCHANGED <<row, caches, naming, job>>

\* The session is unarchived elsewhere, and a scan finds it again.
Returns(s) ==
    /\ Change /\ s \notin row
    /\ thread' = [thread EXCEPT ![s].archived = FALSE] /\ row' = row \cup {s}
    /\ UNCHANGED <<caches, naming, job, lines>>

Next ==
    \/ List \/ HandleLine \/ Lose
    \/ \E s \in Sessions :
        \/ \E kind \in Kinds : Begin(s, kind)
        \/ ApplyTitle(s) \/ Titled(s) \/ Done(s) \/ Refused(s) \/ RecoverArchive(s)
        \/ TurnChanges(s) \/ GoalChanges(s) \/ Returns(s)
        \/ RenameSent(s)
        \/ \E k \in Slots : GoalLoaded(s, k) \/ ForkLoaded(s, k)
                            \/ \E r \in job[s][k].asked : Serve(s, k, r)

Spec == Init /\ [][Next]_vars

----
\* Late loads and notifications revive nothing: the caches hold nothing of a
\* session that has gone, and of one that came back nothing that was read before it
\* went.
LateLoadsReviveNothing ==
    \A s \in Sessions :
        /\ s \notin row => snapshot[s] = NoSnapshot /\ presence[s] = Unknown
        /\ snapshot[s] # NoSnapshot => snapshot[s].life = life[s]
        /\ presence[s] # Unknown => presence[s].life = life[s]

\* An automatic title never takes the place of the name a user gave.
UserNameStaysStep ==
    \A s \in Sessions : thread[s].name = "user" => thread'[s].name # "auto"
UserNameStays == [][UserNameStaysStep]_vars

\* Demonstration: with nothing under way the list shows the Goal that is there.
GoalIsShown ==
    \A s \in Sessions :
        (lines = <<>> /\ \A k \in Slots : job[s][k] = NoJob) /\ s \in row /\ presence[s] # Unknown
        => presence[s].goal = thread[s].goal \/ troubles > 0
====
