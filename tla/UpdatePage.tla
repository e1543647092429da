---- MODULE UpdatePage ----
(*
A page that waits while the server replaces itself: the monitor of an
update, which outlives the settings it was started from and, by a mark
in the session storage, the page (SelfUpdateControl.tsx), and the watch
of a plain restart (ServiceRestartDialog.tsx).  Each process makes a
session token of its own, so that a new one refuses the old cookie.

SelfUpdate has the update itself; here it runs, restarts and ends.
*)
EXTENDS Naturals

CONSTANTS
    MaxRuns,     \* bound: updates
    MaxInstances,\* bound: processes of the server
    MaxLost,     \* bound: answers lost while the server is up
    Polls        \* polls that may be under way at once

VARIABLES
    server,      \* up, which process it is
    update,      \* run, state: what the status says
    restart,     \* ServiceRestartManager.state
    password,    \* is a password required
    uses,        \* what the user of this page does: update, restart
    cookie,      \* the process whose cookie the browser has
    page,        \* born: of which process; mounted: is the control; known: its status
    mark,        \* ACTIVE_UPDATE_RUN_KEY, 0 for none
    monitor,     \* the run that updateReloadMonitor polls for, 0 for none
    load,        \* polls of the monitor and looks of the control
    asked,       \* POST /api/system/update
    dialog,      \* ServiceRestartDialog: known, watching, error, its POST and poll
    reloaded,    \* runs for which a page reloaded itself
    own,         \* runs whose start was answered to this page
    excused,     \* own runs that a late answer or the half hour took from the page
    waits,       \* the process the user had restarted, 0 if the page gave up waiting
    lost

vars == <<server, update, restart, password, uses, cookie, page, mark, monitor, load, asked,
          dialog, reloaded, own, excused, waits, lost>>
service == <<server, update, restart, password, uses>>
ghosts == <<reloaded, own, excused>>

Loads == Polls \cup {"look"}
Unknown == [run |-> 0, state |-> "none"]
NoLoad == [kind |-> "none", run |-> 0, got |-> "none", status |-> Unknown]
NotAsked == [at |-> "none", run |-> 0]
Closed == [known |-> 0, watching |-> 0, error |-> FALSE, post |-> "none", poll |-> "none"]
NewPage == [born |-> server.id, mounted |-> FALSE, known |-> Unknown]

Init ==
    /\ server = [up |-> TRUE, id |-> 1] /\ update = [run |-> 0, state |-> "idle"]
    /\ restart = "idle" /\ password \in BOOLEAN /\ cookie = 1
    /\ uses \in {"update", "restart"}
    /\ page = NewPage /\ mark = 0 /\ monitor = 0
    /\ load = [i \in Loads |-> NoLoad] /\ asked = NotAsked /\ dialog = Closed
    /\ reloaded = {} /\ own = {} /\ excused = {} /\ waits = 0 /\ lost = 0

Results == {"succeeded", "failed", "upToDate"}
Updating == update.state \in {"running", "restarting"}
Lose == lost < MaxLost /\ lost' = lost + 1

----
(* The server *)

UpdateGoesOn ==
    /\ server.up
    /\ \/ update.state = "running" /\ \E s \in {"failed", "upToDate", "restarting"} :
            update' = [update EXCEPT !.state = s]
       \/ update.state = "restarting" /\ update' = [update EXCEPT !.state = "failed"]
    /\ UNCHANGED <<server, restart, password, uses, cookie, page, mark, monitor, load, asked,
                   dialog, ghosts, waits, lost>>

\* Another page starts an update.
OtherUpdate ==
    /\ server.up /\ ~Updating /\ restart # "restarting" /\ update.run < MaxRuns
    /\ update' = [run |-> update.run + 1, state |-> "running"]
    /\ UNCHANGED <<server, restart, password, uses, cookie, page, mark, monitor, load, asked,
                   dialog, ghosts, waits, lost>>

\* The command could not be started, or thirty seconds have passed.
RestartFails ==
    /\ server.up /\ restart = "restarting" /\ restart' = "failed"
    /\ UNCHANGED <<server, update, password, uses, cookie, page, mark, monitor, load, asked,
                   dialog, ghosts, waits, lost>>

Stops ==
    /\ server.up /\ server.id < MaxInstances
    /\ update.state = "restarting" \/ restart = "restarting"
    /\ server' = [server EXCEPT !.up = FALSE]
    /\ UNCHANGED <<update, restart, password, uses, cookie, page, mark, monitor, load, asked,
                   dialog, ghosts, waits, lost>>

Boots ==
    /\ ~server.up /\ server' = [up |-> TRUE, id |-> server.id + 1] /\ restart' = "idle"
    /\ \/ Updating /\ \E s \in {"succeeded", "failed"} : update' = [update EXCEPT !.state = s]
       \/ ~Updating /\ UNCHANGED update
    /\ UNCHANGED <<password, uses, cookie, page, mark, monitor, load, asked, dialog, ghosts, waits, lost>>

\* Another tab has logged in, or bootstrapped.
OtherTab ==
    /\ server.up /\ cookie # server.id /\ cookie' = server.id
    /\ UNCHANGED <<service, page, mark, monitor, load, asked, dialog, ghosts, waits, lost>>

----
(* The page *)

\* mutant: the mark is left for the page that comes.
MarkLeft(removeMarker) == UNCHANGED mark
Unmark(removeMarker) == IF removeMarker THEN mark' = 0 ELSE UNCHANGED mark
\* stopUpdateReloadMonitor
Stop(removeMarker) == monitor' = 0 /\ Unmark(removeMarker)

Begin(run) == mark' = run /\ monitor' = run

\* window.location.reload(): what the page had under way is gone with it.
Leaves ==
    /\ page' = [page EXCEPT !.born = 0, !.mounted = FALSE, !.known = Unknown]
    /\ load' = [i \in Loads |-> NoLoad] /\ asked' = NotAsked /\ dialog' = Closed

\* A page that was left is loaded when the server is there, and logs in.
PageLoads ==
    /\ page.born = 0 /\ server.up
    /\ page' = NewPage /\ cookie' = server.id /\ waits' = 0
    /\ UNCHANGED <<service, mark, monitor, load, asked, dialog, ghosts, lost>>

UserReload ==
    /\ page.born # 0 /\ lost < MaxLost /\ lost' = lost + 1
    /\ Leaves /\ monitor' = 0
    /\ UNCHANGED <<service, cookie, mark, ghosts, waits>>

\* The effect on [status.runId, status.state], the control being mounted.
Effect(known) ==
    IF mark # 0 /\ mark = known.run /\ known.state = "succeeded"
    THEN Stop(TRUE) /\ Leaves /\ reloaded' = reloaded \cup {mark}
    ELSE /\ IF mark # 0 /\ mark = known.run /\ known.state \in {"failed", "upToDate"}
            THEN Stop(TRUE) ELSE UNCHANGED <<mark, monitor>>
         /\ UNCHANGED <<asked, dialog, reloaded>>
         /\ page' = [page EXCEPT !.known = known, !.mounted = TRUE]

\* The settings are opened: a mark that is there is polled for again, and the
\* status that is known is looked at.
Mount ==
    /\ uses = "update" /\ page.born # 0 /\ ~page.mounted
    /\ IF mark # 0 /\ mark = page.known.run /\ page.known.state \in Results
       THEN Effect(page.known) /\ (page'.born # 0 => UNCHANGED load)
       ELSE /\ page' = [page EXCEPT !.mounted = TRUE] /\ monitor' = mark
            /\ UNCHANGED <<mark, load, asked, dialog, reloaded>>
    /\ UNCHANGED <<service, cookie, own, excused, waits, lost>>
Unmount ==
    /\ page.mounted /\ page' = [page EXCEPT !.mounted = FALSE]
    /\ UNCHANGED <<service, cookie, mark, monitor, load, asked, dialog, ghosts, waits, lost>>

Free(i) == load[i].kind = "none"
\* setInterval, and the query of the mounted control.
Tick(i) ==
    /\ page.born # 0 /\ Free(i) /\ monitor # 0
    /\ load' = [load EXCEPT ![i] = [NoLoad EXCEPT !.kind = "poll", !.run = monitor]]
    /\ UNCHANGED <<service, cookie, page, mark, monitor, asked, dialog, ghosts, waits, lost>>
Look ==
    /\ page.mounted /\ Free("look")
    /\ load' = [load EXCEPT !["look"] = [NoLoad EXCEPT !.kind = "look"]]
    /\ UNCHANGED <<service, cookie, page, mark, monitor, asked, dialog, ghosts, waits, lost>>

\* fetch: a poll shows its cookie, and looks at the result of its run only; api() of a look has bootstrap renew it, which a
\* password does not let it.
Serve(i) ==
    /\ load[i].kind # "none" /\ load[i].got = "none"
    /\ IF ~server.up THEN load' = [load EXCEPT ![i] = NoLoad] /\ UNCHANGED cookie
       ELSE IF cookie # server.id /\ (load[i].kind = "poll" \/ password)
       THEN load' = [load EXCEPT ![i].got = "refused"] /\ UNCHANGED cookie
       ELSE IF load[i].kind = "poll" /\ ~(update.run = load[i].run /\ update.state \in Results)
       THEN load' = [load EXCEPT ![i] = NoLoad] /\ UNCHANGED cookie
       ELSE /\ load' = [load EXCEPT ![i].got = "status", ![i].status = update]
            /\ cookie' = server.id
    /\ UNCHANGED <<service, page, mark, monitor, asked, dialog, ghosts, waits, lost>>

\* A stale answer ends the monitor of the run that came after.
Excuses(l) == IF mark # l.run THEN excused' = excused \cup {mark} ELSE UNCHANGED excused

PollArrives(i) ==
    LET l == load[i]
    IN  /\ l.got # "none"
        /\ IF l.got = "refused" \/ l.status.state = "succeeded"
           THEN /\ Stop(TRUE) /\ Leaves
                /\ reloaded' = reloaded \cup {l.run} /\ Excuses(l)
           ELSE /\ load' = [load EXCEPT ![i] = NoLoad]
                /\ Stop(TRUE) /\ Excuses(l)
                /\ UNCHANGED <<page, asked, dialog, reloaded>>
        /\ UNCHANGED <<service, cookie, own, waits, lost>>

LookArrives ==
    LET l == load["look"]
    IN  /\ l.got # "none"
        /\ IF l.got = "refused"
           THEN IF page.mounted /\ mark # 0
                THEN Stop(TRUE) /\ Leaves /\ reloaded' = reloaded \cup {mark}
                ELSE /\ load' = [load EXCEPT !["look"] = NoLoad]
                     /\ UNCHANGED <<page, mark, monitor, asked, dialog, reloaded>>
           ELSE IF page.mounted THEN
                /\ Effect(l.status)
                /\ page'.born # 0 => load' = [load EXCEPT !["look"] = NoLoad]
           ELSE /\ page' = [page EXCEPT !.known = l.status]
                /\ load' = [load EXCEPT !["look"] = NoLoad]
                /\ UNCHANGED <<mark, monitor, asked, dialog, reloaded>>
        /\ UNCHANGED <<service, cookie, own, excused, waits, lost>>

\* Thirty minutes.
GiveUp ==
    /\ page.born # 0 /\ monitor # 0 /\ Lose /\ Stop(TRUE) /\ excused' = excused \cup {mark}
    /\ UNCHANGED <<service, cookie, page, load, asked, dialog, reloaded, own, waits>>

\* "Check and update"
StartUpdate ==
    /\ page.mounted /\ asked = NotAsked /\ page.known.state \notin {"none", "running", "restarting"}
    /\ asked' = [at |-> "sent", run |-> 0]
    /\ UNCHANGED <<service, cookie, page, mark, monitor, load, dialog, ghosts, waits, lost>>
ServeUpdate ==
    /\ asked.at = "sent"
    /\ IF server.up /\ cookie = server.id /\ ~Updating /\ restart # "restarting" /\ update.run < MaxRuns
       THEN /\ asked' = [at |-> "accepted", run |-> update.run + 1]
            /\ update' = [run |-> update.run + 1, state |-> "running"]
       ELSE asked' = [asked EXCEPT !.at = "refused"] /\ UNCHANGED update
    /\ UNCHANGED <<server, restart, password, uses, cookie, page, mark, monitor, load, dialog, ghosts, waits, lost>>
\* mutant: no mark is set.
BeginsNot(run) == UNCHANGED <<mark, monitor>>
Begins(run) == Begin(run)
UpdateAnswered ==
    /\ \/ /\ asked.at = "accepted" /\ UNCHANGED lost
          /\ Begins(asked.run) /\ own' = own \cup {asked.run}
       \/ asked.at = "accepted" /\ Lose /\ UNCHANGED <<mark, monitor, own>>
       \/ asked.at = "refused" /\ UNCHANGED <<mark, monitor, own, lost>>
    /\ asked' = NotAsked
    /\ UNCHANGED <<service, cookie, page, load, dialog, reloaded, excused, waits>>

----
(* The restart dialog *)

Rests == <<service, page, mark, monitor, load, asked, ghosts>>
Sets(d) == dialog' = d

\* The status the open dialog has.
Knows ==
    /\ uses = "restart" /\ page.born # 0 /\ server.up /\ dialog.known # server.id
    /\ (cookie = server.id \/ ~password)
    /\ Sets([dialog EXCEPT !.known = server.id]) /\ cookie' = server.id
    /\ UNCHANGED <<Rests, waits, lost>>
AskRestart ==
    /\ page.born # 0 /\ dialog.known # 0 /\ dialog.post = "none" /\ dialog.watching = 0
    /\ Sets([dialog EXCEPT !.post = "sent", !.error = FALSE])
    /\ UNCHANGED <<Rests, cookie, waits, lost>>
ServeRestart ==
    /\ dialog.post = "sent"
    /\ IF ~server.up
       THEN Sets([dialog EXCEPT !.post = "lost"]) /\ UNCHANGED <<restart, waits>>
       ELSE IF cookie = server.id /\ ~Updating /\ restart # "restarting"
       THEN /\ restart' = "restarting" /\ Sets([dialog EXCEPT !.post = "accepted"])
            /\ waits' = server.id
       ELSE Sets([dialog EXCEPT !.post = "refused"]) /\ UNCHANGED <<restart, waits>>
    /\ UNCHANGED <<server, update, password, uses, cookie, page, mark, monitor, load, asked, ghosts, lost>>

\* mutant: an answer that was lost is a refusal.
WatchesAnswered(d, how) == IF how = "accepted" THEN d.known ELSE 0
\* The process that accepted; if the answer was lost, the one the dialog knew.
Watches(d, how) ==
    CASE how = "accepted" -> waits [] how = "lost" -> d.known [] OTHER -> 0
RestartAnswered ==
    /\ dialog.post \in {"accepted", "refused", "lost"}
    /\ \/ /\ UNCHANGED lost
          /\ Sets([dialog EXCEPT !.post = "none", !.watching = Watches(dialog, dialog.post),
                                 !.error = dialog.post = "refused"])
       \/ /\ dialog.post = "accepted" /\ Lose
          /\ Sets([dialog EXCEPT !.post = "none", !.watching = Watches(dialog, "lost")])
    /\ UNCHANGED <<Rests, cookie, waits>>

WatchPoll ==
    /\ dialog.watching # 0 /\ dialog.poll = "none"
    /\ Sets([dialog EXCEPT !.poll =
          IF ~server.up THEN "none"
          ELSE IF server.id # dialog.watching THEN "other"
          ELSE IF restart = "failed" THEN "failed" ELSE "same"])
    /\ UNCHANGED <<Rests, cookie, waits, lost>>
\* A new process refuses the cookie or names itself: the page is loaded again.
WatchArrives ==
    /\ dialog.poll # "none"
    /\ IF dialog.poll = "other"
       THEN Leaves /\ monitor' = 0 /\ UNCHANGED waits
       ELSE /\ Sets([dialog EXCEPT !.poll = "none", !.error = dialog.poll = "failed",
                        !.watching = IF dialog.poll = "failed" THEN 0 ELSE @])
            /\ waits' = IF dialog.poll = "failed" THEN 0 ELSE waits
            /\ UNCHANGED <<page, load, asked, monitor>>
    /\ UNCHANGED <<service, cookie, mark, ghosts, lost>>
\* Sixty seconds.
Deadline ==
    /\ dialog.watching # 0 /\ Lose
    /\ Sets([dialog EXCEPT !.watching = 0, !.poll = "none", !.error = TRUE]) /\ waits' = 0
    /\ UNCHANGED <<Rests, cookie>>

Next ==
    \/ UpdateGoesOn \/ OtherUpdate \/ RestartFails \/ Stops \/ Boots \/ OtherTab
    \/ PageLoads \/ UserReload \/ Mount \/ Unmount \/ GiveUp
    \/ \E i \in Polls : Tick(i) \/ PollArrives(i)
    \/ Look \/ LookArrives \/ \E i \in Loads : Serve(i)
    \/ StartUpdate \/ ServeUpdate \/ UpdateAnswered
    \/ Knows \/ AskRestart \/ ServeRestart \/ RestartAnswered
    \/ WatchPoll \/ WatchArrives \/ Deadline

Spec == Init /\ [][Next]_vars

----
TypeOK ==
    /\ server.id \in 1..MaxInstances /\ update.run \in 0..MaxRuns
    /\ mark \in 0..MaxRuns /\ monitor \in {0, mark}
    /\ dialog.watching \in 0..MaxInstances

\* A page reloads itself for an update once, whatever the polls, the looks and
\* the pages after it still read of it.
ReloadsOnce == mark # 0 => mark \notin reloaded

\* A run of this page is followed until it has failed or the page was loaded
\* again for it, unless a late answer about an earlier run or the half hour
\* took the monitor away.
RunIsFollowed ==
    \A run \in own \ (reloaded \cup excused) :
        update.run = run /\ update.state \notin {"failed", "upToDate"} => mark = run

\* A restart that was accepted is waited for, also when its answer was lost:
\* the page sees the new process or says that it does not, unless the dialog
\* had heard of the new process before the page heard of the loss.
RestartIsSeen ==
    waits # 0 /\ waits # server.id /\ page.born # 0 =>
        \/ dialog.post # "none" \/ dialog.watching = waits
        \/ dialog.watching = dialog.known /\ dialog.known # waits
====
