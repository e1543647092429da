---- MODULE SelfUpdate ----
(*
The server replaces itself: self-update.ts fetches the branch, tries the
new commit in a worktree of its own, fast-forwards the checkout it runs
from, builds there and has itself restarted; service-restart.ts only
restarts.  The phase is written to a file, read back by the next start.
Around them the gates of server.ts and the Turns they are to spare.

Commits are 1, 2, ... on one branch, each a fast-forward of the one
before; 0 is no commit.  A command of git, npm or the shell succeeds or
fails; a Turn is a Boolean.
*)
EXTENDS Naturals

CONSTANT
    MaxCommits      \* bound on the commits of the remote branch

VARIABLES
    status,     \* the status in memory: state, step and targetCommit
    saved,      \* self-update.json
    task,       \* activeTask: where it is, and what it remembers
    repo,       \* remote branch, HEAD, the commit the checkout is built for
    server,     \* is the process up, and which commit it was loaded from
    restart,    \* ServiceRestartManager.state, and has its launch timer fired
    command,    \* a restart command was launched and has not done its work
    turn        \* asked: a request passed the gates; live: a Turn runs

vars == <<status, saved, task, repo, server, restart, command, turn>>

----
(* Statuses and gates. *)

Idle == [state |-> "idle", step |-> "idle", target |-> 0]
NoTask == [at |-> "none", from |-> 0, target |-> 0, retry |-> 0, forward |-> FALSE]

Updating == status.state \in {"running", "restarting"}
Restarting == restart.state = "restarting"
Blocking == turn.live

\* The onRequest hook lets a POST pass.
Open == server.up /\ ~Restarting /\ ~Updating

\* start(): the commit whose deployment failed after the merge, to be resumed.
Resumable ==
    IF status.state = "failed" /\ status.step \in {"deploying", "restarting"} THEN status.target ELSE 0

\* mutant: a merged commit passes for a deployed one.
ResumedByHead(was, head) ==
    IF was.state \in {"running", "restarting"}
    THEN [was EXCEPT !.state = IF was.target = head THEN "succeeded" ELSE "failed"]
    ELSE was

\* initialize(): what the file said when the last process ended.
Resumed(was, head) ==
    IF was.state = "restarting" /\ was.target = head
    THEN [was EXCEPT !.state = "succeeded", !.step = "complete"]
    ELSE IF was.state \in {"running", "restarting"}
         THEN [was EXCEPT !.state = "failed"]
         ELSE was

----
(* The update task.  Patching the status changes it in memory; the file has *)
(* it when the task goes on. *)

At(place) == server.up /\ task.at = place
Goto(place) == task' = [task EXCEPT !.at = place]
Patch(state, step) == status' = [status EXCEPT !.state = state, !.step = step]
Save == saved' = status

\* POST /api/system/update
Start ==
    /\ server.up /\ ~Restarting /\ ~Blocking
    /\ task.at = "none" /\ ~Updating
    /\ status' = [state |-> "running", step |-> "checking", target |-> 0]
    /\ task' = [NoTask EXCEPT !.at = "checking", !.retry = Resumable]
    /\ UNCHANGED <<saved, repo, server, restart, command, turn>>

\* Any command that fails, and any check that refuses, ends the task.
Fails ==
    /\ server.up /\ task.at \notin {"none", "ending"}
    /\ Save
    /\ Patch("failed", status.step)
    /\ Goto("ending")
    /\ UNCHANGED <<repo, server, restart, command, turn>>

Ends ==
    /\ At("ending")
    /\ Save
    /\ task' = NoTask
    /\ UNCHANGED <<status, repo, server, restart, command, turn>>

Fetch ==
    /\ At("checking")
    /\ Save
    /\ status' = [status EXCEPT !.target = repo.remote]
    /\ task' = [task EXCEPT !.at = "fetched", !.from = repo.head, !.target = repo.remote]
    /\ UNCHANGED <<repo, server, restart, command, turn>>

NothingNew ==
    /\ At("fetched") /\ task.from = task.target
    /\ Save
    /\ IF task.retry = task.target
       THEN Goto("safe") /\ UNCHANGED status
       ELSE Goto("ending") /\ Patch("upToDate", "complete")
    /\ UNCHANGED <<repo, server, restart, command, turn>>

\* A worktree of its own: npm ci, then check, test and build, then it is removed.
Install ==
    /\ At("fetched") /\ task.from < task.target
    /\ Save
    /\ Patch("running", "installing") /\ Goto("installing")
    /\ UNCHANGED <<repo, server, restart, command, turn>>

Validate ==
    /\ At("installing")
    /\ Save
    /\ Patch("running", "validating") /\ Goto("validating")
    /\ UNCHANGED <<repo, server, restart, command, turn>>

\* The checkout must be as it was when the update began.
Validated ==
    /\ At("validating") /\ repo.head = task.from
    /\ Save
    /\ task' = [task EXCEPT !.at = "safe", !.forward = TRUE]
    /\ UNCHANGED <<status, repo, server, restart, command, turn>>

Deploy ==
    /\ At("safe") /\ ~Blocking
    /\ Patch("running", "deploying") /\ Goto("deploying")
    /\ UNCHANGED <<saved, repo, server, restart, command, turn>>

Merge ==
    /\ At("deploying")
    /\ Save
    /\ repo' = [repo EXCEPT !.head = IF task.forward /\ @ < task.target THEN task.target ELSE @]
    /\ Goto("merged")
    /\ UNCHANGED <<status, server, restart, command, turn>>

\* npm ci and the build begin by removing what was there.
Rebuild ==
    /\ At("merged")
    /\ repo' = [repo EXCEPT !.built = 0]
    /\ Goto("building")
    /\ UNCHANGED <<status, saved, server, restart, command, turn>>

Built ==
    /\ At("building")
    /\ repo' = [repo EXCEPT !.built = repo.head]
    /\ Patch("restarting", "restarting") /\ Goto("launching")
    /\ UNCHANGED <<saved, server, restart, command, turn>>

\* Nothing waits for the command: it is to end this process.
Launch ==
    /\ At("launching")
    /\ Save
    /\ task' = NoTask
    /\ command' = TRUE
    /\ UNCHANGED <<status, repo, server, restart, turn>>

----
(* ServiceRestartManager. *)

\* POST /api/system/restart, with assertSafe.
RestartAsked ==
    /\ Open /\ ~Blocking
    /\ restart' = [state |-> "restarting", timer |-> TRUE]
    /\ UNCHANGED <<status, saved, task, repo, server, command, turn>>

\* Half a second later, with assertSafe again.
RestartLaunched ==
    /\ server.up /\ restart.timer
    /\ \/ /\ ~Updating /\ ~Blocking
          /\ restart' = [restart EXCEPT !.timer = FALSE]
          /\ command' = TRUE
       \/ restart' = [state |-> "failed", timer |-> FALSE] /\ UNCHANGED command
    /\ UNCHANGED <<status, saved, task, repo, server, turn>>

\* Thirty seconds later this process is still here.
RestartTimesOut ==
    /\ server.up /\ Restarting /\ ~restart.timer
    /\ restart' = [restart EXCEPT !.state = "failed"]
    /\ UNCHANGED <<status, saved, task, repo, server, command, turn>>

----
(* The world around: the process, the repository, the Turns. *)

Down ==
    /\ server' = [server EXCEPT !.up = FALSE]
    /\ task' = NoTask
    /\ status' = Idle
    /\ restart' = [state |-> "idle", timer |-> FALSE]
    /\ turn' = [asked |-> FALSE, live |-> FALSE]

\* The restart command stops the service.
CommandStops ==
    /\ command
    /\ command' = FALSE
    /\ IF server.up THEN Down ELSE UNCHANGED <<server, task, status, restart, turn>>
    /\ UNCHANGED <<saved, repo>>

\* A crash, or a stop by hand, in any phase.
Crash ==
    /\ server.up
    /\ Down
    /\ UNCHANGED <<saved, repo, command>>

\* A checkout torn in the middle of a build cannot be started.
Boot ==
    /\ ~server.up /\ repo.built # 0
    /\ server' = [up |-> TRUE, loaded |-> repo.built]
    /\ status' = Resumed(saved, repo.head)
    /\ saved' = status'
    /\ UNCHANGED <<task, repo, restart, command, turn>>

\* Somebody installs and builds by hand what does not start.
Repair ==
    /\ ~server.up /\ repo.built = 0
    /\ repo' = [repo EXCEPT !.built = repo.head]
    /\ UNCHANGED <<status, saved, task, server, restart, command, turn>>

Push ==
    /\ repo.remote < MaxCommits
    /\ repo' = [repo EXCEPT !.remote = @ + 1]
    /\ UNCHANGED <<status, saved, task, server, restart, command, turn>>

\* A POST that starts a Turn passes the hook, and starts it some time later.
TurnAsked ==
    /\ Open /\ ~turn.asked
    /\ turn' = [turn EXCEPT !.asked = TRUE]
    /\ UNCHANGED <<status, saved, task, repo, server, restart, command>>

TurnStarts ==
    /\ server.up /\ turn.asked
    /\ turn' = [asked |-> FALSE, live |-> TRUE]
    /\ UNCHANGED <<status, saved, task, repo, server, restart, command>>

\* The prompt scheduler asks no hook, only whether the service restarts.
ScheduledTurn ==
    /\ server.up /\ ~Restarting
    /\ turn' = [turn EXCEPT !.live = TRUE]
    /\ UNCHANGED <<status, saved, task, repo, server, restart, command>>

TurnEnds ==
    /\ turn.live
    /\ turn' = [turn EXCEPT !.live = FALSE]
    /\ UNCHANGED <<status, saved, task, repo, server, restart, command>>

----
Init ==
    /\ status = Idle /\ saved = Idle /\ task = NoTask
    /\ repo = [remote |-> 1, head |-> 1, built |-> 1]
    /\ server = [up |-> TRUE, loaded |-> 1]
    /\ restart = [state |-> "idle", timer |-> FALSE]
    /\ command = FALSE
    /\ turn = [asked |-> FALSE, live |-> FALSE]

Task ==
    \/ Fails \/ Ends \/ Fetch \/ NothingNew \/ Install \/ Validate \/ Validated
    \/ Deploy \/ Merge \/ Rebuild \/ Built \/ Launch

Next ==
    \/ Start \/ Task
    \/ RestartAsked \/ RestartLaunched \/ RestartTimesOut
    \/ CommandStops \/ Crash \/ Boot \/ Repair \/ Push
    \/ TurnAsked \/ TurnStarts \/ ScheduledTurn \/ TurnEnds

\* Commands end, timers fire, and a service that is down is started again, by
\* hand if it must be built first.  That the restart command really stops the
\* process is its configuration's promise; nothing here makes it.
Fairness ==
    /\ WF_vars(Task)
    /\ WF_vars(RestartLaunched) /\ WF_vars(RestartTimesOut)
    /\ WF_vars(CommandStops) /\ WF_vars(Boot) /\ WF_vars(Repair)

Spec == Init /\ [][Next]_vars /\ Fairness

----
\* An update that reports success has been built, and the process that reports it
\* was loaded from that build; whichever phases were cut short before.
SucceededIsLoaded ==
    server.up /\ status.state = "succeeded" => server.loaded = status.target

\* "Already up to date" means that the process, once started again, runs the
\* newest commit (self-update.ts:304).
UpToDateIsBuilt ==
    server.up /\ status.state = "upToDate" => repo.built = repo.head

\* A restart spares running Turns: README.md:160, :162.
RestartSparesTurns ==
    [][CommandStops /\ server.up => ~turn.live]_vars

\* Whatever phase a process was stopped in, the writes it refused are accepted
\* again some day.
WritesReturn == []<>Open
====
