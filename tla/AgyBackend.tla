---- MODULE AgyBackend ----
(*
Turns of one session on the agy command line (agy-adapter.ts,
agy-process.ts): a process for each Turn, in a group of its own with
the commands it started, which hold its output open after it exits.
Stopping it sends SIGINT to the process, after five seconds SIGTERM and
after one more SIGKILL to the group.
*)
EXTENDS Integers, Sequences

CONSTANTS
    MaxTurns,   \* bound: Turns of the session
    MaxCrashes  \* bound: times the service dies and is started again

VARIABLES
    turns,    \* stored statuses of the Turns, oldest first
    stopping, \* whether the user has stopped the live Turn
    proc,     \* the process of each Turn
    crashes

vars == <<turns, stopping, proc, crashes>>

Started == [main |-> TRUE, helper |-> FALSE, watched |-> TRUE, timer |-> "none",
            result |-> "none", failure |-> FALSE, exitOk |-> TRUE]

Turns == DOMAIN turns
Alive(t) == proc[t].main \/ proc[t].helper
\* The entry of `live`: the Turn whose process has not closed.
Live == {t \in Turns : turns[t] = "inProgress"}
----
(***************************************************************************)
(* AgyProcess. *)
(***************************************************************************)
\* stop(): SIGINT and the first timer, once.
Stop(p) == IF p.timer = "none" THEN [p EXCEPT !.timer = "force"] ELSE p

Fail(p) == Stop([p EXCEPT !.failure = TRUE])

Set(t, p) == proc' = [proc EXCEPT ![t] = p]

Watched(t) == t \in Turns /\ proc[t].watched

\* A line of output: a result, or one that cannot be read or belongs to
\* another conversation; nothing is read after a failure.
Says(t) ==
    /\ Watched(t) /\ proc[t].main /\ ~proc[t].failure
    /\ \/ \E r \in {"SUCCESS", "ERROR"} : Set(t, [proc[t] EXCEPT !.result = r])
       \/ Set(t, Fail(proc[t]))
    /\ UNCHANGED <<turns, stopping, crashes>>

ForceTimer(t) ==
    /\ Watched(t) /\ proc[t].timer = "force"
    /\ Set(t, [proc[t] EXCEPT !.timer = "kill", !.failure = TRUE])
    /\ UNCHANGED <<turns, stopping, crashes>>

KilledAlone(p) == [p EXCEPT !.main = FALSE, !.exitOk = FALSE]    \* mutant

\* SIGKILL to the group.
Killed(p) == [p EXCEPT !.main = FALSE, !.helper = FALSE,
                       !.exitOk = (@ /\ ~p.main)]

KillTimer(t) ==
    /\ Watched(t) /\ proc[t].timer = "kill"
    /\ Set(t, [Killed(proc[t]) EXCEPT !.timer = "spent"])
    /\ UNCHANGED <<turns, stopping, crashes>>

ClosedOnExit(p) == ~p.main                                      \* mutant

\* "close" comes when the process is gone and its output has closed.
Closed(p) == ~p.main /\ ~p.helper

\* AgyAdapter's listener: how the Turn ended.
Outcome(p) ==
    IF stopping /\ ~p.failure /\ p.result # "SUCCESS" THEN "interrupted"
    ELSE IF ~p.failure /\ p.exitOk /\ p.result = "SUCCESS" THEN "completed"
    ELSE "failed"

Finishes(t) ==
    /\ Watched(t) /\ Closed(proc[t]) /\ turns[t] = "inProgress"
    /\ turns' = [turns EXCEPT ![t] = Outcome(proc[t])]
    /\ Set(t, [proc[t] EXCEPT !.timer = "spent"])
    /\ stopping' = FALSE
    /\ UNCHANGED crashes
----
(***************************************************************************)
(* AgyAdapter. *)
(***************************************************************************)
\* startTurn: refused while a Turn is live; the command may fail to start.
StartTurn ==
    /\ Live = {}
    /\ Len(turns) < MaxTurns
    /\ turns' = Append(turns, "inProgress")
    /\ \E p \in {Started, [Fail(Started) EXCEPT !.main = FALSE]} :
           proc' = Append(proc, p)
    /\ UNCHANGED <<stopping, crashes>>

InterruptTurn ==
    /\ \E t \in Live : Set(t, Stop(proc[t]))
    /\ stopping' = TRUE
    /\ UNCHANGED <<turns, crashes>>

\* The service dies; its constructor calls the stored Turn interrupted.  The
\* process, in a group of its own, may live on with no one watching it.
Crash ==
    /\ crashes < MaxCrashes
    /\ crashes' = crashes + 1
    /\ turns' = [t \in Turns |-> IF turns[t] = "inProgress" THEN "interrupted"
                                 ELSE turns[t]]
    /\ proc' = [t \in Turns |-> [proc[t] EXCEPT !.watched = FALSE]]
    /\ stopping' = FALSE
----
(***************************************************************************)
(* agy itself: it need obey no signal but SIGKILL. *)
(***************************************************************************)
Exits(t) ==
    /\ t \in Turns /\ proc[t].main
    /\ \E ok \in BOOLEAN : Set(t, [proc[t] EXCEPT !.main = FALSE, !.exitOk = ok])
    /\ UNCHANGED <<turns, stopping, crashes>>

Runs(t) ==
    /\ t \in Turns /\ (proc[t].main \/ proc[t].helper)
    /\ Set(t, [proc[t] EXCEPT !.helper = ~@])
    /\ UNCHANGED <<turns, stopping, crashes>>

Init == turns = <<>> /\ stopping = FALSE /\ proc = <<>> /\ crashes = 0

Process(t) == Says(t) \/ ForceTimer(t) \/ KillTimer(t) \/ Finishes(t)

Next == \/ StartTurn \/ InterruptTurn \/ Crash
        \/ \E t \in 1..MaxTurns : Process(t) \/ Exits(t) \/ Runs(t)

\* Timers fire and Node reports what ended; agy owes nothing.
Fairness == \A t \in 1..MaxTurns :
    WF_vars(ForceTimer(t)) /\ WF_vars(KillTimer(t)) /\ WF_vars(Finishes(t))

Spec == Init /\ [][Next]_vars /\ Fairness
----
\* Once a Turn is over nothing it started can still write to the workspace,
\* so the next Turn never runs beside it (agy-adapter.ts 104, 116; README 117:
\* the CLI has ended before the next Turn may start).
OneAtATime == \A t \in Turns : Alive(t) => turns[t] = "inProgress"

\* A Turn that is stopped, by the user or by a failure, ends, even if the
\* process ignores signals and its commands keep its output open
\* (agy-process.ts 69-84).
StopsEnd ==
    []<>(\A t \in Turns : proc[t].timer # "none" => turns[t] # "inProgress")
====
