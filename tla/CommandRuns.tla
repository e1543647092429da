---- MODULE CommandRuns ----
(*
A command of an update (runProcess of self-update): the process that is
started, what it starts in its process group, the pipes all of them may
hold, and two timers.  The result is that of the first of: the pipes
closed, an error, the end of the grace after the time limit.  A kill
takes effect after a while.
*)
EXTENDS Naturals, FiniteSets

CONSTANT Descendants

VARIABLES
    up,          \* the processes that run, "npm" the one that was started
    deaf,        \* processes that do not end on SIGTERM
    holders,     \* processes that hold a pipe
    signalled,   \* per signal, processes that have still to take it
    code,        \* what "npm" ended with: "none" while it runs, "killed" by a signal
    reading,     \* the pipes are not destroyed
    timer,       \* "limit", "grace", or "none" is armed
    timedOut,
    result       \* "none", "resolved", "failed" or "timedOut"

vars == <<up, deaf, holders, signalled, code, reading, timer, timedOut, result>>

Processes == Descendants \cup {"npm"}
Signals == {"TERM", "KILL"}

Init ==
    /\ up = {"npm"} /\ holders = {"npm"} /\ deaf \in SUBSET {"npm"}
    /\ signalled = [s \in Signals |-> {}] /\ code = "none" /\ reading = TRUE
    /\ timer = "limit" /\ timedOut = FALSE /\ result = "none"

\* settle: the first result counts, and no timer goes on.
Settled(r) == IF result = "none" THEN result' = r /\ timer' = "none" ELSE UNCHANGED <<result, timer>>

\* A child is given the pipes that its parent holds.
StartsChild(d) ==
    /\ up \ signalled["KILL"] # {} /\ d \notin up /\ up' = up \cup {d}
    /\ holders' = IF holders \ signalled["KILL"] # {} THEN holders \cup {d} ELSE holders
    /\ \E ignores \in SUBSET {d} : deaf' = (deaf \ {d}) \cup ignores
    /\ UNCHANGED <<signalled, code, reading, timer, timedOut, result>>
\* It closes them and goes on (a daemon).
Detach(d) ==
    /\ d \in up \cap Descendants \cap holders /\ holders' = holders \ {d}
    /\ UNCHANGED <<up, deaf, signalled, code, reading, timer, timedOut, result>>

Ends(p, how) ==
    /\ up' = up \ {p} /\ holders' = holders \ {p} /\ code' = IF p = "npm" THEN how ELSE code
    /\ signalled' = [s \in Signals |-> signalled[s] \ {p}]
    /\ UNCHANGED <<deaf, reading, timer, timedOut, result>>
Exits(p) == p \in up /\ \E how \in {"zero", "other"} : Ends(p, how)
TakesSignal(p) ==
    \/ p \in signalled["KILL"] /\ Ends(p, "killed")
    \/ p \in signalled["TERM"] \ deaf /\ \E how \in {"zero", "other", "killed"} : Ends(p, how)
    \/ /\ p \in signalled["TERM"] \cap deaf /\ signalled' = [signalled EXCEPT !["TERM"] = @ \ {p}]
       /\ UNCHANGED <<up, deaf, holders, code, reading, timer, timedOut, result>>

\* mutant: only the process that was started.
SignalledOne == up \cap {"npm"}
\* signalProcessTree: the group, for as long as one of it runs.
SignalledTree == up

TimeLimit ==
    /\ timer = "limit" /\ timer' = "grace" /\ timedOut' = TRUE
    /\ signalled' = [signalled EXCEPT !["TERM"] = SignalledTree]
    /\ UNCHANGED <<up, deaf, holders, code, reading, result>>
GraceEnds ==
    /\ timer = "grace" /\ Settled("timedOut") /\ reading' = FALSE
    /\ signalled' = [signalled EXCEPT !["KILL"] = SignalledTree]
    /\ UNCHANGED <<up, deaf, holders, code, timedOut>>

\* mutant: a command that has ended well has ended well.
ByCode == IF code = "zero" THEN "resolved" ELSE "failed"
Result == IF timedOut THEN "timedOut" ELSE ByCode
\* mutant: "exit" instead of "close".
Exited == code # "none"
Closed == code # "none" /\ (holders = {} \/ ~reading)
\* "close": the process has ended and nobody holds a pipe.
Close ==
    /\ result = "none" /\ Closed
    /\ Settled(Result) /\ reading' = FALSE
    /\ UNCHANGED <<up, deaf, holders, signalled, code, timedOut>>

\* "error": it could not be started.
SpawnFails ==
    /\ code = "none" /\ up = {"npm"} /\ result = "none" /\ ~timedOut
    /\ up' = {} /\ holders' = {} /\ code' = "other" /\ Settled("failed")
    /\ UNCHANGED <<deaf, signalled, reading, timedOut>>

Next ==
    \/ \E d \in Descendants : StartsChild(d) \/ Detach(d)
    \/ \E p \in Processes : Exits(p) \/ TakesSignal(p)
    \/ TimeLimit \/ GraceEnds \/ Close \/ SpawnFails

Spec == Init /\ [][Next]_vars

----
TypeOK ==
    /\ up \cup holders \cup deaf \subseteq Processes /\ signalled \in [Signals -> SUBSET up]
    /\ code \in {"none", "zero", "other", "killed"} /\ timer \in {"limit", "grace", "none"}
    /\ timedOut \in BOOLEAN /\ reading \in BOOLEAN
    /\ result \in {"none", "resolved", "failed", "timedOut"} /\ (result # "none" => timer = "none")

\* What was told to have taken too long is not told to have succeeded, however it
\* ends in the grace; what of it still holds a pipe is being killed, and so is all
\* of it if the command itself has not ended.
LateIsOver ==
    /\ timedOut => result # "resolved"
    /\ result = "timedOut" => holders \subseteq signalled["KILL"]
    /\ result = "timedOut" /\ code = "none" => up \subseteq signalled["KILL"]

\* A result that is not for the time ends a command that has ended, and all it
\* started but what closed the pipes itself: that may go on, and nobody ends it.
DoneIsDone == result \in {"resolved", "failed"} => code # "none" /\ holders = {}
====
