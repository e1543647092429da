---- MODULE PiBackend ----
(*
One session of the pi backend (pi-adapter.ts, pi-rpc.ts): a child
process that speaks JSON lines, the Turn the adapter shows for it, and
the runs of pi itself, which a prompt or one of pi's extensions starts.
SessionService holds the session's lock around a prompt, an interrupt
and an archive; reading the cost takes no lock.

Processes and Turns have recycled numbers, 0 is none.  A process that
was told to stop is heard no more.  Left out: steer, compact and rename,
which are requests on an open process; the items of a Turn; the dialogs
of extensions; a full disk.  pi itself is not in the repository: it
refuses a prompt while it runs, and reports the end of an aborted run
with its answer to the abort.
*)
EXTENDS Naturals, Sequences, FiniteSets

CONSTANTS
    Procs,      \* bound: processes at once, the dying ones included
    MaxLines,   \* bound on the lines under way from a process
    Early       \* an extension may start a run before its process is opened

VARIABLES
    proc,       \* LiveSession and PiRpc, and the process behind them
    live,       \* the session's entry in the map live
    loading,    \* the session's entry in the map loading
    op,         \* the operation that holds the session's lock
    reader,     \* readSessionCost: the process it waits for
    stored      \* the Turns whose stored status is inProgress

vars == <<proc, live, loading, op, reader, stored>>

Turns == 1 .. Cardinality(Procs) + 2

Gone == [at |-> "gone", turn |-> 0, stopping |-> FALSE, runs |-> FALSE, out |-> <<>>]
NoOp == [kind |-> "none", at |-> "none", p |-> 0, turn |-> 0]
NoReader == [at |-> "none", p |-> 0]

Alive(p) == p # 0 /\ proc[p].at = "alive"
Awaits == {"opening", "settings", "prompting", "aborting", "answer"}
Asked(p) == (op.p = p /\ op.at \in Awaits) \/ (reader.p = p /\ reader.at # "none")

FreshTurn == CHOOSE t \in Turns : t \notin stored \cup {op.turn} \cup {proc[p].turn : p \in Procs}
Spare == {p \in Procs : proc[p].at = "gone" /\ op.p # p /\ reader.p # p}

----
(* Turns of a process: beginTurn and finish. *)

Begin(p, out) ==
    /\ proc' = [proc EXCEPT ![p].turn = FreshTurn, ![p].stopping = FALSE, ![p].out = out]
    /\ stored' = stored \cup {FreshTurn}

Finish(p, out) ==
    /\ proc' = [proc EXCEPT ![p].turn = 0, ![p].out = out]
    /\ stored' = stored \ {proc[p].turn}

\* The process is heard no more: whoever waits for it is refused.
Deserted(p) ==
    /\ live' = IF live = p THEN 0 ELSE live
    /\ loading' = IF loading = p THEN 0 ELSE loading
    /\ op' = IF op.p = p /\ op.at \in Awaits THEN NoOp ELSE op
    /\ reader' = IF reader.p = p THEN NoReader ELSE reader

\* "failure" of PiRpc ends the Turn; a failing open() only stops the process.
Ended(p) == stored \ {proc[p].turn}

Fail(p, at) ==
    /\ proc' = [proc EXCEPT ![p] = [Gone EXCEPT !.at = at]]
    /\ stored' = Ended(p)
    /\ Deserted(p)

----
(* ensureLive *)

\* Whom to wait for: the live process, the one that is being opened, a new one.

Opens == live = 0 /\ loading = 0

Whom == IF Opens THEN CHOOSE p \in Spare : TRUE ELSE IF live # 0 THEN live ELSE loading
Stage == IF live # 0 THEN "ready" ELSE "opening"

EnsureLive ==
    IF Opens
    THEN /\ Spare # {}
         /\ loading' = Whom
         /\ proc' = [proc EXCEPT ![Whom].at = "alive"]
    ELSE UNCHANGED <<loading, proc>>

Opened ==
    /\ Alive(loading)
    /\ live' = loading /\ loading' = 0
    /\ op' = IF op.at = "opening" THEN [op EXCEPT !.at = "ready"] ELSE op
    /\ reader' = IF reader.at = "opening" THEN [reader EXCEPT !.at = "stats"] ELSE reader
    /\ UNCHANGED <<proc, stored>>

OpenFails ==
    /\ Alive(loading)
    /\ proc' = [proc EXCEPT ![loading] = [Gone EXCEPT !.at = "dying"]]
    /\ Deserted(loading)
    /\ UNCHANGED stored

----
(* startTurn: open, settings, attachments, prompt. *)

StartTurn ==
    /\ op = NoOp
    /\ EnsureLive
    /\ op' = [kind |-> "start", at |-> Stage, p |-> Whom, turn |-> 0]
    /\ UNCHANGED <<live, reader, stored>>

OpIs(at) == op.kind = "start" /\ op.at = at
OpGoes(at) == op' = [op EXCEPT !.at = at]
Refuse == op' = NoOp

ApplySettings ==
    /\ OpIs("ready")
    /\ IF Alive(op.p) /\ proc[op.p].turn = 0 THEN OpGoes("settings") ELSE Refuse
    /\ UNCHANGED <<proc, live, loading, reader, stored>>

SettingsApplied ==
    /\ OpIs("settings")
    /\ OpGoes("reading") \/ Refuse
    /\ UNCHANGED <<proc, live, loading, reader, stored>>

\* "An extension may start a run while settings/attachments are being prepared."
MayPrompt == proc[op.p].turn = 0

\* On a dead process the new Turn fails at once.
Prompt ==
    /\ OpIs("reading")
    /\ IF Alive(op.p) /\ MayPrompt
       THEN /\ Begin(op.p, proc[op.p].out)
            /\ op' = [op EXCEPT !.at = "prompting", !.turn = FreshTurn]
       ELSE Refuse /\ UNCHANGED <<proc, stored>>
    /\ UNCHANGED <<live, loading, reader>>

----
(* interruptTurn, archiveSession, readSessionCost. *)

InterruptTurn ==
    /\ op = NoOp /\ live # 0 /\ proc[live].turn # 0
    /\ proc' = [proc EXCEPT ![live].stopping = TRUE]
    /\ op' = [kind |-> "interrupt", at |-> "aborting", p |-> live, turn |-> proc[live].turn]
    /\ UNCHANGED <<live, loading, reader, stored>>

ArchiveSession ==
    /\ op = NoOp /\ live # 0 /\ proc[live].turn = 0
    /\ proc' = [proc EXCEPT ![live] = [Gone EXCEPT !.at = "dying"]]
    /\ Deserted(live)
    /\ UNCHANGED stored

ReadSessionCost ==
    /\ reader = NoReader
    /\ EnsureLive
    /\ reader' = [at |-> IF Stage = "ready" THEN "stats" ELSE "opening", p |-> Whom]
    /\ UNCHANGED <<live, op, stored>>

CostRead ==
    /\ reader.at = "stats"
    /\ reader' = NoReader
    /\ UNCHANGED <<proc, live, loading, op, stored>>

----
(* pi: what it does with a request, and on its own. *)

Says(p, runs, lines) ==
    /\ Len(proc[p].out) + Len(lines) <= MaxLines
    /\ proc' = [proc EXCEPT ![p].runs = runs, ![p].out = @ \o lines]

TakePrompt ==
    /\ op.at = "prompting" /\ Alive(op.p)
    /\ \/ /\ ~proc[op.p].runs
          /\ \E lines \in {<<"started", "accepted">>, <<"accepted", "started">>} : Says(op.p, TRUE, lines)
       \/ Says(op.p, proc[op.p].runs, <<"refused">>)
    /\ OpGoes("answer")
    /\ UNCHANGED <<live, loading, reader, stored>>

TakeAbort ==
    /\ op.at = "aborting" /\ Alive(op.p)
    /\ Says(op.p, FALSE, IF proc[op.p].runs THEN <<"settled, accepted">> ELSE <<"accepted">>)
    /\ OpGoes("answer")
    /\ UNCHANGED <<live, loading, reader, stored>>

RunStarts(p) ==
    /\ Alive(p) /\ ~proc[p].runs
    /\ p = loading => Early
    /\ Says(p, TRUE, <<"started">>)
    /\ UNCHANGED <<live, loading, op, reader, stored>>

RunEnds(p) ==
    /\ Alive(p) /\ proc[p].runs
    /\ Says(p, FALSE, <<"settled">>)
    /\ UNCHANGED <<live, loading, op, reader, stored>>

----
(* handleRecord, and the answers to requests. *)

Next1(p, line) == Alive(p) /\ proc[p].out # <<>> /\ Head(proc[p].out) = line
Read(p) == proc' = [proc EXCEPT ![p].out = Tail(@)] /\ UNCHANGED stored

AgentStart(p) ==
    /\ Next1(p, "started")
    /\ IF proc[p].turn = 0 THEN Begin(p, Tail(proc[p].out)) ELSE Read(p)
    /\ UNCHANGED <<live, loading, op, reader>>

AgentSettled(p) ==
    /\ Next1(p, "settled")
    /\ IF proc[p].turn # 0 THEN Finish(p, Tail(proc[p].out)) ELSE Read(p)
    /\ UNCHANGED <<live, loading, op, reader>>

\* A refused prompt and an interrupt end the Turn they are about.
Ends(p, line) ==
    \/ line = "settled, accepted"
    \/ proc[p].turn = op.turn /\ (line = "refused" \/ op.kind = "interrupt")

Answered(p) ==
    \E line \in {"accepted", "refused", "settled, accepted"} :
        /\ Next1(p, line)
        /\ IF proc[p].turn # 0 /\ Ends(p, line) THEN Finish(p, Tail(proc[p].out)) ELSE Read(p)
        /\ Refuse
        /\ UNCHANGED <<live, loading, reader>>

----
(* Processes end; so does the server. *)

Exit(p) == Alive(p) /\ Fail(p, "gone")

TimesOut(p) == Alive(p) /\ Asked(p) /\ Fail(p, "dying")

Dies(p) ==
    /\ proc[p].at = "dying"
    /\ proc' = [proc EXCEPT ![p].at = "gone"]
    /\ UNCHANGED <<live, loading, op, reader, stored>>

\* The constructor ends what was stored as in progress.
Restart ==
    /\ proc' = [p \in Procs |-> Gone]
    /\ live' = 0 /\ loading' = 0
    /\ op' = NoOp /\ reader' = NoReader
    /\ stored' = {}

Init ==
    /\ proc = [p \in Procs |-> Gone]
    /\ live = 0 /\ loading = 0
    /\ op = NoOp /\ reader = NoReader
    /\ stored = {}

Steps == Opened \/ ApplySettings \/ SettingsApplied \/ Prompt
Records(p) == AgentStart(p) \/ AgentSettled(p) \/ Answered(p)

Next ==
    \/ StartTurn \/ InterruptTurn \/ ArchiveSession \/ ReadSessionCost
    \/ Steps \/ CostRead \/ OpenFails
    \/ TakePrompt \/ TakeAbort
    \/ \E p \in Procs : Records(p) \/ RunStarts(p) \/ RunEnds(p) \/ Exit(p) \/ TimesOut(p) \/ Dies(p)
    \/ Restart

\* The server goes on, every request is answered or times out, runs of pi end.
Fairness ==
    /\ WF_vars(Steps)
    /\ \A p \in Procs :
        /\ WF_vars(Records(p)) /\ WF_vars(TimesOut(p))
        /\ WF_vars(Dies(p)) /\ SF_vars(RunEnds(p))

Spec == Init /\ [][Next]_vars /\ Fairness

----
\* What is stored as in progress is what a living process works on: no Turn is
\* forgotten by a second one, a closed process or a process that failed.
StoredIsWorkedOn == stored = {proc[p].turn : p \in Procs} \ {0}

\* One process works for a session: two would write the same native history.
OneProcess == Cardinality({p \in Procs : Alive(p)}) <= 1

\* No Turn is shown as running for ever.
TurnsEnd == []<>(stored = {})

\* A run that nobody prompted is shown: "idle pi creates a new Web turn for its
\* automatic continuation and updates the state" (README.md:98).
RunsAreShown == \A p \in Procs : proc[p].runs /\ proc[p].out = <<>> => proc[p].turn # 0
====
