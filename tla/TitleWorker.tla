---- MODULE TitleWorker ----
(*
The titles that the adapter has the App Server make up: each in a
thread of its own, one after the other, behind the back of everything
that follows the events of threads (CodexAdapter.generateSessionTitle).

A connection that is given up for an answer that did not come is closed
at once, but its process has two seconds to end, and what it still
writes is still handled (JsonRpcTransport.disconnectWithError).
*)
EXTENDS Naturals, Sequences, FiniteSets

CONSTANTS
    Runs,        \* the generations; also the threads they start
    MaxLines,    \* bound: lines on their way
    MaxFaults    \* bound: given up and lost connections

VARIABLES
    at,          \* new, queued, starts, turns, waits, cleans, unsubscribes, done
    tail,        \* the generations in the order of titleGenerationTail
    outcome,     \* none, title, failed
    asked,       \* the request a generation waits for was given up by its timer
    known,       \* internalTitleThreads
    turns,       \* internalTitleTurns: none, open (nothing said yet), said
    requestIds,  \* internalTitleRequestIds
    conn,        \* up, givenUp, down
    server,      \* the thread: none, asked, idle, working, over, gone
    lines,
    forwarded,   \* the title threads of which an event was passed on
    late,        \* those it was passed on of after their connection was given up
    faults

vars == <<at, tail, outcome, asked, known, turns, requestIds, conn, server, lines,
          forwarded, late, faults>>
serviceVars == <<at, tail, outcome, asked, known, turns, requestIds>>
ghostVars == <<forwarded, late>>

Init ==
    /\ at = [r \in Runs |-> "new"] /\ tail = <<>>
    /\ outcome = [r \in Runs |-> "none"] /\ asked = [r \in Runs |-> FALSE]
    /\ known = {} /\ turns = [r \in Runs |-> "none"] /\ requestIds = {}
    /\ conn = "up" /\ server = [r \in Runs |-> "none"] /\ lines = <<>>
    /\ forwarded = {} /\ late = {} /\ faults = 0

Lives == conn # "down"
Line(kind, r) == [kind |-> kind, run |-> r]
Goes(r, to, how) == /\ at' = [at EXCEPT ![r] = to]
                    /\ outcome' = [outcome EXCEPT ![r] = IF how = "same" THEN @ ELSE how]

----
(* generateSessionTitle *)

Ask(r) ==
    /\ at[r] = "new" /\ Goes(r, "queued", "same") /\ tail' = Append(tail, r)
    /\ UNCHANGED <<asked, known, turns, requestIds, conn, server, lines, ghostVars, faults>>

Begin(r) ==
    /\ at[r] = "queued"
    /\ \A i, j \in DOMAIN tail : tail[j] = r /\ i < j => at[tail[i]] = "done"
    /\ IF conn = "up"
       THEN Goes(r, "starts", "same") /\ server' = [server EXCEPT ![r] = "asked"]
       ELSE Goes(r, "done", "failed") /\ UNCHANGED server
    /\ UNCHANGED <<tail, asked, known, turns, requestIds, conn, lines, ghostVars, faults>>

\* waitForInternalTitleTurn, and turn/start.
Started(r) ==
    IF at[r] = "starts"
    THEN /\ Goes(r, "turns", "same") /\ turns' = [turns EXCEPT ![r] = "open"]
         /\ known' = known \cup {r}
    ELSE UNCHANGED <<at, outcome, turns, known>>

\* await completion: what it was settled with meanwhile counts now.
TurnStarted(r) ==
    IF at[r] # "turns" THEN UNCHANGED <<at, outcome>>
    ELSE IF turns[r] = "none" THEN Goes(r, "cleans", "same")
    ELSE Goes(r, "waits", "same")

\* The request's own timer; a start that was not answered has no thread to clean.
RequestTimesOut(r) ==
    /\ at[r] \in {"starts", "turns", "unsubscribes"} /\ ~asked[r]
    /\ asked' = [asked EXCEPT ![r] = TRUE]
    /\ turns' = [turns EXCEPT ![r] = "none"]
    /\ CASE at[r] = "starts" -> Goes(r, "done", "failed")
         [] at[r] = "turns" -> Goes(r, "cleans", "failed")
         [] at[r] = "unsubscribes" -> Goes(r, "done", "same")
    /\ UNCHANGED <<tail, known, requestIds, conn, server, lines, ghostVars, faults>>

TurnTimesOut(r) ==
    /\ turns[r] # "none"
    /\ turns' = [turns EXCEPT ![r] = "none"]
    /\ Goes(r, IF at[r] = "waits" THEN "cleans" ELSE at[r], "failed")
    /\ UNCHANGED <<tail, asked, known, requestIds, conn, server, lines, ghostVars, faults>>

\* mutant: a generation that failed goes at once.
SkipsCleanup(r) == outcome[r] = "failed" \/ conn # "up"
\* finally: without a connection there is nothing to unsubscribe from.
NeedsNoCleanup(r) == conn # "up"
Clean(r) ==
    /\ at[r] = "cleans"
    /\ Goes(r, IF NeedsNoCleanup(r) THEN "done" ELSE "unsubscribes", "same")
    /\ asked' = [asked EXCEPT ![r] = FALSE]
    /\ UNCHANGED <<tail, known, turns, requestIds, conn, server, lines, ghostVars, faults>>

----
(* The App Server *)

Writes(ls) == /\ Lives /\ Len(lines) + Len(ls) <= MaxLines /\ lines' = lines \o ls
              /\ UNCHANGED <<serviceVars, conn, ghostVars, faults>>

StartThread(r) ==
    /\ server[r] = "asked" /\ server' = [server EXCEPT ![r] = "idle"]
    /\ \/ Writes(<<Line("startAnswer", r), Line("threadStarted", r)>>)
       \/ Writes(<<Line("threadStarted", r), Line("startAnswer", r)>>)
StartTurn(r) ==
    /\ server[r] = "idle" /\ at[r] = "turns"
    /\ server' = [server EXCEPT ![r] = "working"]
    /\ Writes(<<Line("turnAnswer", r)>>)
Say(r) ==
    /\ server[r] = "working" /\ Writes(<<Line("item", r)>>) /\ UNCHANGED server
AskInput(r) ==
    /\ server[r] = "working" /\ Writes(<<Line("request", r)>>) /\ UNCHANGED server
ResolveInput(r) ==
    /\ r \in requestIds /\ server[r] = "working"
    /\ Writes(<<Line("resolved", r)>>) /\ UNCHANGED server
\* Completed with a message, completed without one of its own, or failed.
EndTurn(r) ==
    /\ server[r] = "working" /\ server' = [server EXCEPT ![r] = "over"]
    /\ \E kind \in {"completed", "silent", "failed"} : Writes(<<Line(kind, r)>>)
Unsubscribe(r) ==
    /\ at[r] = "unsubscribes" /\ server[r] \in {"idle", "working", "over"}
    /\ server' = [server EXCEPT ![r] = "gone"]
    /\ Writes(<<Line("unsubscribed", r), Line("status", r)>>)

----
(* handleInternalTitleNotification and the handler of server requests *)

\* mutant: a thread is known once its start was answered.
HiddenIfAnswered(line) == line.run \in known /\ line.kind # "threadStarted"
\* A line of a title thread; thread/started names its source.
Hidden(line) ==
    \/ line.kind = "threadStarted" \/ line.run \in known
    \/ line.kind = "resolved" /\ line.run \in requestIds

Answers == {"startAnswer", "turnAnswer", "unsubscribed"}
PassOn(line) ==
    /\ forwarded' = forwarded \cup {line.run}
    /\ late' = IF conn = "givenUp" THEN late \cup {line.run} ELSE late
    /\ UNCHANGED serviceVars

Answered(line) ==
    LET r == line.run IN
    /\ CASE line.kind = "startAnswer" -> Started(r) /\ UNCHANGED asked
         [] line.kind = "turnAnswer" -> TurnStarted(r) /\ UNCHANGED <<asked, turns, known>>
         [] line.kind = "unsubscribed" ->
                /\ IF at[r] = "unsubscribes" THEN Goes(r, "done", "same")
                   ELSE UNCHANGED <<at, outcome>>
                /\ UNCHANGED <<asked, turns, known>>
    /\ UNCHANGED <<tail, requestIds, ghostVars>>

Settle(r, how) ==
    /\ turns' = [turns EXCEPT ![r] = "none"]
    /\ Goes(r, IF at[r] = "waits" THEN "cleans" ELSE at[r], how)

Absorbed(line) ==
    LET r == line.run IN
    /\ known' = IF line.kind = "threadStarted" THEN known \cup {r} ELSE known
    /\ requestIds' = CASE line.kind = "request" -> requestIds \cup {r}
                       [] line.kind = "resolved" -> requestIds \ {r}
                       [] OTHER -> requestIds
    /\ IF turns[r] = "none" \/ line.kind \notin {"item", "completed", "silent", "failed"}
       THEN UNCHANGED <<turns, at, outcome>>
       ELSE IF line.kind = "item"
       THEN turns' = [turns EXCEPT ![r] = "said"] /\ UNCHANGED <<at, outcome>>
       ELSE Settle(r, IF line.kind = "completed" \/ (line.kind = "silent" /\ turns[r] = "said")
                      THEN "title" ELSE "failed")
    /\ UNCHANGED <<tail, asked, ghostVars>>

Handle ==
    LET line == Head(lines) IN
    /\ lines # <<>> /\ lines' = Tail(lines)
    /\ IF line.kind \in Answers
       THEN IF conn = "up" THEN Answered(line) ELSE UNCHANGED <<serviceVars, ghostVars>>
       ELSE IF Hidden(line) THEN Absorbed(line) ELSE PassOn(line)
    /\ UNCHANGED <<conn, server, faults>>

----
(* The connection *)

\* mutant: cancelInternalTitleTurns forgets without rejecting.
WaitsOn(r) == at[r]
\* rejectAll, and cancelInternalTitleTurns.
Cancelled(r) == IF at[r] = "waits" THEN "cleans" ELSE at[r]
Rejected(r) ==
    IF at[r] \in {"starts", "unsubscribes"} THEN "done"
    ELSE IF at[r] = "turns" THEN "cleans" ELSE Cancelled(r)
Disconnect ==
    /\ at' = [r \in Runs |-> Rejected(r)]
    /\ outcome' = [r \in Runs |->
           IF at[r] \in {"starts", "turns", "waits"} THEN "failed" ELSE outcome[r]]
    /\ known' = {} /\ requestIds' = {} /\ turns' = [r \in Runs |-> "none"]
    /\ UNCHANGED <<tail, asked>>

GiveUp ==
    /\ conn = "up" /\ faults < MaxFaults /\ faults' = faults + 1
    /\ conn' = "givenUp" /\ Disconnect
    /\ UNCHANGED <<server, lines, ghostVars>>
Exit ==
    /\ Lives /\ conn' = "down" /\ lines' = <<>>
    /\ faults' = IF conn = "up" THEN faults + 1 ELSE faults
    /\ conn = "up" => faults < MaxFaults
    /\ IF conn = "up" THEN Disconnect ELSE UNCHANGED serviceVars
    /\ server' = [r \in Runs |-> IF server[r] = "none" THEN "none" ELSE "gone"]
    /\ UNCHANGED ghostVars
Restart ==
    /\ conn = "down" /\ conn' = "up"
    /\ UNCHANGED <<serviceVars, server, lines, ghostVars, faults>>

Next ==
    \/ \E r \in Runs :
        \/ Ask(r) \/ Begin(r) \/ RequestTimesOut(r) \/ TurnTimesOut(r) \/ Clean(r)
        \/ StartThread(r) \/ StartTurn(r) \/ Say(r) \/ AskInput(r) \/ ResolveInput(r)
        \/ EndTurn(r) \/ Unsubscribe(r)
    \/ Handle \/ GiveUp \/ Exit \/ Restart

Spec == Init /\ [][Next]_vars

----
TypeOK ==
    /\ at \in [Runs -> {"new", "queued", "starts", "turns", "waits", "cleans",
                        "unsubscribes", "done"}]
    /\ outcome \in [Runs -> {"none", "title", "failed"}]
    /\ known \subseteq Runs /\ requestIds \subseteq Runs /\ late \subseteq forwarded
    /\ turns \in [Runs -> {"none", "open", "said"}]
    /\ conn \in {"up", "givenUp", "down"} /\ Len(lines) <= MaxLines

\* As long as its connection is not given up, nothing a title thread does is
\* taken for an event of a session.
GhostsComeLate == forwarded = late

\* "late unsubscribe/status notifications can never create a ghost Runtime"
\* (codex-adapter.ts:840): not even then.
NoGhostRuntime == forwarded = {}

\* A generation that waits for its Turn has the entry whose timer ends it, so
\* that the ones queued behind it come to their turn.
WaitsAreTimed == \A r \in Runs : at[r] = "waits" => turns[r] # "none"

\* A generation leaves no thread behind on the App Server it was started on,
\* unless one of its requests was not answered in time.
NothingLeftBehind ==
    \A r \in Runs : at[r] = "done" /\ ~asked[r] /\ conn = "up" => server[r] \in {"none", "gone"}
====
