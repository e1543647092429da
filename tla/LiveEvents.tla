---- MODULE LiveEvents ----
(*
How a page stays in step with the server: the numbered events of the
gateway (event-gateway.ts), the bootstrap snapshot (server.ts), and the
page's socket, which buffers events until a snapshot has come, drops
what the snapshot contains, replays the rest, and starts over when the
socket closes (App.tsx, snapshot-refresh.ts, store.ts); beside it the
timeline of the open session, from events and from reads that may be
older than the events (session-query.ts, live-session.ts).

One thread, with one Turn that streams one item.  Text is counted in
chunks.  A Turn's status is none, inProgress or done.
*)
EXTENDS Naturals, Sequences, SequencesExt

CONSTANTS
    Opening,        \* is the session read for the first time, or shown already
    MaxChunks,      \* bound on the chunks of the item
    MaxFlips,       \* bound on the changes of Codex's connection
    MaxFaults       \* bound on broken sockets, failed requests and restarts

VARIABLES
    srv,        \* the server: boot, runtime, Codex's connection, the Turn
    seen,       \* seen[n]: what a page in step with event n of this boot shows
    sock,       \* the page's socket and what is on its way in it
    http,       \* the page's requests: snapshot, bootstrap query, session read
    page,       \* the page's memory
    budget

vars == <<srv, seen, sock, http, page, budget>>

----
(* The server. *)

View(s) == [run |-> s.run, delta |-> s.delta]
Event(n, kind, arg) == [seq |-> n, kind |-> kind, arg |-> arg]

\* publish: events with the next numbers, to every socket that is up.  Each is
\* given with the state of the server it leaves behind.
Publish(steps) ==
    /\ seen' = seen \o [k \in DOMAIN steps |-> View(steps[k][3])]
    /\ srv' = steps[Len(steps)][3]
    /\ sock' = IF sock.up
               THEN [sock EXCEPT !.wire = @ \o [k \in DOMAIN steps |->
                        Event(Len(seen) + k, steps[k][1], steps[k][2])]]
               ELSE sock

TurnStarts ==
    /\ srv.codex /\ srv.status = "none"
    /\ LET s1 == [srv EXCEPT !.run = "running"]
           s2 == [s1 EXCEPT !.status = "inProgress"]
       IN Publish(<< <<"runtime", "running", s1>>, <<"turn", "inProgress", s2>> >>)
    /\ UNCHANGED <<http, page, budget>>

Streams ==
    /\ srv.codex /\ srv.status = "inProgress" /\ ~srv.whole /\ srv.text < MaxChunks
    /\ Publish(<< <<"delta", 1, [srv EXCEPT !.text = @ + 1, !.delta = @ + 1]>> >>)
    /\ UNCHANGED <<http, page, budget>>

ItemCompletes ==
    /\ srv.codex /\ srv.status = "inProgress" /\ ~srv.whole
    /\ Publish(<< <<"item", srv.text, [srv EXCEPT !.whole = TRUE, !.delta = 0]>> >>)
    /\ UNCHANGED <<http, page, budget>>

TurnCompletes ==
    /\ srv.codex /\ srv.status = "inProgress" /\ srv.whole
    /\ LET s1 == [srv EXCEPT !.run = "idle"]
           s2 == [s1 EXCEPT !.status = "done"]
       IN Publish(<< <<"runtime", "idle", s1>>, <<"turn", "done", s2>> >>)
    /\ UNCHANGED <<http, page, budget>>

\* Codex's connection is lost, or back: the runtimes go first, or come first.
CodexFlips ==
    /\ budget.flips < MaxFlips
    /\ budget' = [budget EXCEPT !.flips = @ + 1]
    /\ LET live == srv.status = "inProgress"
           s1 == [srv EXCEPT !.run = IF ~live THEN @ ELSE IF srv.codex THEN "disconnected" ELSE "running"]
           s2 == [s1 EXCEPT !.codex = ~@]
           change == <<"backend", s2.codex, s2>>
       IN Publish(IF live THEN << <<"runtime", s1.run, s1>>, change>> ELSE <<change>>)
    /\ UNCHANGED <<http, page>>

\* A new socket is told so, with a number of its own.
Accept ==
    /\ sock.wanted /\ ~sock.up /\ ~sock.open
    /\ seen' = Append(seen, View(srv))
    /\ sock' = [sock EXCEPT !.up = TRUE, !.wire = <<Event(Len(seen) + 1, "ready", 0)>>]
    /\ UNCHANGED <<srv, http, page, budget>>

\* GET /api/bootstrap describes the backends first, which takes a while, and then
\* reads the rest in one go.
Describe(q) ==
    /\ http[q].at = "asked"
    /\ http' = [http EXCEPT ![q].at = "describing", ![q].codex = srv.codex]
    /\ UNCHANGED <<srv, seen, sock, page, budget>>

Answer(q) ==
    /\ http[q].at = "describing"
    /\ http' = [http EXCEPT ![q].at = "answered", ![q].seq = Len(seen), ![q].view = View(srv)]
    /\ UNCHANGED <<srv, seen, sock, page, budget>>

ServeRead ==
    /\ http.read.at = "asked"
    /\ http' = [http EXCEPT !.read.at = "answered", !.read.turn = [status |-> srv.status, text |-> srv.text]]
    /\ UNCHANGED <<srv, seen, sock, page, budget>>

----
(* Faults. *)

NoRequest == [at |-> "none", codex |-> FALSE, seq |-> 0, view |-> [run |-> "idle", delta |-> 0]]
NoRead == [at |-> "none", base |-> [status |-> "none", text |-> 0], turn |-> [status |-> "none", text |-> 0]]

Fault == budget.faults < MaxFaults /\ budget' = [budget EXCEPT !.faults = @ + 1]

SocketBreaks ==
    /\ Fault /\ sock.up
    /\ sock' = [sock EXCEPT !.up = FALSE, !.wire = << >>]
    /\ UNCHANGED <<srv, seen, http, page>>

SnapshotBreaks ==
    /\ Fault /\ http.snapshot.at # "none"
    /\ http' = [http EXCEPT !.snapshot.at = "failed"]
    /\ UNCHANGED <<srv, seen, sock, page>>

\* The server restarts: numbers start again, the running Turn is gone.
Restarts ==
    /\ Fault
    /\ srv' = [srv EXCEPT !.boot = @ + 1, !.run = "idle", !.delta = 0,
                          !.status = IF @ = "none" THEN @ ELSE "done"]
    /\ seen' = << >>
    /\ sock' = [sock EXCEPT !.up = FALSE, !.wire = << >>]
    /\ http' = [snapshot |-> IF http.snapshot.at = "none" THEN NoRequest ELSE [NoRequest EXCEPT !.at = "failed"],
                query |-> NoRequest,
                read |-> [http.read EXCEPT !.at = IF @ = "none" THEN @ ELSE "asked"]]
    /\ UNCHANGED page

----
(* The page. *)

Rank(status) == CASE status = "none" -> 0 [] status = "inProgress" -> 1 [] OTHER -> 2

\* upsertTurn: the later status wins, and the longer text.
Merged(a, b) ==
    [status |-> IF Rank(a.status) >= Rank(b.status) THEN a.status ELSE b.status,
     text |-> IF a.text >= b.text THEN a.text ELSE b.text]

\* An event of the timeline, once the session has been read.
OnTimeline(turn, e, delta) ==
    CASE e.kind = "turn" -> Merged(turn, [status |-> e.arg, text |-> 0])
      [] e.kind = "item" -> Merged(turn, [status |-> "inProgress", text |-> IF delta > e.arg THEN delta ELSE e.arg])
      [] OTHER -> turn

IsOld(p, e) == e.seq <= p.last

\* applyEvent and consume.
Consumed(p, e) ==
    IF IsOld(p, e) THEN p
    ELSE [p EXCEPT !.last = e.seq,
                   !.view.run = IF e.kind = "runtime" THEN e.arg ELSE @,
                   !.view.delta = CASE e.kind = "delta" -> @ + e.arg [] e.kind = "item" -> 0 [] OTHER -> @,
                   !.codex = IF e.kind = "backend" THEN e.arg ELSE @,
                   !.turn = IF p.read THEN OnTimeline(@, e, p.view.delta) ELSE @]

\* Any backend event that is applied asks for the bootstrap query again.
Asks(p, es) == \E k \in DOMAIN es : es[k].kind = "backend" /\ ~IsOld(p, es[k])
Requery(p, es) == IF Asks(p, es) THEN [NoRequest EXCEPT !.at = "asked"] ELSE http.query

Disconnected(p) == [p EXCEPT !.conn = FALSE, !.view.run = "disconnected"]

\* scheduleReconnect.
GiveUp(p) == p                                                           \* mutant
RetryLater(p) == [p EXCEPT !.timer = TRUE]

\* refreshSnapshot: one at a time, its callers wait for the same one.
Refresh(p, caller) ==
    /\ page' = [p EXCEPT !.callers = @ \cup {caller},
                         !.buffering = IF p.callers = {} THEN TRUE ELSE @]
    /\ http' = IF p.callers = {} THEN [http EXCEPT !.snapshot = [NoRequest EXCEPT !.at = "asked"]] ELSE http

Opens ==
    /\ sock.wanted /\ sock.up /\ ~sock.open
    /\ sock' = [sock EXCEPT !.open = TRUE]
    /\ Refresh(page, "open")
    /\ UNCHANGED <<srv, seen, budget>>

Receives ==
    /\ sock.open /\ sock.wire # << >>
    /\ sock' = [sock EXCEPT !.wire = Tail(@)]
    /\ LET e == Head(sock.wire) IN
        \/ /\ page.buffering
           /\ page' = [page EXCEPT !.buffer = Append(@, e)] /\ UNCHANGED http
        \/ /\ ~page.buffering
           /\ page' = Consumed(page, e)
           /\ http' = [http EXCEPT !.query = Requery(page, <<e>>)]
    /\ UNCHANGED <<srv, seen, budget>>

\* onclose, which an attempt that never opened has too.
Closes ==
    /\ sock.wanted /\ ~sock.up
    /\ sock.open \/ budget.faults < MaxFaults
    /\ budget' = IF sock.open THEN budget ELSE [budget EXCEPT !.faults = @ + 1]
    /\ sock' = [sock EXCEPT !.wanted = FALSE, !.open = FALSE]
    /\ page' = RetryLater(Disconnected(page))
    /\ UNCHANGED <<srv, seen, http>>

TimerFires ==
    /\ page.timer
    /\ Refresh([page EXCEPT !.timer = FALSE], "retry")
    /\ UNCHANGED <<srv, seen, sock, budget>>

Newer(n) == SelectSeq(page.buffer, LAMBDA e : e.seq > n)

\* The snapshot is applied: initialize, replay, and the session is read again.
SnapshotArrives ==
    /\ http.snapshot.at = "answered"
    /\ LET fresh == http.snapshot
           replay == Newer(fresh.seq)
           p == [page EXCEPT !.conn = TRUE, !.last = fresh.seq, !.boot = srv.boot, !.view = fresh.view,
                             !.codex = fresh.codex, !.buffering = FALSE, !.buffer = << >>]
       IN /\ page' = FoldLeft(Consumed, p, replay)
          /\ http' = [http EXCEPT !.snapshot.at = "applied", !.query = Requery(p, replay),
                                  !.read = [NoRead EXCEPT !.at = "asked", !.base = page'.turn]]
    /\ UNCHANGED <<srv, seen, sock, budget>>

\* The session has been read too: callers go on; a retry connects.
RefreshEnds ==
    /\ http.snapshot.at = "applied" /\ http.read.at = "none"
    /\ http' = [http EXCEPT !.snapshot = NoRequest]
    /\ page' = [page EXCEPT !.callers = {}]
    /\ sock' = IF "retry" \in page.callers /\ ~sock.wanted
               THEN [wanted |-> TRUE, up |-> FALSE, open |-> FALSE, wire |-> << >>] ELSE sock
    /\ UNCHANGED <<srv, seen, budget>>

\* It failed: the buffer is dropped, the socket closed, and a retry scheduled.
RefreshFails ==
    /\ http.snapshot.at = "failed"
    /\ http' = [http EXCEPT !.snapshot = NoRequest]
    /\ LET p == [page EXCEPT !.callers = {}, !.buffering = FALSE, !.buffer = << >>] IN
        \/ /\ "open" \in page.callers
           /\ page' = RetryLater(Disconnected(p))
           /\ sock' = [sock EXCEPT !.wanted = FALSE, !.up = FALSE, !.open = FALSE, !.wire = << >>]
        \/ /\ page.callers = {"retry"}
           /\ page' = RetryLater(p) /\ UNCHANGED sock
    /\ UNCHANGED <<srv, seen, budget>>

QueryArrives ==
    /\ http.query.at = "answered"
    /\ page' = [page EXCEPT !.codex = http.query.codex]
    /\ http' = [http EXCEPT !.query = NoRequest]
    /\ UNCHANGED <<srv, seen, sock, budget>>

\* fetchMergedSession: a Turn that changed meanwhile, or that is going on in one of
\* the two, is merged; the read is right about the others.
Replaced(current, incoming, base) == incoming                            \* mutant
Reconciled(current, incoming, base) ==
    IF current # base \/ (incoming.status # "none" /\ "inProgress" \in {current.status, incoming.status})
    THEN Merged(incoming, current) ELSE incoming

ReadArrives ==
    /\ http.read.at = "answered"
    /\ page' = [page EXCEPT !.read = TRUE,
                            !.turn = IF page.read THEN Reconciled(@, http.read.turn, http.read.base)
                                     ELSE http.read.turn]
    /\ http' = [http EXCEPT !.read = NoRead]
    /\ UNCHANGED <<srv, seen, sock, budget>>

----

\* A page that has had its bootstrap and opens its socket.
Init ==
    /\ srv = [boot |-> 1, run |-> "idle", codex |-> TRUE, status |-> "none",
              text |-> 0, delta |-> 0, whole |-> FALSE]
    /\ seen = << >>
    /\ sock = [wanted |-> TRUE, up |-> FALSE, open |-> FALSE, wire |-> << >>]
    /\ http = [snapshot |-> NoRequest, query |-> NoRequest, read |-> IF Opening THEN [NoRead EXCEPT !.at = "asked"] ELSE NoRead]
    /\ page = [conn |-> TRUE, boot |-> 1, last |-> 0, view |-> View(srv), codex |-> TRUE,
               read |-> ~Opening, turn |-> [status |-> "none", text |-> 0],
               buffering |-> FALSE, buffer |-> << >>, callers |-> {}, timer |-> FALSE]
    /\ budget = [flips |-> 0, faults |-> 0]

Happens == TurnStarts \/ Streams \/ ItemCompletes \/ TurnCompletes \/ CodexFlips
Serves == Accept \/ ServeRead \/ \E q \in {"snapshot", "query"} : Describe(q) \/ Answer(q)
Breaks == SocketBreaks \/ SnapshotBreaks \/ Restarts
Page ==
    \/ Opens \/ Receives \/ Closes \/ TimerFires \/ SnapshotArrives \/ RefreshEnds
    \/ RefreshFails \/ QueryArrives \/ ReadArrives

Next == Happens \/ Serves \/ Breaks \/ Page

\* The network, the server's handlers and the page's timer and callbacks go on.
Fairness ==
    /\ WF_vars(Accept) /\ WF_vars(ServeRead)
    /\ WF_vars(Describe("snapshot")) /\ WF_vars(Answer("snapshot"))
    /\ WF_vars(Opens) /\ WF_vars(Receives) /\ WF_vars(sock.open /\ Closes) /\ WF_vars(TimerFires)
    /\ WF_vars(SnapshotArrives) /\ WF_vars(RefreshEnds) /\ WF_vars(RefreshFails) /\ WF_vars(ReadArrives)

Spec == Init /\ [][Next]_vars /\ Fairness

----

\* While a page counts as connected, what it shows of the runtimes and of the
\* streamed text is what the server showed after the last event it counted:
\* no event is lost between a snapshot and a socket, and none is applied twice.
ShowsOneMoment ==
    page.conn /\ page.boot = srv.boot =>
        page.view = IF page.last = 0 THEN [run |-> "idle", delta |-> 0] ELSE seen[page.last]

\* A Turn the timeline has shown as over does not go on again, whatever older
\* read of the session comes in.
OverIsOver == [][page.turn.status = "done" => page'.turn.status = "done"]_vars

InStep ==
    /\ page.conn /\ page.boot = srv.boot /\ page.view = View(srv)
    /\ page.turn.status = srv.status
    /\ srv.whole => page.turn.text = srv.text

\* A page gets in step again, after every fault.
GetsInStep == []<>InStep

\* What the page shows of Codex's connection is right in the end.
BackendFollows == <>[](page.codex = srv.codex)
====
