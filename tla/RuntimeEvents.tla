---- MODULE RuntimeEvents ----
(*
ThreadRuntimeRegistry: the state every browser is shown of a thread, a
side chat or a subagent, and the server requests a user can answer.
The adapter's own map of requests, which decides whether an answer can
be sent, is beside it.

A handler of the registry runs without an await, so each is one action.
What a snapshot tells a reconciliation, and the baselines it compares,
are TurnLifecycle's; here its outcome is a choice.  Of a Turn only
whether its id is known is kept, and the unfinished text of items not.
*)
EXTENDS Naturals, FiniteSets

CONSTANTS
    Sessions, SideChats, Subagents,  \* threads
    Requests, Quiet,                 \* server requests; those with isBlocking = false
    NoThread,
    Outcomes,    \* terminal states the run tells apart
    MaxTurns,    \* bound: Turns of the App Server
    MaxActivity, \* bound: Turns, and requests of one process, together
    MaxTroubles  \* bound: lost connections, unknown results, removals

Threads == Sessions \cup SideChats \cup Subagents

ASSUME RuntimeConstants ==
    /\ Quiet \subseteq Requests /\ NoThread \notin Threads
    /\ Sessions \cap SideChats = {} /\ Sessions \cap Subagents = {} /\ SideChats \cap Subagents = {}
    /\ Outcomes \subseteq {"justFinished", "interrupted", "failed"}
    /\ MaxTurns \in Nat /\ MaxActivity \in Nat /\ MaxTroubles \in Nat

VARIABLES
    runtime,     \* what get(threadId) returns
    known,       \* the keys of runtimes
    agent,       \* subagents: their state and the status their parent reports
    parent,      \* subagentParents
    chats,       \* sideChats
    gone,        \* removedThreads and closedSideChats
    cards,       \* pendingRequests of the registry
    owner,       \* pendingRequestOwners
    hints,       \* activeThreadHints
    fading,      \* threads with a finish timer
    awaits,      \* what the operation that holds the thread's lock waits for:
                 \* its "end" (waitForTerminal), its "turn" (waitForActiveTurnId)
    answerable,  \* pendingRequests of the adapter
    asked,       \* App Server: requests without an answer, and of which thread
    used,        \* App Server: ids of requests this process has used
    busy,        \* App Server: threads with a Turn
    link,        \* "connected", "down", or "recovering" while reconciling
    turns, troubles,  \* history: bounded events
    revived      \* history: threads a request came for when they were gone

shown == <<runtime, known, agent, awaits>>
requests == <<cards, owner, answerable>>
server == <<asked, used, busy, turns>>
counts == <<troubles, revived>>
vars == <<shown, parent, chats, gone, requests, hints, fading, server, link, counts>>

\* The bound on what the App Server still does.
MoreToCome == turns + Cardinality(used) < MaxActivity

Live == {"running", "waitingForInput"}
Ended == {"justFinished", "interrupted", "failed"}
Runtime == [state : Live \cup Ended \cup {"idle", "disconnected"},
            turn : BOOLEAN, ids : SUBSET Requests, flag : BOOLEAN]
Default == [state |-> "idle", turn |-> FALSE, ids |-> {}, flag |-> FALSE]
Agent == [state : Live \cup Ended \cup {"none", "idle", "disconnected"},
          status : {"none", "running", "ended"}]
NoAgent == [state |-> "none", status |-> "none"]

Init ==
    /\ runtime = [t \in Threads |-> Default] /\ known = {}
    /\ agent = [t \in Threads |-> NoAgent]
    /\ parent = [t \in Threads |-> NoThread]
    /\ chats = {} /\ gone = {}
    /\ cards = {} /\ owner = [q \in Requests |-> NoThread]
    /\ hints = {} /\ fading = {} /\ awaits = [t \in Threads |-> "nothing"]
    /\ answerable = {} /\ asked = [q \in Requests |-> NoThread] /\ used = {} /\ busy = {}
    /\ link = "connected" /\ turns = 0 /\ troubles = 0 /\ revived = {}

----
(* What the handlers are made of *)

IsAgent(t) == agent[t] # NoAgent
IsLive(r) == r.state \in Live

\* setRuntime, which wakes those who wait for what has come about.
Over(r) == ~r.turn /\ ~IsLive(r)
WakesAtTurn(r, w) == IF w = "turn" /\ (r.turn \/ Over(r)) THEN "nothing" ELSE w   \* mutant
Wakes(r, w) == IF Over(r) \/ (w = "turn" /\ r.turn) THEN "nothing" ELSE w
SetRuntime(t, r) ==
    /\ runtime' = [runtime EXCEPT ![t] = r]
    /\ known' = known \cup {t}
    /\ agent' = IF IsAgent(t) THEN [agent EXCEPT ![t].state = r.state] ELSE agent
    /\ awaits' = [awaits EXCEPT ![t] = Wakes(r, @)]

\* hasBlockingRequests: an id without a request counts as blocking.
Blocking(ids) == \E q \in ids : q \notin Quiet

\* clearPendingRequests
Cleared(ids) ==
    /\ cards' = cards \ ids
    /\ owner' = [q \in Requests |-> IF q \in ids THEN NoThread ELSE owner[q]]

\* visibleRequestThreadId: the root of the chain, the thread itself on a cycle.
Ancestors[n \in 0 .. Cardinality(Threads)] ==
    [t \in Threads |->
        IF n = 0 THEN {t}
        ELSE LET above == Ancestors[n - 1][t]
             IN  above \cup {parent[a] : a \in {b \in above : parent[b] # NoThread}}]
Above(t) == Ancestors[Cardinality(Threads)][t]
Visible(t) ==
    LET roots == {a \in Threads : a \in Above(t) /\ parent[a] = NoThread}
    IN  IF roots = {} THEN t ELSE CHOOSE a \in roots : TRUE

\* removeSubagentMappings
MappingsOf(t) == {u \in Threads : t \in Above(u)}
Forget(t) ==
    /\ parent' = [u \in Threads |-> IF u \in MappingsOf(t) THEN NoThread ELSE parent[u]]
    /\ agent' = [u \in Threads |-> IF u \in MappingsOf(t) THEN NoAgent ELSE agent[u]]

\* updateSubagent: its runtime, and over that what the caller knows.
UpdateSubagent(t, state, status) ==
    agent' = [agent EXCEPT ![t] = [
        state |-> IF state = "asRuntime" THEN runtime[t].state ELSE state,
        status |-> IF status = "same" THEN agent[t].status ELSE status]]

----
(* Server requests *)

\* handlePendingRequest; the App Server asks on behalf of a thread with a Turn.
HandlePendingRequest(q, t) ==
    LET v == Visible(t)
        ids == runtime[v].ids \cup {q}
    IN  /\ link # "down" /\ t \in busy /\ q \notin used /\ MoreToCome
        /\ used' = used \cup {q}
        /\ asked' = [asked EXCEPT ![q] = t]
        /\ answerable' = answerable \cup {q}
        /\ cards' = cards \cup {q}
        /\ owner' = [owner EXCEPT ![q] = v]
        /\ hints' = hints \cup {v}
        /\ SetRuntime(v, [runtime[v] EXCEPT
              !.state = IF Blocking(ids) THEN "waitingForInput" ELSE "running", !.ids = ids])
        /\ revived' = IF v \in gone THEN revived \cup {v} ELSE revived
        /\ UNCHANGED <<parent, chats, gone, fading, busy, turns, link, troubles>>

StateAfter(t, ids) ==
    CASE Blocking(ids) -> "waitingForInput"
      [] ~Blocking(ids) /\ runtime[t].state \in Ended -> runtime[t].state
      [] OTHER -> IF runtime[t].turn \/ t \in hints THEN "running" ELSE "idle"
\* resolveServerRequest
IgnoredSideChat(t) == t \in gone \cap SideChats                       \* mutant
Ignored(t) == t \in gone
ResolveServerRequest(q) ==
    LET t == owner[q]
    IN  IF q \notin cards THEN UNCHANGED <<shown, cards, owner>>
        ELSE /\ cards' = cards \ {q}
             /\ owner' = [owner EXCEPT ![q] = NoThread]
             /\ IF Ignored(t) THEN UNCHANGED shown
                ELSE SetRuntime(t, [runtime[t] EXCEPT
                        !.state = StateAfter(t, runtime[t].ids \ {q}), !.ids = @ \ {q}])

\* respondPendingRequest of the adapter and of the session service: the answer
\* is sent and the card is gone before the App Server confirms it.
RespondPendingRequest(q) ==
    /\ link = "connected" /\ q \in answerable
    /\ answerable' = answerable \ {q}
    /\ ResolveServerRequest(q)
    /\ UNCHANGED <<parent, chats, gone, hints, fading, server, link, counts>>

\* serverRequest/resolved: an answer arrived, or the App Server wants none any more.
ServerRequestResolved(q) ==
    /\ link # "down" /\ asked[q] # NoThread
    /\ asked' = [asked EXCEPT ![q] = NoThread]
    /\ answerable' = answerable \ {q}
    /\ ResolveServerRequest(q)
    /\ UNCHANGED <<parent, chats, gone, hints, fading, used, busy, turns, link, counts>>

----
(* Notifications of the App Server: handleEvent *)

Unrelated == UNCHANGED <<parent, chats, gone, link, counts>>

\* A subagent's thread starts, or its parent tells of it.
ThreadStarted(c, p) ==
    /\ link # "down" /\ p \in busy /\ parent[c] = NoThread
    /\ parent' = [parent EXCEPT ![c] = p]
    /\ UpdateSubagent(c, "asRuntime", "same")
    /\ UNCHANGED <<runtime, known, awaits, chats, gone, requests, hints, fading,
                   server, link, counts>>

\* subAgentActivity and collabAgentToolCall items of thread t about subagent c:
\* only a start establishes who the parent is.
ItemUpserted(t, c) ==
    /\ link # "down" /\ t \in busy
    /\ IF Ignored(t) THEN UNCHANGED <<agent, parent>>
       ELSE
            /\ \/ /\ IsAgent(c) \/ parent[c] = NoThread
                  /\ parent' = [parent EXCEPT ![c] = IF IsAgent(c) THEN @ ELSE t]
                  /\ UpdateSubagent(c, "running", "running")
               \/ /\ IsAgent(c)
                  /\ \/ \E state \in Outcomes \ {"failed"} : UpdateSubagent(c, state, "ended")
                     \/ UpdateSubagent(c, "asRuntime", "running")
                     \/ UpdateSubagent(c, "asRuntime", "ended")
                  /\ UNCHANGED parent
    /\ UNCHANGED <<runtime, known, awaits, chats, gone, requests, hints, fading,
                   server, link, counts>>

\* restoreSubagents after a reconciliation: a list that has a subagent
\* at rest does not overwrite what live events told.
RestoreSubagent(c, p) ==
    /\ link = "recovering" /\ chats = {} /\ p \in Sessions \ gone
    /\ parent' = [parent EXCEPT ![c] = p]
    /\ \/ c \in busy /\ UpdateSubagent(c, "running", "same")
       \/ ~(agent[c].state \in Live \/ agent[c].status = "running") /\ UpdateSubagent(c, "idle", "same")
       \/ (agent[c].state \in Live \/ agent[c].status = "running") /\ UNCHANGED agent
    /\ UNCHANGED <<runtime, known, awaits, chats, gone, requests, hints, fading, server, link, counts>>

TurnStarted(t) ==
    /\ link # "down" /\ t \notin busy /\ turns < MaxTurns /\ MoreToCome
    /\ t \in SideChats => t \in chats \cup gone
    /\ turns' = turns + 1 /\ busy' = busy \cup {t}
    /\ IF Ignored(t) THEN UNCHANGED <<shown, hints, fading>>
       ELSE /\ hints' = hints \cup {t} /\ fading' = fading \ {t}
            /\ SetRuntime(t, [runtime[t] EXCEPT !.state = "running", !.turn = TRUE])
    /\ UNCHANGED <<parent, chats, gone, requests, asked, used, link, counts>>

\* What ends a thread's activity clears what it waited for.
Ending(t, state, flag) ==
    /\ hints' = hints \ {t}
    /\ Cleared(runtime[t].ids)
    /\ SetRuntime(t, [state |-> state, turn |-> FALSE, ids |-> {}, flag |-> flag])

\* The App Server asks nothing any more for a Turn that is over.
Unasked(t) == asked' = [q \in Requests |-> IF asked[q] = t THEN NoThread ELSE asked[q]]

TurnCompleted(t, status) ==
    /\ link # "down" /\ t \in busy
    /\ busy' = busy \ {t} /\ Unasked(t)
    /\ IF Ignored(t) THEN UNCHANGED <<shown, cards, owner, hints, fading>>
       ELSE /\ Ending(t, status, runtime[t].flag)
            /\ fading' = IF status = "justFinished" THEN fading \cup {t} ELSE fading
    /\ UNCHANGED <<answerable, used, turns>> /\ Unrelated

\* thread/status/changed
Active(t, flag) ==
    /\ link # "down" /\ t \in busy \ gone
    /\ hints' = hints \cup {t}
    /\ SetRuntime(t, [runtime[t] EXCEPT
          !.state = IF Blocking(runtime[t].ids) \/ flag THEN "waitingForInput" ELSE "running", !.flag = flag])
    /\ UNCHANGED <<requests, fading, server>> /\ Unrelated

Inactive(t) ==
    /\ link # "down" /\ t \notin busy \cup gone
    /\ Ending(t, IF runtime[t].state \in Ended THEN runtime[t].state ELSE "idle", FALSE)
    /\ UNCHANGED <<answerable, fading, server>> /\ Unrelated

SystemError(t) ==
    /\ link # "down" /\ t \in busy \ gone
    /\ busy' = busy \ {t} /\ Unasked(t)
    /\ fading' = fading \ {t}
    /\ Ending(t, "failed", FALSE)
    /\ UNCHANGED <<answerable, used, turns>> /\ Unrelated

----
(* The session service *)

\* setActiveTurn: the response of turn/start, or a read that found the Turn, when
\* no notification told of it.
SetActiveTurn(t) ==
    /\ link = "connected" /\ t \in busy \ gone /\ ~runtime[t].turn
    /\ hints' = hints \cup {t}
    /\ SetRuntime(t, [runtime[t] EXCEPT !.state = "running", !.turn = TRUE])
    /\ UNCHANGED <<requests, fading, server>> /\ Unrelated

\* markOperationUncertain: the cards stay.
MarkOperationUncertain(t) ==
    /\ link # "down" /\ t \in (Sessions \ gone) \cup chats /\ troubles < MaxTroubles
    /\ troubles' = troubles + 1
    /\ hints' = hints \ {t}
    /\ SetRuntime(t, [runtime[t] EXCEPT !.state = "disconnected", !.turn = FALSE, !.ids = {}])
    /\ UNCHANGED <<parent, chats, gone, requests, fading, server, link, revived>>

\* reconcileSnapshot of a disconnected session: it is over, or still unknown.
FadingCleared(t, state) == fading \ {t}                            \* mutant
FadingAfter(t, state) == IF state = "justFinished" THEN fading \cup {t} ELSE fading \ {t}
Reconcile(t) ==
    /\ link # "down" /\ t \in Sessions \ gone /\ awaits[t] = "nothing"
    /\ runtime[t].state = "disconnected"
    /\ \/ /\ SetRuntime(t, [runtime[t] EXCEPT !.state = "disconnected", !.turn = FALSE, !.ids = {}])
          /\ fading' = fading \ {t} /\ UNCHANGED hints
       \/ /\ t \notin busy /\ hints' = hints \ {t}
          /\ \E state \in Outcomes \cup {"idle"} :
                /\ SetRuntime(t, [runtime[t] EXCEPT !.state = state, !.turn = FALSE, !.ids = {}])
                /\ fading' = FadingAfter(t, state)
    /\ UNCHANGED <<requests, server>> /\ Unrelated

MarkViewed(t) ==
    /\ runtime[t].state = "failed"
    /\ SetRuntime(t, [runtime[t] EXCEPT !.state = "idle"])
    /\ UNCHANGED <<requests, hints, fading, server>> /\ Unrelated

\* The finish timer.
Fade(t) ==
    /\ t \in fading
    /\ fading' = fading \ {t}
    /\ IF runtime[t].state = "justFinished" THEN SetRuntime(t, [runtime[t] EXCEPT !.state = "idle"])
       ELSE UNCHANGED shown
    /\ UNCHANGED <<requests, hints, server>> /\ Unrelated

\* waitForActiveTurnId and waitForTerminal of an interrupt, and their timers.
Await(t) ==
    /\ link = "connected" /\ t \in (Sessions \ gone) \cup chats /\ awaits[t] = "nothing"
    /\ ~Over(runtime[t])
    /\ \E w \in {"end", "turn"} :
          (w = "turn" => ~runtime[t].turn) /\ awaits' = [awaits EXCEPT ![t] = w]
    /\ UNCHANGED <<runtime, known, agent, requests, hints, fading, server>> /\ Unrelated
AwaitTimeout(t) ==
    /\ awaits[t] # "nothing"
    /\ awaits' = [awaits EXCEPT ![t] = "nothing"]
    /\ UNCHANGED <<runtime, known, agent, requests, hints, fading, server>> /\ Unrelated

\* removeSideChat and removeThread, which clears the finish timer as well.
Removed(t) ==
    /\ runtime' = [runtime EXCEPT ![t] = Default] /\ known' = known \ {t}
    /\ Cleared(runtime[t].ids) /\ Forget(t) /\ awaits' = [awaits EXCEPT ![t] = "nothing"]
    /\ hints' = hints \ {t}
    /\ fading' = IF t \in SideChats THEN fading ELSE fading \ {t}
    /\ chats' = chats \ {t} /\ gone' = gone \cup {t}
    /\ revived' = revived \ {t}
    /\ UNCHANGED <<answerable, server>>

Remove(t) ==
    /\ link # "down" /\ t \in (Sessions \ gone) \cup chats /\ awaits[t] = "nothing"
    /\ troubles < MaxTroubles /\ troubles' = troubles + 1
    /\ Removed(t) /\ UNCHANGED link

\* restoreThread: a scan, which needs the connection, lists the session again.
RestoreThread(t) ==
    /\ link = "connected" /\ MoreToCome /\ t \in gone \cap Sessions /\ gone' = gone \ {t}
    /\ UNCHANGED <<shown, parent, chats, requests, hints, fading, server, link, counts>>

RegisterSideChat(t) ==
    /\ link = "connected" /\ t \in SideChats \ (chats \cup gone)
    /\ chats' = chats \cup {t} /\ known' = known \cup {t}
    /\ runtime' = [runtime EXCEPT ![t] = Default]
    /\ UNCHANGED <<agent, awaits, parent, gone, requests, hints, fading, server, link, counts>>

----
(* The connection *)

\* handleConnection("disconnected"): what was live is of unknown outcome.
Lost == {t \in known : IsLive(runtime[t])}
HandleDisconnected ==
    LET owned == {q \in cards : owner[q] # NoThread}
        down == [t \in Threads |-> IF t \in Lost
                    THEN [runtime[t] EXCEPT !.state = "disconnected", !.turn = FALSE, !.ids = {}] ELSE runtime[t]]
        spawnOnly == {t \in Threads : t \notin known /\ agent[t].status = "running"}
    IN  /\ hints' = {}
        /\ Cleared(owned)
        /\ runtime' = down
        /\ agent' = [t \in Threads |->
              IF IsAgent(t) /\ (t \in Lost \cup spawnOnly \/ agent[t].state \in Live)
              THEN [agent[t] EXCEPT !.state = "disconnected"] ELSE agent[t]]
        /\ awaits' = [t \in Threads |-> IF t \in Lost THEN "nothing" ELSE awaits[t]]
        /\ UNCHANGED <<known, parent, chats, gone, fading, revived>>

\* The App Server exits: the adapter forgets its requests first.
Disconnect ==
    /\ link # "down" /\ troubles < MaxTroubles
    /\ troubles' = troubles + 1 /\ link' = "down"
    /\ answerable' = {} /\ used' = {} /\ busy' = {}
    /\ asked' = [q \in Requests |-> NoThread]
    /\ HandleDisconnected /\ UNCHANGED turns

Reconnect ==
    /\ link = "down" /\ link' = "recovering"
    /\ UNCHANGED <<shown, parent, chats, gone, requests, hints, fading, server, counts>>

\* The reconciliation removes side chats first.
RemoveLostSideChat(t) ==
    /\ link = "recovering" /\ t \in chats
    /\ Removed(t) /\ UNCHANGED <<link, troubles>>

Reconciled ==
    /\ link = "recovering" /\ chats = {} /\ link' = "connected"
    /\ UNCHANGED <<shown, parent, chats, gone, requests, hints, fading, server, counts>>

\* A reconciliation that fails says "disconnected" while the App Server is there.
FailedReconciliation ==
    /\ link = "recovering" /\ MoreToCome
    /\ HandleDisconnected /\ UNCHANGED <<answerable, server, link, troubles>>

Request(q) ==
    \/ RespondPendingRequest(q) \/ ServerRequestResolved(q)
    \/ \E t \in Threads : HandlePendingRequest(q, t)
Event(t) ==
    \/ \E c \in Subagents \ {t} : ThreadStarted(c, t) \/ ItemUpserted(t, c) \/ RestoreSubagent(c, t)
    \/ TurnStarted(t) \/ SystemError(t) \/ Inactive(t)
    \/ \E status \in Outcomes : TurnCompleted(t, status)
    \/ \E flag \in BOOLEAN : Active(t, flag)
Service(t) ==
    \/ SetActiveTurn(t) \/ MarkOperationUncertain(t) \/ Reconcile(t) \/ MarkViewed(t) \/ Fade(t)
    \/ Await(t) \/ AwaitTimeout(t)
    \/ Remove(t) \/ RestoreThread(t) \/ RegisterSideChat(t) \/ RemoveLostSideChat(t)
Connection == Disconnect \/ Reconnect \/ Reconciled \/ FailedReconciliation

Next ==
    \/ \E q \in Requests : Request(q)
    \/ \E t \in Threads : Event(t) \/ Service(t)
    \/ Connection

Spec == Init /\ [][Next]_vars

----
TypeOK ==
    /\ runtime \in [Threads -> Runtime] /\ agent \in [Threads -> Agent]
    /\ parent \in [Threads -> Threads \cup {NoThread}]
    /\ owner \in [Requests -> Threads \cup {NoThread}] /\ asked \in [Requests -> Threads \cup {NoThread}]
    /\ known \subseteq Threads /\ chats \subseteq SideChats /\ gone \subseteq Threads
    /\ cards \subseteq Requests /\ answerable \subseteq Requests
    /\ hints \cup fading  \cup busy \subseteq Threads /\ used \subseteq Requests
    /\ awaits \in [Threads -> {"nothing", "end", "turn"}]
    /\ revived \subseteq Threads
    /\ link \in {"connected", "down", "recovering"}
    /\ turns \in Nat /\ troubles \in Nat

\* The card of a request a thread waits on is there to be answered, and the
\* adapter can still send the answer.
WaitsOnAnswerable ==
    /\ \A t \in Threads \ revived : runtime[t].ids \subseteq cards
    /\ cards \subseteq answerable

\* A thread that is shown waiting waits for something: a card, or what the App
\* Server itself calls waiting.
WaitsForSomething ==
    \A t \in Threads : runtime[t].state = "waitingForInput" => Blocking(runtime[t].ids) \/ runtime[t].flag

\* Nobody waits for the end or for the Turn of a thread whose activity is over:
\* an interrupt or a side chat's close does not sit out its timeout for nothing.
NobodyWaitsForNothing ==
    \A t \in Threads :
        awaits[t] # "nothing" => ~Over(runtime[t]) /\ (awaits[t] = "turn" => ~runtime[t].turn)

\* While there is no connection nothing is shown as going on, neither a thread
\* nor a subagent, and no card is offered.
NothingLiveWhileDown ==
    link = "down" => /\ \A t \in Threads : ~IsLive(runtime[t]) /\ agent[t].state \notin Live
                     /\ cards = {}

\* Late notifications do not bring back a removed thread; only a request that
\* needs an answer does.
GoneStaysGone ==
    [][\A t \in gone : t \notin known /\ t \in known' => \E q \in cards' : q \notin cards /\ owner'[q] = t]_vars

\* docs/V1_PLAN.md:74: an active thread with a request that waits for input is
\* waitingForInput.
BlockedShowsWaiting ==
    \A t \in Threads : runtime[t].turn /\ Blocking(runtime[t].ids) => runtime[t].state = "waitingForInput"

\* The green tick goes away by itself: whatever else happens to the thread, a
\* finish timer runs as long as it is shown.
FinishFades == \A t \in Threads : runtime[t].state = "justFinished" => t \in fading

\* The states that go away only when something else happens: that something can
\* still happen, in whatever order events, answers and losses came
\* (runtime-registry.ts 152-173, 276-300, 388-411, 628-652).
ShownStatesCanEnd ==
    WaitsOnAnswerable /\ WaitsForSomething /\ NothingLiveWhileDown /\ FinishFades

----
(* The strengthening that makes the safety properties inductive. *)

\* A thread the registry has no runtime of is shown as one that never ran.
UnknownIsDefault == \A t \in Threads : t \notin known => runtime[t] = Default

\* What a thread waits for makes it live, and hints that a Turn goes on.
WaitingIsLive ==
    \A t \in Threads : runtime[t].ids # {} => IsLive(runtime[t]) /\ t \in hints

\* An id is used once by a process of the App Server, and belongs to one thread.
OneOwner ==
    /\ answerable \subseteq used
    /\ \A q \in Requests : q \in cards <=> owner[q] # NoThread
    /\ \A t \in Threads : runtime[t].ids \subseteq used
    /\ \A t \in Threads, q \in Requests :
          q \in runtime[t].ids /\ q \in cards => owner[q] = t
    /\ \A t, u \in Threads : t # u => runtime[t].ids \cap runtime[u].ids = {}

\* Only an operation of the service waits, and it is on what the service knows.
AwaitsOwned == \A t \in Threads : awaits[t] # "nothing" => t \in Sessions \cup chats

\* A removed side chat is not registered, and a removed thread waits for what it
\* was asked after its removal, if anything.
GoneWaitRevived ==
    /\ chats \cap gone = {}
    /\ \A t \in gone : runtime[t].ids # {} => t \in revived

RegistryInvariant ==
    /\ TypeOK
    /\ UnknownIsDefault /\ WaitingIsLive /\ OneOwner /\ AwaitsOwned /\ GoneWaitRevived
    /\ ShownStatesCanEnd /\ NobodyWaitsForNothing

====
