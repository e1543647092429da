---- MODULE SideChats ----
(*
Side chats: ephemeral threads beside a session (session-service.ts
createSideChat, closeSideChat; codex-adapter.ts createSideChat and the
cleanup of what it could not initialize; the waiters of
runtime-registry.ts).  Closing one whose Turn cannot be ended restarts
the App Server, unless that would cost other work something.

A side chat's Turn is what the registry shows: "none", "hidden" (running
without a known id) or "known".  A request is answered, refused, or lost
with its connection; one that times out takes the connection with it.
*)
EXTENDS Naturals, FiniteSets

CONSTANTS
    Parents,        \* sessions that may have a side chat
    MaxChats,       \* bound on the ephemeral threads of a run
    MaxRefusals     \* bound on refused requests

VARIABLES
    conn,       \* the connection: "up", "down", "recovering" or "clearing"
    loaded,     \* ephemeral threads the connection is subscribed to
    chats,      \* registered side chats: their parents and Turns
    create,     \* per parent: the creation in progress
    close,      \* per registered side chat: the close in progress
    doomed,     \* side chats the reconciliation listed and has yet to remove
    orphans,    \* failedSideChatCleanups: "timer" or "asked"
    main,       \* per parent: does its own Turn run
    birth,      \* the creation of another session or Fork, in progress
    writing,    \* a rename, archive or Goal request waits for its answer
    budget

vars == <<conn, loaded, chats, create, close, doomed, orphans, main, birth, writing, budget>>

----
Threads == 1..MaxChats
Asking == {"forking", "injecting", "clearing", "cleaning"}
NotCreating == [at |-> "none", thread |-> 0]

Listed == DOMAIN chats
Running(t) == chats[t].turn # "none"
ChatOf(p) == {t \in Listed : chats[t].parent = p}

\* The mutations of the adapter that wait for an answer, whoever asked.
PendingMutations ==
    \/ \E p \in Parents : create[p].at \in Asking
    \/ \E t \in Listed : close[t] \in {"interrupting", "unsubscribing"}
    \/ "asked" \in {orphans[t] : t \in DOMAIN orphans}
    \/ birth = "starting" \/ writing

\* recoveryCriticalOperations > 0
CriticalOperations == birth # "none" \/ \E p \in Parents : create[p].at # "none"

Put(f, t, v) == [x \in DOMAIN f \cup {t} |-> IF x = t THEN v ELSE f[x]]
Drop(f, S) == [x \in DOMAIN f \ S |-> f[x]]

Connected == conn \in {"up", "recovering", "clearing"}
Refused == budget.refusals < MaxRefusals /\ budget' = [budget EXCEPT !.refusals = @ + 1]

----
(* Creating one, with the parent's lock. *)

\* The fork; a parent that has a side chat already gets that one.
CreateAsked(p) ==
    /\ conn = "up" /\ create[p].at = "none" /\ ChatOf(p) = {}
    /\ create' = [create EXCEPT ![p] = [at |-> "forking", thread |-> 0]]
    /\ UNCHANGED <<conn, loaded, chats, close, doomed, orphans, main, birth, writing, budget>>

Forked(p) ==
    /\ Connected /\ create[p].at = "forking" /\ budget.threads < MaxChats
    /\ LET t == budget.threads + 1 IN
        /\ budget' = [budget EXCEPT !.threads = t]
        /\ loaded' = loaded \cup {t}
        /\ create' = [create EXCEPT ![p] = [at |-> "injecting", thread |-> t]]
    /\ UNCHANGED <<conn, chats, close, doomed, orphans, main, birth, writing>>

ForkRefused(p) ==
    /\ Connected /\ create[p].at = "forking"
    /\ create' = [create EXCEPT ![p] = NotCreating]
    /\ UNCHANGED <<conn, loaded, chats, close, doomed, orphans, main, birth, writing, budget>>

Injected(p) ==
    /\ Connected /\ create[p].at = "injecting"
    /\ create' = [create EXCEPT ![p].at = "clearing"]
    /\ UNCHANGED <<conn, loaded, chats, close, doomed, orphans, main, birth, writing, budget>>

\* The boundary or the Goal was refused: the thread is no side chat, and goes.
InitializationRefused(p) ==
    /\ Connected /\ create[p].at \in {"injecting", "clearing"}
    /\ Refused
    /\ create' = [create EXCEPT ![p].at = "cleaning"]
    /\ UNCHANGED <<conn, loaded, chats, close, doomed, orphans, main, birth, writing>>

Registered(p) ==
    /\ Connected /\ create[p].at = "clearing"
    /\ LET t == create[p].thread IN
        /\ chats' = Put(chats, t, [parent |-> p, turn |-> "none"])
        /\ close' = Put(close, t, "none")
    /\ create' = [create EXCEPT ![p] = NotCreating]
    /\ UNCHANGED <<conn, loaded, doomed, orphans, main, birth, writing, budget>>

Cleaned(p) ==
    /\ Connected /\ create[p].at = "cleaning"
    /\ loaded' = loaded \ {create[p].thread}
    /\ create' = [create EXCEPT ![p] = NotCreating]
    /\ UNCHANGED <<conn, chats, close, doomed, orphans, main, birth, writing, budget>>

CleaningRefused(p) ==
    /\ Connected /\ create[p].at = "cleaning"
    /\ Refused
    /\ orphans' = Put(orphans, create[p].thread, "timer")
    /\ create' = [create EXCEPT ![p] = NotCreating]
    /\ UNCHANGED <<conn, loaded, chats, close, doomed, main, birth, writing>>

\* scheduleFailedSideChatCleanup and its retries, further and further apart.
RetryCleanup(t) ==
    /\ t \in DOMAIN orphans /\ orphans[t] = "timer"
    /\ Connected
    /\ orphans' = [orphans EXCEPT ![t] = "asked"]
    /\ UNCHANGED <<conn, loaded, chats, create, close, doomed, main, birth, writing, budget>>

RetryAnswered(t) ==
    /\ Connected /\ t \in DOMAIN orphans /\ orphans[t] = "asked"
    /\ orphans' = Drop(orphans, {t})
    /\ loaded' = loaded \ {t}
    /\ UNCHANGED <<conn, chats, create, close, doomed, main, birth, writing, budget>>

\* mutant: the cleanup is retried once only.
GivenUp(t) == Drop(orphans, {t})

AfterRefusal(t) == Put(orphans, t, "timer")

RetryRefused(t) ==
    /\ Connected /\ t \in DOMAIN orphans /\ orphans[t] = "asked"
    /\ Refused
    /\ orphans' = AfterRefusal(t)
    /\ UNCHANGED <<conn, loaded, chats, create, close, doomed, main, birth, writing>>

----
(* Closing one, with its own lock. *)

Removed(t) ==
    /\ chats' = Drop(chats, {t})
    /\ close' = Drop(close, {t})
    /\ doomed' = doomed \ {t}

CloseAsked(t) ==
    /\ conn = "up" /\ t \in Listed /\ close[t] = "none"
    /\ close' = [close EXCEPT ![t] = CASE chats[t].turn = "known" -> "interrupting"
                                      [] chats[t].turn = "hidden" -> "waitingForId"
                                      [] OTHER -> "unsubscribing"]
    /\ UNCHANGED <<conn, loaded, chats, create, doomed, orphans, main, birth, writing, budget>>

\* waitForActiveTurnId resolves: the id has come, or the Turn has gone.
IdCame(t) ==
    /\ t \in Listed /\ close[t] = "waitingForId" /\ chats[t].turn # "hidden"
    /\ close' = [close EXCEPT ![t] = IF Running(t) THEN "interrupting" ELSE "unsubscribing"]
    /\ UNCHANGED <<conn, loaded, chats, create, doomed, orphans, main, birth, writing, budget>>

InterruptAnswered(t) ==
    /\ Connected /\ t \in Listed /\ close[t] = "interrupting"
    /\ close' = [close EXCEPT ![t] = IF Running(t) THEN "waitingForEnd" ELSE "unsubscribing"]
    /\ UNCHANGED <<conn, loaded, chats, create, doomed, orphans, main, birth, writing, budget>>

\* "No active Turn" is as good as an end; another refusal fails the close.
InterruptRefused(t) ==
    /\ Connected /\ t \in Listed /\ close[t] = "interrupting"
    /\ \/ close' = [close EXCEPT ![t] = "unsubscribing"] /\ UNCHANGED budget
       \/ close' = [close EXCEPT ![t] = "none"] /\ Refused
    /\ UNCHANGED <<conn, loaded, chats, create, doomed, orphans, main, birth, writing>>

\* waitForTerminal resolves.
EndCame(t) ==
    /\ t \in Listed /\ close[t] = "waitingForEnd" /\ ~Running(t)
    /\ close' = [close EXCEPT ![t] = "unsubscribing"]
    /\ UNCHANGED <<conn, loaded, chats, create, doomed, orphans, main, birth, writing, budget>>

Unsubscribed(t) ==
    /\ Connected /\ t \in Listed /\ close[t] = "unsubscribing"
    /\ Removed(t)
    /\ loaded' = loaded \ {t}
    /\ UNCHANGED <<conn, create, orphans, main, birth, writing, budget>>

UnsubscribeRefused(t) ==
    /\ Connected /\ t \in Listed /\ close[t] = "unsubscribing"
    /\ Refused
    /\ close' = [close EXCEPT ![t] = "none"]
    /\ UNCHANGED <<conn, loaded, chats, create, doomed, orphans, main, birth, writing>>

TimedOut(t) == t \in Listed /\ close[t] \in {"waitingForId", "waitingForEnd"} /\ Running(t)

\* recoverTimedOutSideChat and restartForRecovery, when somebody else would pay.
Spared(t) ==
    \/ \E p \in Parents : main[p]
    \/ Listed # {t}
    \/ CriticalOperations
    \/ PendingMutations

CloseTimesOut(t) ==
    /\ TimedOut(t) /\ Spared(t)
    /\ close' = [close EXCEPT ![t] = "none"]
    /\ UNCHANGED <<conn, loaded, chats, create, doomed, orphans, main, birth, writing, budget>>

\* The connection is gone, and every request on it with it.  The creations fail,
\* the closes fail or find their Turn gone, a cleanup is to be retried.
Lost ==
    /\ conn' = "down"
    /\ loaded' = {}
    /\ create' = [p \in Parents |-> NotCreating]
    /\ orphans' = [t \in DOMAIN orphans \cup {create[p].thread : p \in {q \in Parents : create[q].at = "cleaning"}}
                     |-> "timer"]
    /\ main' = [p \in Parents |-> FALSE]
    /\ birth' = "none"
    /\ writing' = FALSE

Recover(t) ==
    /\ conn = "up"
    /\ TimedOut(t) /\ ~Spared(t)
    /\ Lost
    /\ Removed(t)
    /\ UNCHANGED budget

ConnectionLost ==
    /\ conn = "up"
    /\ Lost
    /\ chats' = [t \in Listed |-> [chats[t] EXCEPT !.turn = "none"]]
    /\ close' = [t \in Listed |-> "none"]
    /\ UNCHANGED <<doomed, budget>>

----
(* The next connection. *)

\* initialize() forgets the cleanups: the threads went with their connection.
Initialized ==
    /\ conn = "down"
    /\ conn' = "recovering"
    /\ orphans' = [t \in {} |-> "timer"]
    /\ UNCHANGED <<loaded, chats, create, close, doomed, main, birth, writing, budget>>

\* reconcileAfterReconnect removes every side chat it finds, in its lock.
ListDoomed ==
    /\ conn = "recovering"
    /\ doomed' = Listed
    /\ conn' = "clearing"
    /\ UNCHANGED <<loaded, chats, create, close, orphans, main, birth, writing, budget>>

RemoveDoomed(t) ==
    /\ conn = "clearing" /\ t \in doomed /\ close[t] = "none"
    /\ Removed(t)
    /\ UNCHANGED <<conn, loaded, create, orphans, main, birth, writing, budget>>

Reconciled ==
    /\ conn = "clearing" /\ doomed = {}
    /\ conn' = "up"
    /\ UNCHANGED <<loaded, chats, create, close, doomed, orphans, main, birth, writing, budget>>

----
(* The Turns of side chats, and the others' work. *)

TurnMoves(t) ==
    /\ conn = "up" /\ t \in Listed
    /\ \E turn \in {"none", "hidden", "known"} :
        /\ <<chats[t].turn, turn>> \in {<<"none", "hidden">>, <<"none", "known">>, <<"hidden", "known">>,
                                        <<"hidden", "none">>, <<"known", "none">>}
        /\ chats[t].turn = "none" => close[t] = "none"
        /\ chats' = [chats EXCEPT ![t].turn = turn]
    /\ UNCHANGED <<conn, loaded, create, close, doomed, orphans, main, birth, writing, budget>>

\* A parent's own Turn starts in the parent's lock.
MainTurn(p) ==
    /\ conn = "up"
    /\ main[p] \/ create[p].at = "none"
    /\ main' = [main EXCEPT ![p] = ~@]
    /\ UNCHANGED <<conn, loaded, chats, create, close, doomed, orphans, birth, writing, budget>>

\* A session or Fork starts, gets its Goal and snapshot, and is registered.
Birth ==
    /\ conn = "up"
    /\ birth' = CASE birth = "none" -> "starting" [] birth = "starting" -> "settling" [] OTHER -> "none"
    /\ UNCHANGED <<conn, loaded, chats, create, close, doomed, orphans, main, writing, budget>>

Write ==
    /\ conn = "up"
    /\ writing' = ~writing
    /\ UNCHANGED <<conn, loaded, chats, create, close, doomed, orphans, main, birth, budget>>

----
Init ==
    /\ conn = "up" /\ loaded = {} /\ doomed = {}
    /\ chats = [t \in {} |-> 0] /\ close = [t \in {} |-> 0] /\ orphans = [t \in {} |-> 0]
    /\ create = [p \in Parents |-> NotCreating]
    /\ main = [p \in Parents |-> FALSE]
    /\ birth = "none" /\ writing = FALSE
    /\ budget = [threads |-> 0, refusals |-> 0]

\* Steps the process or an answer always takes some day.
Proceed ==
    \/ \E p \in Parents :
        Forked(p) \/ ForkRefused(p) \/ Injected(p) \/ Registered(p) \/ Cleaned(p)
    \/ \E t \in Threads :
        \/ RetryCleanup(t) \/ RetryAnswered(t)
        \/ IdCame(t) \/ InterruptAnswered(t) \/ EndCame(t) \/ Unsubscribed(t)
        \/ CloseTimesOut(t) \/ Recover(t) \/ RemoveDoomed(t)
    \/ Initialized \/ ListDoomed \/ Reconciled

Next ==
    \/ Proceed
    \/ \E p \in Parents : CreateAsked(p) \/ InitializationRefused(p) \/ CleaningRefused(p) \/ MainTurn(p)
    \/ \E t \in Threads : CloseAsked(t) \/ InterruptRefused(t) \/ UnsubscribeRefused(t) \/ RetryRefused(t) \/ TurnMoves(t)
    \/ ConnectionLost \/ Birth \/ Write

\* Answers come and timers fire, for every thread and every parent.
Fairness ==
    /\ \A p \in Parents :
        WF_vars(Forked(p) \/ ForkRefused(p)) /\ WF_vars(Injected(p)) /\ WF_vars(Registered(p)) /\ WF_vars(Cleaned(p))
    /\ \A t \in Threads :
        WF_vars(RetryCleanup(t)) /\ WF_vars(RetryAnswered(t)) /\ WF_vars(Unsubscribed(t))
    /\ WF_vars(Initialized) /\ WF_vars(ListDoomed) /\ WF_vars(Reconciled)
    /\ \A t \in Threads : WF_vars(RemoveDoomed(t))

Spec == Init /\ [][Next]_vars /\ Fairness

----
\* A restart that a close asks for interrupts no Turn of a session and no other
\* side chat, leaves no thread behind that nobody has registered yet, and makes
\* no answer uncertain (README.md:255).
RecoveryCostsNothing ==
    [][\A t \in Threads : Recover(t) =>
        /\ \A p \in Parents : ~main[p]
        /\ Listed = {t}
        /\ \A p \in Parents : create[p].thread = 0
        /\ birth = "none" /\ ~writing]_vars

\* An ephemeral thread does not stay on the server for ever unless it is a side
\* chat, however often its cleanup is refused.
NobodyIsLeft == []<>(loaded \subseteq Listed)

\* At rest there is one side chat per session at most, and it is alive.
ListedAreAlive ==
    conn = "up" => /\ Listed \subseteq loaded
                   /\ \A p \in Parents : Cardinality(ChatOf(p)) <= 1
====
