---- MODULE AppServerLink ----
(*
The connection to the App Server: CodexProcessSupervisor spawns
transports, CodexAdapter initialises them, ConnectionRecovery
reconciles and opens the gate that server.ts holds before mutations.

Transports are numbered in the order they are spawned.  Events between
the parts are synchronous, so an action is one event of a child, a
socket or a timer, or one settled promise.
*)
EXTENDS Naturals

CONSTANTS
    MaxSpawns,   \* bound: transports spawned
    MaxFailures  \* bound: reconciliations that fail

ASSUME BoundsAssumption == MaxSpawns \in Nat \ {0} /\ MaxFailures \in Nat

VARIABLES
    spawned,   \* transports so far
    conn,      \* transport: "none" yet, "open", "closed", or "gone" after its exit event
    told,      \* transports whose loss was reported (disconnectedReported)
    current,   \* transportValue, 0 for null
    timer,     \* restartTimer is set
    stopping,  \* the server closes
    init,      \* initialize: "none", "running", "stale" (transport lost), "done", "failed"
    ready,     \* CodexAdapter.ready
    gen,       \* ConnectionRecovery.generation
    runs,      \* reconciliations under way: their generation and transport
    retry,     \* generation of retryTimer, 0 without one
    gate,      \* connectionState
    opened,    \* history: the transport whose reconciliation opened the gate last
    failures   \* history: reconciliations that failed

supervisor == <<spawned, conn, told, current, timer, stopping>>
adapter == <<init, ready>>
recovery == <<gen, runs, retry, gate, opened, failures>>
vars == <<supervisor, adapter, recovery>>

Conns == 1 .. MaxSpawns
Alive(i) == conn[i] \in {"open", "closed"}

Init ==
    /\ spawned = 1
    /\ conn = [i \in Conns |-> IF i = 1 THEN "open" ELSE "none"]
    /\ told = {} /\ current = 1
    /\ timer = FALSE /\ stopping = FALSE
    /\ init = [i \in Conns |-> IF i = 1 THEN "running" ELSE "none"]
    /\ ready = FALSE
    /\ gen = 1 /\ runs = {} /\ retry = 0 /\ gate = "connecting"
    /\ opened = 0 /\ failures = 0

----
(* ConnectionRecovery *)

Run(g) == [gen |-> g, conn |-> current]

\* handle: a newer generation cancels the retry of the older one.
Handle(state) ==
    /\ gen' = gen + 1
    /\ retry' = 0
    /\ gate' = IF state = "connected" THEN "connecting" ELSE state
    /\ runs' = IF state = "connected" THEN runs \cup {Run(gen + 1)} ELSE runs
    /\ UNCHANGED <<opened, failures>>

\* A settled reconciliation counts only for the newest generation.
Newest(r) == ~stopping /\ r.gen = gen

ReconcileDone(r) ==
    /\ runs' = runs \ {r}
    /\ IF Newest(r) THEN gate' = "connected" /\ opened' = r.conn ELSE UNCHANGED <<gate, opened>>
    /\ UNCHANGED <<supervisor, adapter, gen, retry, failures>>

RetryOf(r) == r.gen

\* reconcile rejects: children are still materializing, or a read failed.
ReconcileFails(r) ==
    /\ failures < MaxFailures
    /\ runs' = runs \ {r}
    /\ failures' = failures + 1
    /\ IF Newest(r) THEN gate' = "disconnected" /\ retry' = RetryOf(r) ELSE UNCHANGED <<gate, retry>>
    /\ UNCHANGED <<supervisor, adapter, gen, opened>>

RetryTimer ==
    /\ retry # 0
    /\ retry' = 0
    /\ IF ~stopping /\ retry = gen
       THEN gate' = "connecting" /\ runs' = runs \cup {Run(gen)}
       ELSE UNCHANGED <<gate, runs>>
    /\ UNCHANGED <<supervisor, adapter, gen, opened, failures>>

----
(* Transports and their supervisor *)

\* The transport takes no request any more; its initialisation will see that.
Stale(i) == [init EXCEPT ![i] = IF @ = "running" THEN "stale" ELSE @]

\* reportDisconnected, once for each transport.
Report(i) ==
    IF i \in told THEN UNCHANGED <<told, ready, recovery>>
    ELSE /\ told' = told \cup {i}
         /\ ready' = FALSE
         /\ Handle("disconnected")

\* disconnectWithError and stop.
Disconnecting(i) ==
    /\ conn' = [conn EXCEPT ![i] = "closed"]
    /\ init' = Stale(i)
    /\ Report(i)

MayFail == spawned < MaxSpawns

\* The watchdog of a mutation, or an error on stdin.
Watchdog(i) ==
    /\ MayFail /\ conn[i] = "open"
    /\ Disconnecting(i)
    /\ UNCHANGED <<spawned, current, timer, stopping>>

\* "error" of the child or the socket: nothing is reported before "close".
Failing(i) ==
    /\ MayFail /\ conn[i] = "open"
    /\ conn' = [conn EXCEPT ![i] = "closed"]
    /\ init' = Stale(i)
    /\ UNCHANGED <<spawned, told, current, timer, stopping, ready, recovery>>

OnlyUntold(i) == ~stopping /\ i \notin told                          \* mutant
RestartDue(i) == ~stopping

\* "close" of the child or the socket.
Exit(i) ==
    /\ conn[i] = "closed" \/ (conn[i] = "open" /\ MayFail)
    /\ conn' = [conn EXCEPT ![i] = "gone"]
    /\ init' = Stale(i)
    /\ current' = IF current = i THEN 0 ELSE current
    /\ timer' = (timer \/ RestartDue(i))
    /\ Report(i)
    /\ UNCHANGED <<spawned, stopping>>

RestartWithoutCurrent == ~stopping /\ current = 0

\* retryCurrent: the transport is stopped and its exit restarts; without one the
\* restart is scheduled.
RetryCurrent ==
    /\ timer' = (timer \/ RestartWithoutCurrent)
    /\ IF ~stopping /\ current # 0 /\ conn[current] = "open"
       THEN /\ conn' = [conn EXCEPT ![current] = "closed"]
            /\ Report(current)
       ELSE UNCHANGED <<conn, told, ready, recovery>>
    /\ UNCHANGED <<spawned, current, stopping>>

\* closeSideChat has run out of time: restartForRecovery.
RestartForRecovery ==
    /\ MayFail
    /\ RetryCurrent
    /\ init' = IF current # 0 /\ conn[current] = "open" THEN Stale(current) ELSE init

\* The restart timer is longer than any delay after which an initialisation of
\* the last transport can still fail.
Spawn ==
    /\ timer /\ spawned < MaxSpawns
    /\ \A i \in Conns : init[i] # "stale"
    /\ spawned' = spawned + 1
    /\ current' = spawned + 1
    /\ conn' = [conn EXCEPT ![spawned + 1] = "open"]
    /\ init' = [init EXCEPT ![spawned + 1] = "running"]
    /\ timer' = FALSE
    /\ Handle("connecting")
    /\ UNCHANGED <<told, stopping, ready>>

----
(* Initialisation *)

Initialized(i) ==
    /\ init[i] = "running" /\ conn[i] = "open"
    /\ init' = [init EXCEPT ![i] = "done"]
    /\ ready' = TRUE
    /\ Handle("connected")
    /\ UNCHANGED supervisor

\* An error response, a timeout, an unsupported CLI, or the loss of the transport.
InitFails(i) ==
    /\ init[i] = "stale" \/ (init[i] = "running" /\ MayFail)
    /\ init' = [init EXCEPT ![i] = "failed"]
    /\ RetryCurrent

----
TimerAfterStop == FALSE

\* close: recovery.stop, then supervisor.stop.
Shutdown ==
    /\ ~stopping
    /\ stopping' = TRUE
    /\ timer' = TimerAfterStop
    /\ current' = 0
    /\ IF current # 0 /\ conn[current] = "open"
       THEN /\ conn' = [conn EXCEPT ![current] = "closed"]
            /\ init' = Stale(current)
            /\ told' = told \cup {current}
            /\ ready' = FALSE
            /\ gate' = "disconnected"
            /\ gen' = gen + 2
       ELSE UNCHANGED <<conn, init, told, ready, gate>> /\ gen' = gen + 1
    /\ retry' = 0
    /\ UNCHANGED <<spawned, runs, opened, failures>>

Terminated == stopping /\ (\A i \in Conns : ~Alive(i)) /\ runs = {} /\ UNCHANGED vars

Lose == \E i \in Conns : Watchdog(i) \/ Failing(i) \/ Exit(i)
Settle == \E r \in runs : ReconcileDone(r) \/ ReconcileFails(r)
Initialize == \E i \in Conns : Initialized(i) \/ InitFails(i)

Next == Settle \/ RetryTimer \/ Lose \/ RestartForRecovery \/ Spawn \/ Initialize \/ Shutdown \/ Terminated

Spec == Init /\ [][Next]_vars

\* A closed transport exits (SIGKILL follows SIGTERM), timers fire, requests
\* settle, and a reconciliation ends.
FairSpec ==
    /\ Spec
    /\ WF_vars(\E i \in Conns : conn[i] = "closed" /\ Exit(i))
    /\ WF_vars(Initialize) /\ WF_vars(Settle)
    /\ WF_vars(Spawn) /\ WF_vars(RetryTimer)

----
TypeOK ==
    /\ spawned \in Conns
    /\ conn \in [Conns -> {"none", "open", "closed", "gone"}]
    /\ told \subseteq Conns
    /\ current \in Conns \cup {0}
    /\ timer \in BOOLEAN /\ stopping \in BOOLEAN
    /\ init \in [Conns -> {"none", "running", "stale", "done", "failed"}]
    /\ ready \in BOOLEAN
    /\ gen \in Nat /\ retry \in Nat
    /\ runs \subseteq [gen : Nat, conn : Conns \cup {0}]
    /\ gate \in {"connected", "connecting", "disconnected"}
    /\ opened \in Conns \cup {0} /\ failures \in Nat

\* Mutations pass the gate only while the newest transport is initialised, not
\* reported lost, and has been reconciled itself: a reconciliation of an older
\* connection, or one that ends late, opens nothing.
GateIsReconciled ==
    gate = "connected" /\ ~stopping =>
        /\ current # 0 /\ current \notin told
        /\ init[current] = "done" /\ ready
        /\ opened = current

\* Two App Servers never work on one CODEX_HOME: a new one is spawned when the
\* old one has exited, whichever of its losses, failures and stops came first.
OneServer == \A i, j \in Conns : Alive(i) /\ Alive(j) => i = j

\* Until the server closes there is always an App Server, dying or not, or a
\* timer that brings the next: no order of failures leaves neither.
NeverStranded == ~stopping => timer \/ (current # 0 /\ Alive(current))

\* The three together: whatever order losses, failures, restarts and stops come
\* in, one App Server at a time, always one or a way to the next, and a gate that
\* is open only for the one that serves (supervisor, ConnectionRecovery).
LinkIsSafe == GateIsReconciled /\ OneServer /\ NeverStranded

\* The gate opens again after every loss, failed initialisation and failed
\* reconciliation; and closing the server ends its App Server, whatever was
\* under way (connection-recovery.ts 38-62, app-server-supervisor.ts 21-75).
RecoversOrEnds ==
    []<>(IF stopping THEN \A i \in Conns : ~Alive(i) ELSE gate = "connected")

----
(* The inductive invariant behind GateIsReconciled, OneServer and *)
(* NeverStranded, proved in ServicePartsProofs. *)

\* The transport of the supervisor is the only one alive, and the restart timer
\* is its absence.
Linked ==
    /\ \A i \in Conns : conn[i] = "none" <=> i > spawned
    /\ \A i \in Conns : init[i] = "running" => conn[i] = "open"
    /\ \A i \in Conns : init[i] \in {"running", "stale"} => i = spawned
    /\ \A i \in told : conn[i] \in {"closed", "gone"}
    /\ ~stopping => \A i \in Conns : Alive(i) <=> i = current
    /\ ~stopping => (timer <=> current = 0)
    /\ stopping => ~timer /\ current = 0

Serving(c) == c # 0 /\ c = current /\ c \notin told /\ init[c] = "done" /\ ready

\* What still counts for the recovery is about the transport that serves.
Reconciling ==
    /\ \A r \in runs : r.gen <= gen
    /\ ~stopping =>
        /\ \A r \in runs : r.gen = gen => Serving(r.conn)
        /\ retry # 0 => retry = gen /\ Serving(current)
        /\ gate = "connected" => Serving(current) /\ opened = current

LinkInvariant == TypeOK /\ Linked /\ OneServer /\ Reconciling

====
