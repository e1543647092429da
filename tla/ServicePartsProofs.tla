---- MODULE ServicePartsProofs ----
(*
The parts of the service that are checked side by side, for every number
of transports, files, messages, chats, commits, processes and Turns:
one App Server and a gate that only the connection that serves can open;
the files of a message that was sent are kept; a side chat that cannot
be ended costs nobody else anything; an update is reported as a success
by the build it made; a Turn that is stored as running has its process.
Each part is proved about on its own; a behaviour of all parts is a
behaviour of each, because the others rest.

At the end, six of the parts that MCSmallParts checks for one instance:
requests are carried out once, answers say what was entered, commands
are over when they have been given up, texts in the editor are kept, a
notice comes once and only to who is away, and a reading is not old.
*)
EXTENDS MCServiceParts, Sequences, FiniteSetTheorems, TLAPS

----
(* The link to the App Server (codex-app-server.ts and the recovery). *)

----
(* What the supervisor's transport and the recovery may do in one step. *)

\* Nothing that counts for the recovery survives handle, except the
\* reconciliation that a new connection starts.
LEMMA HandleDrops ==
  ASSUME TypeOK, Reconciling, NEW state \in {"connecting", "disconnected"}, Handle(state)
  PROVE  /\ gen' \in Nat /\ retry' \in Nat
         /\ runs' \subseteq [gen : Nat, conn : Conns \cup {0}]
         /\ gate' = state /\ opened' = opened /\ failures' = failures
         /\ \A r \in runs' : r.gen < gen'
         /\ retry' = 0
<1>1. gen' = gen + 1 /\ retry' = 0 /\ gate' = state /\ runs' = runs /\ UNCHANGED <<opened, failures>>
  BY DEF Handle
<1>2. \A r \in runs : r.gen \in Nat /\ r.gen <= gen BY DEF TypeOK, Reconciling
<1> QED BY <1>1, <1>2 DEF TypeOK

\* reportDisconnected leaves a connection that does not serve, with nothing that
\* could open the gate.
LEMMA ReportCloses ==
  ASSUME TypeOK, Reconciling, ~stopping, NEW i \in Conns, i = current, Report(i)
  PROVE  /\ told' = told \cup {i} /\ ready' \in BOOLEAN
         /\ gen' \in Nat /\ retry' = 0
         /\ runs' \subseteq [gen : Nat, conn : Conns \cup {0}]
         /\ gate' \in {"connecting", "disconnected"} /\ opened' = opened /\ failures' = failures
         /\ \A r \in runs' : r.gen < gen'
<1>1. CASE i \in told
  <2>1. UNCHANGED <<told, ready, recovery>> BY <1>1 DEF Report
  <2>2. ~Serving(current) /\ \A r \in runs : ~Serving(r.conn) BY <1>1 DEF Serving
  <2>3. \A r \in runs : r.gen \in Nat /\ r.gen <= gen /\ r.gen # gen BY <2>2 DEF TypeOK, Reconciling
  <2>4. retry = 0 /\ gate # "connected" BY <2>2 DEF Reconciling
  <2> QED BY <1>1, <2>1, <2>3, <2>4 DEF TypeOK, recovery
<1>2. CASE i \notin told
  <2>1. told' = told \cup {i} /\ ready' = FALSE /\ Handle("disconnected") BY <1>2 DEF Report
  <2> QED BY <2>1, HandleDrops
<1> QED BY <1>1, <1>2

\* After the server has closed only the types of the recovery's state matter.
LEMMA ReportTyped ==
  ASSUME TypeOK, Reconciling, NEW i \in Conns, Report(i)
  PROVE  /\ told' = told \cup {i} /\ ready' \in BOOLEAN
         /\ gen' \in Nat /\ retry' \in Nat
         /\ runs' \subseteq [gen : Nat, conn : Conns \cup {0}]
         /\ gate' \in {"connected", "connecting", "disconnected"}
         /\ opened' = opened /\ failures' = failures
         /\ \A r \in runs' : r.gen <= gen'
<1>1. CASE i \in told
  <2>1. UNCHANGED <<told, ready, recovery>> BY <1>1 DEF Report
  <2> QED BY <1>1, <2>1 DEF TypeOK, recovery, Reconciling
<1>2. CASE i \notin told
  <2>1. told' = told \cup {i} /\ ready' = FALSE /\ Handle("disconnected") BY <1>2 DEF Report
  <2>2. gen' \in Nat /\ runs' \subseteq [gen : Nat, conn : Conns \cup {0}] /\ \A r \in runs' : r.gen < gen'
    BY <2>1, HandleDrops
  <2>3. \A r \in runs' : r.gen <= gen' BY <2>2
  <2> QED BY <2>1, <2>2, <2>3, HandleDrops
<1> QED BY <1>1, <1>2

----
(* The invariant holds initially, and each action preserves it. *)

LEMMA LinkInit == Init => LinkInvariant
<1> SUFFICES ASSUME Init PROVE LinkInvariant OBVIOUS
<1> USE BoundsAssumption
<1>1. TypeOK
  <2>1. 1 \in Conns BY DEF Conns
  <2>2. conn \in [Conns -> {"none", "open", "closed", "gone"}] BY <2>1 DEF Init
  <2>3. init \in [Conns -> {"none", "running", "stale", "done", "failed"}] BY <2>1 DEF Init
  <2> QED BY <2>1, <2>2, <2>3 DEF Init, TypeOK
<1>2. Linked BY DEF Init, Linked, Conns, Alive
<1>3. OneServer BY DEF Init, OneServer, Conns, Alive
<1>4. Reconciling BY DEF Init, Reconciling, Serving
<1> QED BY <1>1, <1>2, <1>3, <1>4 DEF LinkInvariant

LEMMA SettleStep == ASSUME LinkInvariant, NEW r \in runs, ReconcileDone(r) \/ ReconcileFails(r) PROVE LinkInvariant'
<1> USE DEF LinkInvariant
<1>1. UNCHANGED <<supervisor, adapter, gen>> /\ runs' = runs \ {r} BY DEF ReconcileDone, ReconcileFails
<1>2. r.gen \in Nat /\ r.conn \in Conns \cup {0} BY DEF TypeOK
<1>3. TypeOK' BY <1>1, <1>2 DEF TypeOK, supervisor, adapter, ReconcileDone, ReconcileFails, RetryOf
<1>4. Linked' /\ OneServer' BY <1>1 DEF Linked, OneServer, Alive, supervisor, adapter
<1>5. \A c : Serving(c)' <=> Serving(c) BY <1>1 DEF Serving, supervisor, adapter
<1>6. Reconciling'
  <2>1. \A q \in runs' : q.gen <= gen' BY <1>1 DEF Reconciling
  <2>2. ASSUME ~stopping' PROVE \A q \in runs' : q.gen = gen' => Serving(q.conn)'
    BY <2>2, <1>1, <1>5 DEF Reconciling, supervisor
  <2>3. ASSUME ~stopping', Newest(r) PROVE r.gen = gen /\ Serving(r.conn) /\ r.conn = current /\ current' = current
    BY <2>3, <1>1 DEF Reconciling, Newest, Serving, supervisor
  <2>4. ASSUME ~stopping', retry' # 0 PROVE retry' = gen' /\ Serving(current)'
    <3>1. CASE retry' = retry BY <2>4, <3>1, <1>1, <1>5 DEF Reconciling, supervisor, Serving
    <3>2. CASE retry' # retry
      <4>1. Newest(r) /\ retry' = r.gen BY <3>2 DEF ReconcileDone, ReconcileFails, RetryOf
      <4> QED BY <4>1, <2>3, <2>4, <1>1, <1>5 DEF Serving
    <3> QED BY <3>1, <3>2
  <2>5. ASSUME ~stopping', gate' = "connected" PROVE Serving(current)' /\ opened' = current'
    <3>1. CASE ReconcileDone(r) /\ Newest(r) BY <3>1, <2>3, <2>5, <1>5 DEF ReconcileDone, Serving
    <3>2. CASE ~(ReconcileDone(r) /\ Newest(r))
      <4>1. gate = "connected" /\ opened' = opened BY <3>2, <2>5 DEF ReconcileDone, ReconcileFails
      <4> QED BY <4>1, <2>5, <1>1, <1>5 DEF Reconciling, supervisor, Serving
    <3> QED BY <3>1, <3>2
  <2> QED BY <2>1, <2>2, <2>4, <2>5 DEF Reconciling
<1> QED BY <1>3, <1>4, <1>6

LEMMA RetryTimerStep == ASSUME LinkInvariant, RetryTimer PROVE LinkInvariant'
<1> USE DEF LinkInvariant
<1>1. UNCHANGED <<supervisor, adapter, gen, opened, failures>> /\ retry # 0 /\ retry' = 0 BY DEF RetryTimer
<1>2. TypeOK' BY <1>1 DEF TypeOK, supervisor, adapter, RetryTimer, Run
<1>3. Linked' /\ OneServer' BY <1>1 DEF Linked, OneServer, Alive, supervisor, adapter
<1>4. \A c : Serving(c)' <=> Serving(c) BY <1>1 DEF Serving, supervisor, adapter
<1>5. Reconciling'
  <2>1. runs' \subseteq runs \cup {Run(gen)} BY DEF RetryTimer
  <2>2. Run(gen).gen = gen /\ Run(gen).conn = current BY DEF Run
  <2>3. \A q \in runs' : q.gen <= gen' BY <1>1, <2>1, <2>2 DEF TypeOK, Reconciling
  <2>4. ASSUME ~stopping' PROVE \A q \in runs' : q.gen = gen' => Serving(q.conn)'
    <3>1. Serving(current) BY <2>4, <1>1 DEF Reconciling, supervisor
    <3> QED BY <2>4, <3>1, <1>1, <1>4, <2>1, <2>2 DEF Reconciling, supervisor
  <2>5. ASSUME ~stopping', gate' = "connected" PROVE Serving(current)' /\ opened' = current'
    BY <2>5, <1>1, <1>4 DEF RetryTimer, Reconciling, supervisor, Serving
  <2> QED BY <1>1, <2>3, <2>4, <2>5 DEF Reconciling
<1> QED BY <1>2, <1>3, <1>5

\* A step that starts a new generation with nothing under way keeps the recovery
\* in order.
LEMMA NothingCounts ==
  ASSUME gen' \in Nat, runs' \subseteq [gen : Nat, conn : Conns \cup {0}],
         \A r \in runs' : r.gen < gen', retry' = 0, gate' # "connected"
  PROVE  Reconciling'
<1>1. \A r \in runs' : r.gen \in Nat /\ r.gen <= gen' /\ r.gen # gen' OBVIOUS
<1> QED BY <1>1 DEF Reconciling

\* The loss of a transport, reported or not, closes what it served.
LEMMA ReportReconciles ==
  ASSUME TypeOK, Linked, Reconciling, NEW i \in Conns, Alive(i), Report(i), UNCHANGED stopping
  PROVE  Reconciling'
<1>1. CASE stopping BY <1>1, ReportTyped DEF Reconciling
<1>2. CASE ~stopping
  <2>1. i = current BY <1>2 DEF Linked
  <2> QED BY <1>2, <2>1, ReportCloses, NothingCounts
<1> QED BY <1>1, <1>2

LEMMA WatchdogStep == ASSUME LinkInvariant, NEW i \in Conns, Watchdog(i) PROVE LinkInvariant'
<1> USE DEF LinkInvariant
<1>1. conn[i] = "open" /\ conn' = [conn EXCEPT ![i] = "closed"] /\ init' = Stale(i) /\ Report(i)
  BY DEF Watchdog, Disconnecting
<1>2. UNCHANGED <<spawned, current, timer, stopping>> BY DEF Watchdog
<1>3. TypeOK' BY <1>1, <1>2, ReportTyped DEF TypeOK, Stale
<1>4. \A j \in Conns : Alive(j)' <=> Alive(j) BY <1>1 DEF TypeOK, Alive
<1>5. Linked'
  <2>1. told' = told \cup {i} BY <1>1, ReportTyped
  <2> QED BY <1>1, <1>2, <1>4, <2>1 DEF TypeOK, Linked, Stale
<1>6. OneServer' BY <1>4 DEF OneServer
<1>7. Reconciling' BY <1>1, <1>2, ReportReconciles DEF Alive
<1> QED BY <1>3, <1>5, <1>6, <1>7

LEMMA FailingStep == ASSUME LinkInvariant, NEW i \in Conns, Failing(i) PROVE LinkInvariant'
<1> USE DEF LinkInvariant
<1>1. conn[i] = "open" /\ conn' = [conn EXCEPT ![i] = "closed"] /\ init' = Stale(i) BY DEF Failing
<1>2. UNCHANGED <<spawned, told, current, timer, stopping, ready, recovery>> BY DEF Failing
<1>3. TypeOK' BY <1>1, <1>2 DEF TypeOK, Stale, recovery
<1>4. \A j \in Conns : Alive(j)' <=> Alive(j) BY <1>1 DEF TypeOK, Alive
<1>5. Linked' BY <1>1, <1>2, <1>4 DEF TypeOK, Linked, Stale
<1>6. OneServer' BY <1>4 DEF OneServer
<1>7. \A c \in Conns \cup {0} : Serving(c) => Serving(c)' BY <1>1, <1>2 DEF TypeOK, Serving, Stale
<1>8. Reconciling' BY <1>2, <1>7 DEF TypeOK, Reconciling, recovery
<1> QED BY <1>3, <1>5, <1>6, <1>8

LEMMA ExitStep == ASSUME LinkInvariant, NEW i \in Conns, Exit(i) PROVE LinkInvariant'
<1> USE DEF LinkInvariant
<1>1. Alive(i) /\ conn' = [conn EXCEPT ![i] = "gone"] /\ init' = Stale(i) /\ Report(i) BY DEF Exit, Alive
<1>2. /\ UNCHANGED <<spawned, stopping>>
      /\ current' = IF current = i THEN 0 ELSE current
      /\ timer' = (timer \/ ~stopping)
  BY DEF Exit, RestartDue
<1>3. TypeOK' BY <1>1, <1>2, ReportTyped DEF TypeOK, Stale
<1>4. \A j \in Conns : Alive(j)' <=> Alive(j) /\ j # i BY <1>1 DEF TypeOK, Alive
<1>5. Linked'
  <2>1. told' = told \cup {i} BY <1>1, ReportTyped
  <2>2. (\A j \in Conns : conn[j] = "none" <=> j > spawned)' /\ (\A j \in told : conn[j] \in {"closed", "gone"})'
    BY <1>1, <1>2, <2>1 DEF TypeOK, Linked, Alive
  <2>3. (\A j \in Conns : (init[j] = "running" => conn[j] = "open") /\ (init[j] \in {"running", "stale"} => j = spawned))'
    BY <1>1, <1>2 DEF TypeOK, Linked, Stale
  <2>4. ASSUME ~stopping PROVE current = i /\ current' = 0 /\ timer' BY <2>4, <1>1, <1>2 DEF Linked
  <2>5. ASSUME ~stopping PROVE \A j \in Conns : Alive(j)' <=> j = current'
    BY <2>4, <2>5, <1>4 DEF Linked, Conns
  <2>6. ASSUME stopping PROVE ~timer' /\ current' = 0 BY <2>6, <1>2 DEF Linked, TypeOK
  <2> QED BY <1>2, <2>2, <2>3, <2>4, <2>5, <2>6 DEF Linked
<1>6. OneServer' BY <1>4 DEF OneServer
<1>7. Reconciling' BY <1>1, <1>2, ReportReconciles
<1> QED BY <1>3, <1>5, <1>6, <1>7

\* retryCurrent: also for the adapter whose initialisation may just have failed.
LEMMA RetryCurrentStep ==
  ASSUME LinkInvariant, RetryCurrent,
         init' \in [Conns -> {"none", "running", "stale", "done", "failed"}],
         \A j \in Conns : init'[j] = "running" => init[j] = "running" /\ conn'[j] = "open",
         \A j \in Conns : init'[j] = "stale" => init[j] \in {"running", "stale"},
         \A j \in Conns : init[j] = "done" => init'[j] = "done"
  PROVE  LinkInvariant'
<1> USE DEF LinkInvariant
<1>1. UNCHANGED <<spawned, current, stopping>> /\ timer' = timer
  BY DEF RetryCurrent, RestartWithoutCurrent, Linked, TypeOK
<1>2. CASE ~stopping /\ current # 0 /\ conn[current] = "open"
  <2>1. conn' = [conn EXCEPT ![current] = "closed"] /\ Report(current) /\ current \in Conns
    BY <1>2 DEF RetryCurrent, TypeOK
  <2>2. TypeOK' BY <1>1, <2>1, ReportTyped DEF TypeOK
  <2>3. \A j \in Conns : Alive(j)' <=> Alive(j) BY <1>2, <2>1 DEF TypeOK, Alive
  <2>4. Linked'
    <3>1. told' = told \cup {current} BY <2>1, ReportTyped
    <3>2. (\A j \in Conns : conn[j] = "none" <=> j > spawned)' /\ (\A j \in told : conn[j] \in {"closed", "gone"})'
      BY <1>1, <1>2, <2>1, <3>1 DEF TypeOK, Linked
    <3> QED BY <1>1, <2>3, <3>2 DEF Linked
  <2>5. OneServer' BY <2>3 DEF OneServer
  <2>6. Reconciling' BY <1>1, <1>2, <2>1, ReportReconciles DEF Alive
  <2> QED BY <2>2, <2>4, <2>5, <2>6
<1>3. CASE ~(~stopping /\ current # 0 /\ conn[current] = "open")
  <2>1. UNCHANGED <<conn, told, ready, recovery>> BY <1>3 DEF RetryCurrent
  <2>2. TypeOK' BY <1>1, <2>1 DEF TypeOK, recovery
  <2>3. Linked' /\ OneServer' BY <1>1, <2>1 DEF Linked, OneServer, Alive
  <2>4. \A c \in Conns \cup {0} : Serving(c) => Serving(c)' BY <1>1, <2>1 DEF Serving
  <2>5. Reconciling' BY <1>1, <2>1, <2>4 DEF TypeOK, Reconciling, recovery
  <2> QED BY <2>2, <2>3, <2>5
<1> QED BY <1>2, <1>3

LEMMA RestartForRecoveryStep == ASSUME LinkInvariant, RestartForRecovery PROVE LinkInvariant'
<1> USE DEF LinkInvariant
<1>1. RetryCurrent /\ init' = IF current # 0 /\ conn[current] = "open" THEN Stale(current) ELSE init
  BY DEF RestartForRecovery
<1>2. init' \in [Conns -> {"none", "running", "stale", "done", "failed"}] /\ \A j \in Conns : init[j] = "done" => init'[j] = "done"
  BY <1>1 DEF TypeOK, Stale
<1>3. stopping => current = 0 BY DEF Linked
<1>4. \A j \in Conns : init'[j] = "running" => init[j] = "running" /\ conn'[j] = "open"
  BY <1>1, <1>3 DEF TypeOK, Linked, Stale, RetryCurrent
<1>5. \A j \in Conns : init'[j] = "stale" => init[j] \in {"running", "stale"} BY <1>1 DEF TypeOK, Stale
<1> QED BY <1>1, <1>2, <1>4, <1>5, RetryCurrentStep

LEMMA InitFailsStep == ASSUME LinkInvariant, NEW i \in Conns, InitFails(i) PROVE LinkInvariant'
<1> USE DEF LinkInvariant
<1>1. RetryCurrent /\ init' = [init EXCEPT ![i] = "failed"] /\ init[i] \in {"stale", "running"} BY DEF InitFails
<1>2. init' \in [Conns -> {"none", "running", "stale", "done", "failed"}] /\ \A j \in Conns : init[j] = "done" => init'[j] = "done"
  BY <1>1 DEF TypeOK
<1>3. \A j \in Conns : init'[j] # "running" /\ (init'[j] = "stale" => init[j] \in {"running", "stale"})
  BY <1>1 DEF TypeOK, Linked
<1> QED BY <1>1, <1>2, <1>3, RetryCurrentStep

LEMMA SpawnStep == ASSUME LinkInvariant, Spawn PROVE LinkInvariant'
<1> USE DEF LinkInvariant
<1> DEFINE n == spawned + 1
<1>1. timer /\ n \in Conns /\ \A i \in Conns : init[i] # "stale"
  <2>1. spawned \in 1 .. MaxSpawns /\ spawned < MaxSpawns /\ MaxSpawns \in Nat
    BY BoundsAssumption DEF Spawn, TypeOK, Conns
  <2>2. n \in Conns BY <2>1 DEF Conns
  <2> QED BY <2>2 DEF Spawn
<1>2. /\ spawned' = n /\ current' = n
      /\ conn' = [conn EXCEPT ![n] = "open"] /\ init' = [init EXCEPT ![n] = "running"]
      /\ timer' = FALSE /\ Handle("connecting") /\ UNCHANGED <<told, stopping, ready>>
  BY DEF Spawn
<1>3. ~stopping /\ current = 0 /\ conn[n] = "none" /\ n \notin told /\ \A i \in Conns : ~Alive(i)
  BY <1>1 DEF Linked, TypeOK, Conns
<1>4. TypeOK'
  <2>1. /\ gen' \in Nat /\ retry' \in Nat /\ gate' = "connecting"
        /\ runs' \subseteq [gen : Nat, conn : Conns \cup {0}]
        /\ UNCHANGED <<opened, failures>>
    BY <1>2, HandleDrops
  <2> QED BY <1>1, <1>2, <2>1 DEF TypeOK
<1>5. \A j \in Conns : Alive(j)' <=> j = n BY <1>1, <1>2, <1>3 DEF TypeOK, Alive
<1>6. Linked'
  <2>1. (\A j \in Conns : conn[j] = "none" <=> j > spawned)' BY <1>1, <1>2 DEF TypeOK, Linked, Conns
  <2>2. \A j \in Conns : init[j] # "running" BY <1>3 DEF Linked, Alive
  <2>3. (\A j \in Conns : (init[j] = "running" => conn[j] = "open") /\ (init[j] \in {"running", "stale"} => j = spawned))'
    BY <1>1, <1>2, <2>2 DEF TypeOK
  <2>4. (\A j \in told : conn[j] \in {"closed", "gone"})' BY <1>2, <1>3 DEF TypeOK, Linked
  <2>5. current' # 0 BY <1>2 DEF TypeOK, Conns
  <2> QED BY <1>2, <1>3, <1>5, <2>1, <2>3, <2>4, <2>5 DEF Linked
<1>7. OneServer' BY <1>5 DEF OneServer
<1>8. Reconciling' BY <1>2, HandleDrops, NothingCounts
<1> QED BY <1>4, <1>6, <1>7, <1>8

LEMMA InitializedStep == ASSUME LinkInvariant, NEW i \in Conns, Initialized(i) PROVE LinkInvariant'
<1> USE DEF LinkInvariant
<1>1. /\ init[i] = "running" /\ conn[i] = "open"
      /\ init' = [init EXCEPT ![i] = "done"] /\ ready' = TRUE /\ UNCHANGED supervisor
  BY DEF Initialized
<1>2. /\ gen' = gen + 1 /\ retry' = 0 /\ gate' = "connecting"
      /\ runs' = runs \cup {Run(gen + 1)} /\ UNCHANGED <<opened, failures>>
  BY DEF Initialized, Handle
<1>3. Run(gen + 1).gen = gen + 1 /\ Run(gen + 1).conn = current /\ Run(gen + 1) \in [gen : Nat, conn : Conns \cup {0}]
  BY DEF Run, TypeOK
<1>4. TypeOK' BY <1>1, <1>2, <1>3 DEF TypeOK, supervisor
<1>5. Linked' /\ OneServer' BY <1>1 DEF TypeOK, Linked, OneServer, Alive, supervisor
<1>6. Reconciling'
  <2>1. \A r \in runs : r.gen \in Nat /\ r.gen <= gen BY DEF TypeOK, Reconciling
  <2>2. \A r \in runs' : r.gen <= gen' /\ (r.gen = gen' => r.conn = current) BY <1>2, <1>3, <2>1 DEF TypeOK
  <2>3. ASSUME ~stopping PROVE Serving(current)'
    <3>1. i = current /\ i # 0 BY <2>3, <1>1 DEF Linked, Alive, Conns
    <3>2. i \notin told BY <1>1 DEF Linked
    <3> QED BY <1>1, <3>1, <3>2 DEF Serving, TypeOK, supervisor
  <2> QED BY <1>1, <1>2, <2>2, <2>3 DEF Reconciling, supervisor
<1> QED BY <1>4, <1>5, <1>6

LEMMA ShutdownStep == ASSUME LinkInvariant, Shutdown PROVE LinkInvariant'
<1> USE DEF LinkInvariant
<1>1. ~stopping /\ stopping' /\ ~timer' /\ current' = 0 /\ retry' = 0 /\ UNCHANGED <<spawned, runs, opened, failures>>
  BY DEF Shutdown, TimerAfterStop
<1>2. gen' \in Nat /\ gen' >= gen BY DEF Shutdown, TypeOK
<1>3. Reconciling' BY <1>1, <1>2 DEF TypeOK, Reconciling
<1>4. TypeOK'
  <2>1. CASE current # 0 /\ conn[current] = "open"
    <3>1. /\ conn' = [conn EXCEPT ![current] = "closed"] /\ init' = Stale(current)
          /\ told' = told \cup {current} /\ ready' = FALSE /\ gate' = "disconnected"
      BY <2>1 DEF Shutdown
    <3>2. stopping' \in BOOLEAN /\ timer' \in BOOLEAN BY DEF Shutdown, TimerAfterStop
    <3> QED BY <1>1, <1>2, <2>1, <3>1, <3>2 DEF TypeOK, Stale
  <2>2. CASE ~(current # 0 /\ conn[current] = "open")
    <3>1. UNCHANGED <<conn, init, told, ready, gate>> BY <2>2 DEF Shutdown
    <3>2. stopping' \in BOOLEAN /\ timer' \in BOOLEAN BY DEF Shutdown, TimerAfterStop
    <3> QED BY <1>1, <1>2, <3>1, <3>2 DEF TypeOK
  <2> QED BY <2>1, <2>2
<1>5. \A j \in Conns : Alive(j)' => Alive(j) BY DEF Shutdown, TypeOK, Alive
<1>6. OneServer' BY <1>5 DEF OneServer
<1>7. Linked'
  <2>1. (\A j \in Conns : conn[j] = "none" <=> j > spawned)' BY <1>1 DEF Shutdown, TypeOK, Linked
  <2>2. (\A j \in Conns : (init[j] = "running" => conn[j] = "open") /\ (init[j] \in {"running", "stale"} => j = spawned))'
    BY <1>1 DEF Shutdown, TypeOK, Linked, Stale
  <2>3. (\A j \in told : conn[j] \in {"closed", "gone"})' BY DEF Shutdown, TypeOK, Linked
  <2> QED BY <1>1, <2>1, <2>2, <2>3 DEF Linked
<1> QED BY <1>3, <1>4, <1>6, <1>7
----
\* LinkInvariant is inductive.
THEOREM LinkInductive == Spec => []LinkInvariant
<1>1. ASSUME LinkInvariant, [Next]_vars PROVE LinkInvariant'
  <2>1. CASE Settle BY <1>1, <2>1, SettleStep DEF Settle
  <2>2. CASE RetryTimer BY <1>1, <2>2, RetryTimerStep
  <2>3. CASE Lose BY <1>1, <2>3, WatchdogStep, FailingStep, ExitStep DEF Lose
  <2>4. CASE RestartForRecovery BY <1>1, <2>4, RestartForRecoveryStep
  <2>5. CASE Spawn BY <1>1, <2>5, SpawnStep
  <2>6. CASE Initialize BY <1>1, <2>6, InitializedStep, InitFailsStep DEF Initialize
  <2>7. CASE Shutdown BY <1>1, <2>7, ShutdownStep
  <2>8. CASE UNCHANGED vars
    <3>1. TypeOK' BY <1>1, <2>8 DEF LinkInvariant, TypeOK, vars, supervisor, adapter, recovery
    <3>2. Linked' /\ OneServer'
      BY <1>1, <2>8 DEF LinkInvariant, Linked, OneServer, Alive, vars, supervisor, adapter
    <3>3. Reconciling'
      BY <1>1, <2>8 DEF LinkInvariant, Reconciling, Serving, vars, supervisor, adapter, recovery
    <3> QED BY <3>1, <3>2, <3>3 DEF LinkInvariant
  <2> QED BY <1>1, <2>1, <2>2, <2>3, <2>4, <2>5, <2>6, <2>7, <2>8 DEF Next, Terminated
<1> QED BY <1>1, LinkInit, PTL DEF Spec

\* CodexProcessSupervisor never lets two App Servers work on one CODEX_HOME,
\* however many are spawned and lost.
THEOREM NeverTwoServers == Spec => []OneServer
<1>1. LinkInvariant => OneServer BY DEF LinkInvariant
<1> QED BY <1>1, LinkInductive, PTL

\* While the server runs, a living App Server or the restart timer is there.
THEOREM AlwaysAWayBack == Spec => []NeverStranded
<1>1. LinkInvariant => NeverStranded BY DEF LinkInvariant, TypeOK, Linked, NeverStranded
<1> QED BY <1>1, LinkInductive, PTL

\* ConnectionRecovery opens the gate of server.ts only for the connection that
\* serves and was itself reconciled.
THEOREM GateOpensForServing == Spec => []GateIsReconciled
<1>1. LinkInvariant => GateIsReconciled BY DEF LinkInvariant, Reconciling, Serving, GateIsReconciled
<1> QED BY <1>1, LinkInductive, PTL

\* The connection as server.ts relies on it, for every number of transports and
\* failures: the three invariants at once.
THEOREM LinkKeptSafe == Spec => []LinkIsSafe
<1>1. GateIsReconciled /\ OneServer /\ NeverStranded => LinkIsSafe BY DEF LinkIsSafe
<1> QED BY <1>1, GateOpensForServing, NeverTwoServers, AlwaysAWayBack, PTL

----
(* The attachment store (attachment-store.ts): what a message still has to *)
(* claim stands in todo and seen, and what the App Server has or may take of *)
(* it is released by nobody who does not say so. *)

Places == {"unsent", "claiming", "refused", "asked", "uncertain", "releasing", "resolving",
           "released", "sent"}
Kept == {"none", "partial", "free", "claimed", "gone"}
Sending == [at : Places, files : SUBSET Files, seen : SUBSET Files, todo : SUBSET Files]

FileTypes ==
  /\ dir \in [Files -> Kept] /\ unkept \subseteq Files
  /\ saving \subseteq Files /\ removing \subseteq Files
  /\ message \in [Messages -> Sending]
  /\ has \subseteq Messages /\ pending \subseteq Messages /\ up \in BOOLEAN
  /\ \A m \in Messages : message[m].seen \subseteq message[m].files /\ message[m].todo \subseteq message[m].files

\* Nobody writes over what an upload or a removal works on.
WritersApart ==
  /\ \A f \in saving : dir[f] = "partial"
  /\ \A f \in removing : dir[f] \notin {"none", "partial"}
  /\ ~up => saving = {} /\ removing = {}

\* What was not resolved as not applied and is, or may come to be, at the App Server.
Counts(m) == m \in (has \cup pending) \ doubtful

\* What is left to claim of a message, until it may be sent.
Claimed ==
  \A m \in Messages : \A f \in message[m].files \ unkept :
      /\ message[m].at = "claiming" => f \in message[m].todo \cup message[m].seen \/ dir[f] = "claimed"
      /\ message[m].at = "asked" \/ Counts(m) => dir[f] = "claimed"

\* No claim or release of it is under way.
CountsAtRest ==
  \A m \in Messages :
      /\ Counts(m) => message[m].at \in {"uncertain", "sent"}
      /\ message[m].at = "asked" \/ Counts(m) => message[m].seen \cup message[m].todo = {}

FilesInvariant == FileTypes /\ WritersApart /\ Claimed /\ CountsAtRest

LEMMA FilesTyped ==
  ASSUME FilesInvariant
  PROVE  /\ dir \in [Files -> Kept] /\ message \in [Messages -> Sending]
         /\ saving \subseteq Files /\ removing \subseteq Files /\ unkept \subseteq Files /\ up \in BOOLEAN
         /\ \A m \in Messages : /\ message[m] \in Sending /\ message[m].at \in Places
                                /\ message[m].files \subseteq Files
                                /\ message[m].seen \subseteq message[m].files
                                /\ message[m].todo \subseteq message[m].files
BY DEF FilesInvariant, FileTypes, Sending

\* One message goes on, and what other messages rely on is kept or said not to be.
LEMMA FilesMessageGoesOn ==
  ASSUME FilesInvariant, up, NEW m \in Messages, NEW r \in Sending,
         message' = [message EXCEPT ![m] = r], UNCHANGED <<saving, removing, up>>,
         r.seen \subseteq r.files, r.todo \subseteq r.files,
         has' \in {has, has \cup {m}}, pending' \in {pending, pending \cup {m}},
         doubtful' \in {doubtful, doubtful \cup {m}},
         dir' \in [Files -> Kept], unkept' \subseteq Files, unkept \subseteq unkept',
         \A f \in saving : dir'[f] = dir[f],
         \A f \in removing : dir'[f] \in {dir[f], "free", "claimed"},
         \A n \in Messages \ {m} : \A f \in message[n].files \ unkept' :
             dir[f] = "claimed" /\ (Attachments!OnItsWay(n) \/ Counts(n)) => dir'[f] = "claimed",
         \A f \in r.files \ unkept' :
             /\ r.at = "claiming" => f \in r.todo \cup r.seen \/ dir'[f] = "claimed"
             /\ r.at = "asked" \/ Counts(m)' => dir'[f] = "claimed",
         Counts(m)' => r.at \in {"uncertain", "sent"},
         r.at = "asked" \/ Counts(m)' => r.seen \cup r.todo = {}
  PROVE  FilesInvariant'
<1>1. /\ message'[m] = r /\ \A n \in Messages \ {m} : message'[n] = message[n] /\ (Counts(n)' <=> Counts(n))
  BY DEF FilesInvariant, FileTypes, Counts
<1>2. FileTypes' BY <1>1 DEF FilesInvariant, FileTypes
<1>3. WritersApart' BY DEF FilesInvariant, FileTypes, WritersApart
<1>4. Claimed'
  <2>1. ASSUME NEW n \in Messages \ {m}, NEW f \in message[n].files \ unkept'
        PROVE  /\ message[n].at = "claiming" => f \in message[n].todo \cup message[n].seen \/ dir'[f] = "claimed"
               /\ message[n].at = "asked" \/ Counts(n) => dir'[f] = "claimed"
    BY <2>1 DEF FilesInvariant, Claimed, Attachments!OnItsWay
  <2> QED BY <1>1, <2>1 DEF Claimed
<1>5. CountsAtRest' BY <1>1 DEF FilesInvariant, CountsAtRest
<1> QED BY <1>2, <1>3, <1>4, <1>5 DEF FilesInvariant

\* The files change as uploads and removals have them change.
LEMMA FilesChange ==
  ASSUME FilesInvariant, UNCHANGED <<message, has, pending, doubtful>>,
         dir' \in [Files -> Kept], saving' \subseteq Files, removing' \subseteq Files, up' \in BOOLEAN,
         unkept' \subseteq Files, unkept \subseteq unkept', WritersApart',
         \A f \in Files \ unkept' : dir[f] = "claimed" => dir'[f] = "claimed"
  PROVE  FilesInvariant'
<1>1. FileTypes' BY DEF FilesInvariant, FileTypes
<1>2. \A m \in Messages : Counts(m)' <=> Counts(m) BY DEF Counts
<1>3. Claimed' BY <1>2, FilesTyped DEF FilesInvariant, Claimed
<1>4. CountsAtRest' BY <1>2 DEF FilesInvariant, CountsAtRest
<1> QED BY <1>1, <1>3, <1>4 DEF FilesInvariant

LEMMA FilesUploadStep == ASSUME FilesInvariant, NEW f \in Files, Attachments!Upload(f) PROVE FilesInvariant'
<1>1. /\ up /\ dir[f] = "none" /\ dir' = [dir EXCEPT ![f] = "partial"] /\ saving' = saving \cup {f}
      /\ UNCHANGED <<removing, message, has, pending, doubtful, unkept, up>>
  BY DEF Attachments!Upload, Attachments!taken
<1>2. WritersApart' BY <1>1, FilesTyped DEF FilesInvariant, WritersApart
<1>3. dir' \in [Files -> Kept] BY <1>1, FilesTyped DEF Kept
<1> QED BY <1>1, <1>2, <1>3, FilesTyped, FilesChange

LEMMA FilesUploadedStep == ASSUME FilesInvariant, NEW f \in Files, Attachments!Uploaded(f) PROVE FilesInvariant'
<1>1. PICK end \in {"free", "gone"} : dir' = [dir EXCEPT ![f] = end] BY DEF Attachments!Uploaded
<1>2. /\ f \in saving /\ dir[f] = "partial" /\ saving' = saving \ {f}
      /\ UNCHANGED <<removing, message, has, pending, doubtful, unkept, up>>
  BY DEF Attachments!Uploaded, Attachments!taken, FilesInvariant, WritersApart
<1>3. WritersApart' BY <1>1, <1>2, FilesTyped DEF FilesInvariant, WritersApart
<1>4. dir' \in [Files -> Kept] BY <1>1, FilesTyped DEF Kept
<1> QED BY <1>1, <1>2, <1>3, <1>4, FilesTyped, FilesChange

LEMMA FilesRemoveReadsStep == ASSUME FilesInvariant, NEW f \in Files, Attachments!RemoveReads(f) PROVE FilesInvariant'
<1>1. /\ up /\ dir[f] = "free" /\ removing' = removing \cup {f}
      /\ UNCHANGED <<dir, saving, message, has, pending, doubtful, unkept, up>>
  BY DEF Attachments!RemoveReads, Attachments!taken
<1>2. WritersApart' BY <1>1, FilesTyped DEF FilesInvariant, WritersApart
<1> QED BY <1>1, <1>2, FilesTyped, FilesChange

LEMMA FilesRemoveDeletesStep == ASSUME FilesInvariant, NEW f \in Files, Attachments!RemoveDeletes(f) PROVE FilesInvariant'
<1>1. /\ f \in removing /\ removing' = removing \ {f} /\ dir' = [dir EXCEPT ![f] = "gone"]
      /\ unkept' = IF dir[f] = "claimed" THEN unkept \cup {f} ELSE unkept
      /\ UNCHANGED <<saving, message, has, pending, doubtful, up>>
  BY DEF Attachments!RemoveDeletes, Attachments!taken
<1>2. WritersApart' BY <1>1, FilesTyped DEF FilesInvariant, WritersApart
<1>3. dir' \in [Files -> Kept] BY <1>1, FilesTyped DEF Kept
<1>4. \A g \in Files \ unkept' : dir[g] = "claimed" => dir'[g] = "claimed" BY <1>1, FilesTyped
<1> QED BY <1>1, <1>2, <1>3, <1>4, FilesTyped, FilesChange

LEMMA FilesCrashStep == ASSUME FilesInvariant, Attachments!Crash PROVE FilesInvariant'
<1>1. /\ up' = FALSE /\ saving' = {} /\ removing' = {} /\ UNCHANGED <<dir, has, doubtful, unkept>>
      /\ pending' = pending \cup Attachments!Asked
  BY Zenon DEF Attachments!Crash
<1>0. Attachments!Asked \subseteq Messages /\ \A m \in Messages : m \in Attachments!Asked <=> message[m].at = "asked"
  BY DEF Attachments!Asked
<1>2. ASSUME NEW m \in Messages
      PROVE  /\ message'[m] \in Sending
             /\ message'[m].files = message[m].files /\ message'[m].seen = {} /\ message'[m].todo = {}
             /\ message'[m].at = IF Attachments!OnItsWay(m) THEN "sent" ELSE message[m].at
             /\ Counts(m)' => Counts(m) \/ message[m].at = "asked"
  <2>1. message'[m] = [message[m] EXCEPT !.seen = {}, !.todo = {},
                                         !.at = IF Attachments!OnItsWay(m) THEN "sent" ELSE @]
    BY Zenon DEF Attachments!Crash
  <2>2. message[m] \in Sending BY FilesTyped
  <2> QED BY <1>0, <1>1, <2>1, <2>2 DEF Sending, Places, Counts
<1>3. message' \in [Messages -> Sending]
  <2>1. message' = [m \in Messages |-> message'[m]] BY Zenon DEF Attachments!Crash
  <2> QED BY <2>1, <1>2
<1>4. FileTypes' BY <1>0, <1>1, <1>2, <1>3 DEF FilesInvariant, FileTypes
<1>5. WritersApart' BY <1>1 DEF WritersApart
<1>6. Claimed' BY <1>1, <1>2 DEF FilesInvariant, Claimed, Attachments!OnItsWay
<1>7. CountsAtRest' BY <1>1, <1>2 DEF FilesInvariant, CountsAtRest, Attachments!OnItsWay
<1> QED BY <1>4, <1>5, <1>6, <1>7 DEF FilesInvariant

LEMMA FilesBootStep == ASSUME FilesInvariant, Attachments!Boot PROVE FilesInvariant'
<1>1. PICK days \in SUBSET Files :
        dir' = [f \in Files |-> IF f \in days /\ Attachments!Expired(f) THEN "gone" ELSE dir[f]]
  BY DEF Attachments!Boot
<1>2. /\ ~up /\ up' = TRUE /\ UNCHANGED <<saving, removing, message, has, pending, doubtful, unkept>>
      /\ saving = {} /\ removing = {}
  BY DEF Attachments!Boot, Attachments!taken, FilesInvariant, WritersApart
<1>3. WritersApart' BY <1>2 DEF WritersApart
<1>4. dir' \in [Files -> Kept] BY <1>1, FilesTyped DEF Kept
<1>5. \A f \in Files \ unkept' : dir[f] = "claimed" => dir'[f] = "claimed" BY <1>1 DEF Attachments!Expired
<1> QED BY <1>2, <1>3, <1>4, <1>5, FilesTyped, FilesChange

LEMMA FilesSendStep ==
  ASSUME FilesInvariant, NEW m \in Messages, NEW files \in Drafts, Attachments!Send(m, files)
  PROVE  FilesInvariant'
<1> DEFINE r == [at |-> "claiming", files |-> files, seen |-> {}, todo |-> files]
<1>1. /\ up /\ message[m].at \in {"unsent", "released"}
      /\ message' = [message EXCEPT ![m] = r]
      /\ UNCHANGED <<dir, saving, removing, has, pending, doubtful, unkept, up>>
  BY DEF Attachments!Send, Attachments!disk, Attachments!taken
<1>2. r \in Sending BY PartsAssumption DEF Sending, Places
<1>3. ~Counts(m)' BY <1>1 DEF FilesInvariant, CountsAtRest, Counts
<1> QED BY <1>1, <1>2, <1>3, FilesTyped, FilesMessageGoesOn

LEMMA FilesClaimReadsStep ==
  ASSUME FilesInvariant, NEW m \in Messages, NEW f \in Files, Attachments!ClaimReads(m, f)
  PROVE  FilesInvariant'
<1> DEFINE r == [message[m] EXCEPT
                    !.todo = @ \ {f},
                    !.seen = IF dir[f] = "free" THEN @ \cup {f} ELSE @,
                    !.at = IF Attachments!Readable(f) THEN @ ELSE "refused"]
<1>1. /\ up /\ message[m].at \in {"claiming", "refused"} /\ f \in message[m].todo
      /\ message' = [message EXCEPT ![m] = r]
      /\ UNCHANGED <<dir, saving, removing, has, pending, doubtful, unkept, up>>
  BY DEF Attachments!ClaimReads, Attachments!disk, Attachments!taken
<1>2. /\ r \in Sending /\ r.files = message[m].files /\ r.todo = message[m].todo \ {f}
      /\ r.seen = IF dir[f] = "free" THEN message[m].seen \cup {f} ELSE message[m].seen
      /\ r.at = IF Attachments!Readable(f) THEN message[m].at ELSE "refused"
  BY FilesTyped DEF Sending, Places
<1>3. ~Counts(m)' /\ r.at # "asked" BY <1>1, <1>2 DEF FilesInvariant, CountsAtRest, Counts
<1>4. ASSUME NEW g \in r.files \ unkept, r.at = "claiming" PROVE g \in r.todo \cup r.seen \/ dir[g] = "claimed"
  BY <1>1, <1>2, <1>4 DEF FilesInvariant, Claimed, Attachments!Readable
<1>5. r.seen \subseteq r.files /\ r.todo \subseteq r.files BY <1>1, <1>2, FilesTyped
<1> HIDE DEF r
<1> QED BY <1>1, <1>2, <1>3, <1>4, <1>5, FilesTyped, FilesMessageGoesOn

LEMMA FilesClaimWritesStep ==
  ASSUME FilesInvariant, NEW m \in Messages, NEW f \in Files, Attachments!ClaimWrites(m, f)
  PROVE  FilesInvariant'
<1> DEFINE r == [message[m] EXCEPT !.seen = @ \ {f}, !.at = IF Attachments!Readable(f) THEN @ ELSE "refused"]
<1>1. /\ up /\ message[m].at \in {"claiming", "refused"} /\ f \in message[m].seen
      /\ dir' = IF Attachments!Readable(f) THEN [dir EXCEPT ![f] = "claimed"] ELSE dir
      /\ message' = [message EXCEPT ![m] = r]
      /\ UNCHANGED <<saving, removing, has, pending, doubtful, unkept, up>>
  BY DEF Attachments!ClaimWrites, Attachments!taken
<1>2. /\ r \in Sending /\ r.files = message[m].files /\ r.todo = message[m].todo
      /\ r.seen = message[m].seen \ {f}
      /\ r.at = IF Attachments!Readable(f) THEN message[m].at ELSE "refused"
  BY FilesTyped DEF Sending, Places
<1>3. ~Counts(m)' /\ r.at # "asked" BY <1>1, <1>2 DEF FilesInvariant, CountsAtRest, Counts
<1>4. ASSUME NEW g \in r.files \ unkept, r.at = "claiming" PROVE g \in r.todo \cup r.seen \/ dir'[g] = "claimed"
  BY <1>1, <1>2, <1>4, FilesTyped DEF FilesInvariant, Claimed, Attachments!Readable
<1>5. r.seen \subseteq r.files /\ r.todo \subseteq r.files BY <1>2, FilesTyped
<1> HIDE DEF r
<1>6. /\ dir' \in [Files -> Kept]
      /\ \A g \in Files : dir'[g] \in {dir[g], "claimed"} /\ (g \in saving => dir'[g] = dir[g])
  BY <1>1, FilesTyped DEF Kept, Attachments!Readable, FilesInvariant, WritersApart
<1> QED BY <1>1, <1>2, <1>3, <1>4, <1>5, <1>6, FilesTyped, FilesMessageGoesOn

LEMMA FilesAskStep == ASSUME FilesInvariant, NEW m \in Messages, Attachments!Ask(m) PROVE FilesInvariant'
<1> DEFINE r == [message[m] EXCEPT !.at = "asked"]
<1>1. /\ up /\ message[m].at = "claiming" /\ message[m].todo = {} /\ message[m].seen = {}
      /\ message' = [message EXCEPT ![m] = r]
      /\ UNCHANGED <<dir, saving, removing, has, pending, doubtful, unkept, up>>
  BY DEF Attachments!Ask, Attachments!disk, Attachments!taken
<1>2. /\ r \in Sending /\ r.files = message[m].files /\ r.todo = {} /\ r.seen = {} /\ r.at = "asked"
  BY <1>1, FilesTyped DEF Sending, Places
<1>3. ~Counts(m)' /\ \A f \in r.files \ unkept : dir[f] = "claimed"
  BY <1>1, <1>2 DEF FilesInvariant, CountsAtRest, Claimed, Counts
<1> HIDE DEF r
<1> QED BY <1>1, <1>2, <1>3, FilesTyped, FilesMessageGoesOn

LEMMA FilesAnsweredStep == ASSUME FilesInvariant, NEW m \in Messages, Attachments!Answered(m) PROVE FilesInvariant'
<1>1. PICK answer \in {"applied", "refused", "unknown"} :
        /\ has' = IF answer = "applied" THEN has \cup {m} ELSE has
        /\ pending' \in IF answer = "unknown" THEN {pending, pending \cup {m}} ELSE {pending}
        /\ message' = [message EXCEPT
                ![m].at = IF answer = "refused" THEN "releasing" ELSE IF answer = "applied" THEN "sent" ELSE "uncertain",
                ![m].todo = IF answer = "refused" THEN message[m].files ELSE {}]
  BY DEF Attachments!Answered, Attachments!Releases
<1> DEFINE r == [message[m] EXCEPT
                    !.at = IF answer = "refused" THEN "releasing" ELSE IF answer = "applied" THEN "sent" ELSE "uncertain",
                    !.todo = IF answer = "refused" THEN message[m].files ELSE {}]
<1>2. up /\ message[m].at = "asked" /\ UNCHANGED <<dir, saving, removing, doubtful, unkept, up>>
  BY DEF Attachments!Answered, Attachments!disk
<1>3. message' = [message EXCEPT ![m] = r] BY <1>1, FilesTyped
<1>4. /\ r \in Sending /\ r.files = message[m].files /\ r.seen = message[m].seen
      /\ r.todo = IF answer = "refused" THEN message[m].files ELSE {}
      /\ r.at = IF answer = "refused" THEN "releasing" ELSE IF answer = "applied" THEN "sent" ELSE "uncertain"
  BY FilesTyped DEF Sending, Places
<1>5. ~Counts(m) /\ message[m].seen = {} /\ \A f \in r.files \ unkept : dir[f] = "claimed"
  BY <1>2, <1>4 DEF FilesInvariant, CountsAtRest, Claimed
<1> HIDE DEF r
<1>6. /\ answer = "refused" => ~Counts(m)'
      /\ has' \in {has, has \cup {m}} /\ pending' \in {pending, pending \cup {m}}
      /\ r.at \in {"releasing", "sent", "uncertain"} /\ (Counts(m)' => r.at # "releasing" /\ r.todo = {})
      /\ r.seen \subseteq r.files /\ r.todo \subseteq r.files
  <2>1. answer = "refused" => ~Counts(m)' BY <1>1, <1>2, <1>5 DEF Counts
  <2> QED BY <2>1, <1>1, <1>4, <1>5
<1> QED BY <1>2, <1>3, <1>4, <1>5, <1>6, FilesTyped, FilesMessageGoesOn

LEMMA FilesTakesLateStep == ASSUME FilesInvariant, NEW m \in Messages, Attachments!TakesLate(m) PROVE FilesInvariant'
<1>1. /\ m \in pending /\ has' = has \cup {m} /\ pending' = pending \ {m}
      /\ UNCHANGED <<dir, saving, removing, message, doubtful, unkept, up>>
  BY DEF Attachments!TakesLate, Attachments!disk
<1>2. \A n \in Messages : Counts(n)' <=> Counts(n) BY <1>1 DEF Counts
<1> QED BY <1>1, <1>2 DEF FilesInvariant, FileTypes, WritersApart, Claimed, CountsAtRest

LEMMA FilesResolveStep == ASSUME FilesInvariant, NEW m \in Messages, Attachments!Resolve(m) PROVE FilesInvariant'
<1> DEFINE r == IF m \in has THEN [message[m] EXCEPT !.at = "sent"]
                ELSE [message[m] EXCEPT !.at = "resolving", !.todo = message[m].files]
<1>1. /\ up /\ message[m].at = "uncertain" /\ UNCHANGED <<dir, saving, removing, has, pending, unkept, up>>
      /\ doubtful' = doubtful \cup ({m} \cap pending)
      /\ message' = [message EXCEPT ![m] = r]
  BY FilesTyped DEF Attachments!Resolve, Attachments!disk
<1>2. /\ r \in Sending /\ r.files = message[m].files /\ r.seen = message[m].seen
      /\ r.todo = IF m \in has THEN message[m].todo ELSE message[m].files
      /\ r.at = IF m \in has THEN "sent" ELSE "resolving"
  BY FilesTyped DEF Sending, Places
<1>3. Counts(m)' => m \in has /\ Counts(m) BY <1>1 DEF Counts
<1>4. Counts(m)' => r.at = "sent" /\ r.seen \cup r.todo = {} /\ \A f \in r.files \ unkept : dir[f] = "claimed"
  BY <1>2, <1>3 DEF FilesInvariant, Claimed, CountsAtRest
<1>5. doubtful' \in {doubtful, doubtful \cup {m}} BY <1>1
<1>6. r.at \notin {"claiming", "asked"} /\ r.seen \subseteq r.files /\ r.todo \subseteq r.files BY <1>2, FilesTyped
<1> HIDE DEF r
<1> QED BY <1>1, <1>2, <1>4, <1>5, <1>6, FilesTyped, FilesMessageGoesOn

LEMMA FilesReleaseReadsStep ==
  ASSUME FilesInvariant, NEW m \in Messages, NEW f \in Files, Attachments!ReleaseReads(m, f)
  PROVE  FilesInvariant'
<1> DEFINE r == [message[m] EXCEPT
                    !.todo = @ \ {f},
                    !.seen = IF dir[f] = "claimed" THEN @ \cup {f} ELSE @,
                    !.at = IF Attachments!Readable(f) THEN @ ELSE Attachments!Failed(@)]
<1>1. /\ up /\ f \in message[m].todo /\ message' = [message EXCEPT ![m] = r]
      /\ message[m].at \in {"releasing", "resolving", "released", "uncertain", "sent"}
      /\ UNCHANGED <<dir, saving, removing, has, pending, doubtful, unkept, up>>
  BY DEF Attachments!ReleaseReads, Attachments!Releasing, Attachments!disk, Attachments!taken
<1>2. /\ r \in Sending /\ r.files = message[m].files /\ r.todo = message[m].todo \ {f}
      /\ r.seen = IF dir[f] = "claimed" THEN message[m].seen \cup {f} ELSE message[m].seen
      /\ r.at \in {"releasing", "resolving", "released", "uncertain", "sent"}
  BY <1>1, FilesTyped DEF Sending, Places, Attachments!Failed
<1>3. ~Counts(m)' /\ r.seen \subseteq r.files /\ r.todo \subseteq r.files
  BY <1>1, <1>2, FilesTyped DEF FilesInvariant, CountsAtRest, Counts
<1> HIDE DEF r
<1> QED BY <1>1, <1>2, <1>3, FilesTyped, FilesMessageGoesOn

LEMMA FilesReleaseWritesStep ==
  ASSUME FilesInvariant, NEW m \in Messages, NEW f \in Files, Attachments!ReleaseWrites(m, f)
  PROVE  FilesInvariant'
<1> DEFINE r == [message[m] EXCEPT !.seen = @ \ {f},
                                   !.at = IF Attachments!Readable(f) THEN @ ELSE Attachments!Failed(@)]
<1>1. /\ up /\ f \in message[m].seen /\ message' = [message EXCEPT ![m] = r]
      /\ message[m].at \in {"releasing", "resolving", "released", "uncertain", "sent"}
      /\ dir' = IF Attachments!Readable(f) THEN [dir EXCEPT ![f] = "free"] ELSE dir
      /\ unkept' = IF \E n \in Attachments!Rely(m) : f \in message[n].files THEN unkept \cup {f} ELSE unkept
      /\ UNCHANGED <<saving, removing, has, pending, doubtful, up>>
  BY DEF Attachments!ReleaseWrites, Attachments!Releasing, Attachments!taken
<1>2. /\ r \in Sending /\ r.files = message[m].files /\ r.todo = message[m].todo
      /\ r.seen = message[m].seen \ {f}
      /\ r.at \in {"releasing", "resolving", "released", "uncertain", "sent"}
  BY <1>1, FilesTyped DEF Sending, Places, Attachments!Failed
<1>3. ~Counts(m)' /\ r.seen \subseteq r.files /\ r.todo \subseteq r.files
  BY <1>1, <1>2, FilesTyped DEF FilesInvariant, CountsAtRest, Counts
<1> HIDE DEF r
<1>4. /\ dir' \in [Files -> Kept] /\ unkept' \subseteq Files /\ unkept \subseteq unkept'
      /\ \A g \in Files : dir'[g] = dir[g] \/ (g = f /\ dir'[g] = "free")
      /\ f \in saving => dir'[f] = dir[f]
  BY <1>1, FilesTyped DEF Kept, Attachments!Readable, FilesInvariant, WritersApart
<1>5. ASSUME NEW n \in Messages \ {m}, NEW g \in message[n].files \ unkept', Attachments!OnItsWay(n) \/ Counts(n)
      PROVE  dir'[g] = dir[g]
  <2>1. n \in Attachments!Rely(m) BY <1>5 DEF Attachments!Rely, Counts
  <2>2. g # f /\ g \in Files BY <1>1, <1>5, <2>1, FilesTyped
  <2> QED BY <1>4, <2>2
<1>6. \A n \in Messages \ {m} : \A g \in message[n].files \ unkept' :
        dir[g] = "claimed" /\ (Attachments!OnItsWay(n) \/ Counts(n)) => dir'[g] = "claimed"
  BY <1>5
<1>7. /\ \A g \in saving : dir'[g] = dir[g]
      /\ \A g \in removing : dir'[g] \in {dir[g], "free", "claimed"}
  BY <1>4, FilesTyped
<1> QED BY <1>1, <1>2, <1>3, <1>4, <1>6, <1>7, FilesTyped, FilesMessageGoesOn

LEMMA FilesReleasedStep == ASSUME FilesInvariant, NEW m \in Messages, Attachments!Released(m) PROVE FilesInvariant'
<1> DEFINE r == [message[m] EXCEPT !.at = "released"]
<1>1. /\ up /\ message[m].at \in {"releasing", "resolving"}
      /\ message' = [message EXCEPT ![m] = r]
      /\ UNCHANGED <<dir, saving, removing, has, pending, doubtful, unkept, up>>
  BY DEF Attachments!Released, Attachments!disk, Attachments!taken
<1>2. /\ r \in Sending /\ r.files = message[m].files /\ r.todo = message[m].todo
      /\ r.seen = message[m].seen /\ r.at = "released"
  BY <1>1, FilesTyped DEF Sending, Places
<1>3. ~Counts(m)' BY <1>1 DEF FilesInvariant, CountsAtRest, Counts
<1> HIDE DEF r
<1> QED BY <1>1, <1>2, <1>3, FilesTyped, FilesMessageGoesOn

LEMMA FilesStep ==
  ASSUME FilesInvariant, [Attachments!Next]_Attachments!vars
  PROVE  FilesInvariant'
<1>1. ASSUME NEW f \in Files,
             \/ Attachments!Upload(f) \/ Attachments!Uploaded(f) \/ Attachments!RemoveReads(f)
             \/ Attachments!RemoveDeletes(f)
      PROVE  FilesInvariant'
  BY <1>1, FilesUploadStep, FilesUploadedStep, FilesRemoveReadsStep, FilesRemoveDeletesStep
<1>2. ASSUME NEW m \in Messages,
             \/ \E files \in Drafts : Attachments!Send(m, files)
             \/ \E f \in Files : \/ Attachments!ClaimReads(m, f) \/ Attachments!ClaimWrites(m, f)
                                 \/ Attachments!ReleaseReads(m, f) \/ Attachments!ReleaseWrites(m, f)
             \/ Attachments!Ask(m) \/ Attachments!Answered(m) \/ Attachments!TakesLate(m)
             \/ Attachments!Resolve(m) \/ Attachments!Released(m)
      PROVE  FilesInvariant'
  BY <1>2, FilesSendStep, FilesClaimReadsStep, FilesClaimWritesStep, FilesReleaseReadsStep, FilesReleaseWritesStep, FilesAskStep,
     FilesAnsweredStep, FilesTakesLateStep, FilesResolveStep, FilesReleasedStep
<1>3. CASE UNCHANGED Attachments!vars
  BY <1>3 DEF Attachments!vars, Attachments!disk, Attachments!taken, FilesInvariant, FileTypes, WritersApart,
    Claimed, CountsAtRest, Counts
<1> QED BY <1>1, <1>2, <1>3, FilesCrashStep, FilesBootStep DEF Attachments!Next

LEMMA FilesStart == Attachments!Init => FilesInvariant
BY DEF Attachments!Init, Attachments!Unsent, FilesInvariant, FileTypes, WritersApart, Claimed,
   CountsAtRest, Counts, Sending, Places, Kept

----
(* The self update (self-update): what the task tells while it is at its *)
(* places, and what the file promises to the next start. *)

\* Where the task works towards a restart, before it has built; from the second
\* place on the file says that an update runs.
Building == {"fetched", "installing", "validating", "safe", "deploying", "merged", "building"}

UpdateStatus == [state : {"idle", "running", "restarting", "failed", "succeeded", "upToDate"},
           step : {"idle", "checking", "installing", "validating", "deploying", "restarting", "complete"},
            target : Nat]

UpdateTypes ==
  /\ status \in UpdateStatus /\ saved \in UpdateStatus
  /\ task \in [at : {"none", "checking", "launching", "ending"} \cup Building,
               from : Nat, target : Nat, retry : Nat, forward : BOOLEAN]
  /\ repo \in [remote : Nat \ {0}, head : Nat \ {0}, built : Nat]
  /\ process \in [up : BOOLEAN, loaded : Nat]

\* What the status in memory and the file say while the task is at its places.
TaskIsTold ==
  /\ task.at \in {"checking"} \cup Building => status.state = "running"
  /\ task.at = "launching" => status.state = "restarting" /\ repo.built = repo.head
  /\ task.at = "ending" => status.state \in {"failed", "upToDate"}
  /\ task.at \in {"launching"} \cup Building => saved.state = "running"
  /\ ~process.up => task.at = "none" /\ status.state = "idle"

\* What the file promises the next start is on the disk.
FileIsTrue ==
  /\ saved.state = "restarting" => repo.built = repo.head
  /\ saved.state = "succeeded" => repo.built = saved.target /\ saved.target # 0
  /\ status.state = "succeeded" => saved = status /\ process.loaded = status.target

UpdateInvariant == UpdateTypes /\ TaskIsTold /\ FileIsTrue

LEMMA UpdateFacts ==
  ASSUME UpdateInvariant
  PROVE  /\ status \in UpdateStatus /\ saved \in UpdateStatus
         /\ task.at \in {"none", "checking", "launching", "ending"} \cup Building
         /\ task.from \in Nat /\ task.target \in Nat /\ task.retry \in Nat /\ task.forward \in BOOLEAN
         /\ repo.remote \in Nat \ {0} /\ repo.head \in Nat \ {0} /\ repo.built \in Nat
         /\ process.up \in BOOLEAN /\ process.loaded \in Nat
BY DEF UpdateInvariant, UpdateTypes

\* What a step of the task, or of the repository, has to bring about.
LEMMA UpdateTaskGoesOn ==
  ASSUME UpdateInvariant, UNCHANGED process, process.up,
         status' \in UpdateStatus, saved' \in {saved, status},
         task' \in [at : {"none", "checking", "launching", "ending"} \cup Building,
                    from : Nat, target : Nat, retry : Nat, forward : BOOLEAN],
         repo' \in [remote : Nat \ {0}, head : Nat \ {0}, built : Nat],
         task'.at \in {"checking"} \cup Building => status'.state = "running",
         task'.at = "launching" => status'.state = "restarting" /\ repo'.built = repo'.head,
         task'.at = "ending" => status'.state \in {"failed", "upToDate"},
         task'.at \in {"launching"} \cup Building => saved'.state = "running",
         status'.state # "succeeded" \/ (status' = status /\ saved' = saved),
         saved'.state \in {"restarting", "succeeded"} =>
             \/ saved' = saved /\ repo'.built = repo.built /\ repo'.head = repo.head
             \/ saved'.state = "restarting" /\ repo'.built = repo'.head
  PROVE  UpdateInvariant'
<1>1. UpdateTypes' BY DEF UpdateInvariant, UpdateTypes
<1>2. TaskIsTold' BY DEF TaskIsTold
<1>3. FileIsTrue' BY DEF UpdateInvariant, FileIsTrue
<1> QED BY <1>1, <1>2, <1>3 DEF UpdateInvariant

LEMMA UpdateFailsStep == ASSUME UpdateInvariant, Update!Fails PROVE UpdateInvariant'
BY UpdateTaskGoesOn DEF Update!Fails, Update!At, Update!Save, Update!Patch, Update!Goto, Update!NoTask, UpdateInvariant, UpdateTypes,
   TaskIsTold, FileIsTrue, UpdateStatus, Building

LEMMA UpdateEndsStep == ASSUME UpdateInvariant, Update!Ends PROVE UpdateInvariant'
BY UpdateTaskGoesOn DEF Update!Ends, Update!At, Update!Save, Update!Patch, Update!Goto, Update!NoTask, UpdateInvariant, UpdateTypes,
   TaskIsTold, FileIsTrue, UpdateStatus, Building

LEMMA UpdateFetchStep == ASSUME UpdateInvariant, Update!Fetch PROVE UpdateInvariant'
BY UpdateTaskGoesOn DEF Update!Fetch, Update!At, Update!Save, Update!Patch, Update!Goto, Update!NoTask, UpdateInvariant, UpdateTypes,
   TaskIsTold, FileIsTrue, UpdateStatus, Building

LEMMA UpdateNothingNewStep == ASSUME UpdateInvariant, Update!NothingNew PROVE UpdateInvariant'
<1> DEFINE to == [status EXCEPT !.state = "upToDate", !.step = "complete"]
           then(at) == [task EXCEPT !.at = at]
<1>1. /\ process.up /\ task.at = "fetched" /\ saved' = status /\ UNCHANGED <<process, repo>>
      /\ \/ task' = then("safe") /\ status' = status
         \/ task' = then("ending") /\ status' = to
  BY DEF Update!NothingNew, Update!At, Update!Patch, Update!Goto, Update!Save
<1>2. to \in UpdateStatus /\ to.state = "upToDate" BY UpdateFacts DEF UpdateStatus
<1>3. \A at \in {"safe", "ending"} :
         then(at).at = at /\ then(at) \in [at : {"none", "checking", "launching", "ending"} \cup Building,
                                         from : Nat, target : Nat, retry : Nat, forward : BOOLEAN]
  BY DEF UpdateInvariant, UpdateTypes, Building
<1>4. status.state = "running" /\ saved.state = "running" BY <1>1 DEF UpdateInvariant, TaskIsTold, Building
<1> HIDE DEF to, then
<1> QED BY <1>1, <1>2, <1>3, <1>4, UpdateFacts, UpdateTaskGoesOn DEF Building, UpdateInvariant, UpdateTypes

LEMMA UpdateInstallStep == ASSUME UpdateInvariant, Update!Install PROVE UpdateInvariant'
<1> DEFINE to == [status EXCEPT !.state = "running", !.step = "installing"]
           then == [task EXCEPT !.at = "installing"]
<1>1. /\ process.up /\ task.at = "fetched" /\ status' = to /\ task' = then
      /\ saved' = status /\ UNCHANGED process
      /\ repo' = repo
  BY DEF Update!Install, Update!At, Update!Patch, Update!Goto, Update!Save
<1>2. to \in UpdateStatus /\ to.state = "running" BY UpdateFacts DEF UpdateStatus
<1>3. then.at = "installing" /\ then \in [at : {"none", "checking", "launching", "ending"} \cup Building,
                      from : Nat, target : Nat, retry : Nat, forward : BOOLEAN]
  BY DEF UpdateInvariant, UpdateTypes, Building
<1>4. status.state = "running" /\ saved.state = "running" BY <1>1 DEF UpdateInvariant, TaskIsTold, Building
<1> HIDE DEF to, then
<1> QED BY <1>1, <1>2, <1>3, <1>4, UpdateFacts, UpdateTaskGoesOn DEF Building, UpdateInvariant, UpdateTypes

LEMMA UpdateValidateStep == ASSUME UpdateInvariant, Update!Validate PROVE UpdateInvariant'
<1> DEFINE to == [status EXCEPT !.state = "running", !.step = "validating"]
           then == [task EXCEPT !.at = "validating"]
<1>1. /\ process.up /\ task.at = "installing" /\ status' = to /\ task' = then
      /\ saved' = status /\ UNCHANGED process
      /\ repo' = repo
  BY DEF Update!Validate, Update!At, Update!Patch, Update!Goto, Update!Save
<1>2. to \in UpdateStatus /\ to.state = "running" BY UpdateFacts DEF UpdateStatus
<1>3. then.at = "validating" /\ then \in [at : {"none", "checking", "launching", "ending"} \cup Building,
                      from : Nat, target : Nat, retry : Nat, forward : BOOLEAN]
  BY DEF UpdateInvariant, UpdateTypes, Building
<1>4. status.state = "running" /\ saved.state = "running" BY <1>1 DEF UpdateInvariant, TaskIsTold, Building
<1> HIDE DEF to, then
<1> QED BY <1>1, <1>2, <1>3, <1>4, UpdateFacts, UpdateTaskGoesOn DEF Building, UpdateInvariant, UpdateTypes

LEMMA UpdateValidatedStep == ASSUME UpdateInvariant, Update!Validated PROVE UpdateInvariant'
BY UpdateTaskGoesOn DEF Update!Validated, Update!At, Update!Save, Update!Patch, Update!Goto, Update!NoTask, UpdateInvariant, UpdateTypes,
   TaskIsTold, FileIsTrue, UpdateStatus, Building

LEMMA UpdateDeployStep == ASSUME UpdateInvariant, Update!Deploy PROVE UpdateInvariant'
<1> DEFINE to == [status EXCEPT !.state = "running", !.step = "deploying"]
           then == [task EXCEPT !.at = "deploying"]
<1>1. /\ process.up /\ task.at = "safe" /\ status' = to /\ task' = then
      /\ saved' = saved /\ UNCHANGED process
      /\ repo' = repo
  BY DEF Update!Deploy, Update!At, Update!Patch, Update!Goto, Update!Save
<1>2. to \in UpdateStatus /\ to.state = "running" BY UpdateFacts DEF UpdateStatus
<1>3. then.at = "deploying" /\ then \in [at : {"none", "checking", "launching", "ending"} \cup Building,
                      from : Nat, target : Nat, retry : Nat, forward : BOOLEAN]
  BY DEF UpdateInvariant, UpdateTypes, Building
<1>4. status.state = "running" /\ saved.state = "running" BY <1>1 DEF UpdateInvariant, TaskIsTold, Building
<1> HIDE DEF to, then
<1> QED BY <1>1, <1>2, <1>3, <1>4, UpdateFacts, UpdateTaskGoesOn DEF Building, UpdateInvariant, UpdateTypes

LEMMA UpdateMergeStep == ASSUME UpdateInvariant, Update!Merge PROVE UpdateInvariant'
BY UpdateTaskGoesOn DEF Update!Merge, Update!At, Update!Save, Update!Patch, Update!Goto, Update!NoTask, UpdateInvariant, UpdateTypes,
   TaskIsTold, FileIsTrue, UpdateStatus, Building

LEMMA UpdateRebuildStep == ASSUME UpdateInvariant, Update!Rebuild PROVE UpdateInvariant'
BY UpdateTaskGoesOn DEF Update!Rebuild, Update!At, Update!Save, Update!Patch, Update!Goto, Update!NoTask, UpdateInvariant, UpdateTypes,
   TaskIsTold, FileIsTrue, UpdateStatus, Building

LEMMA UpdateBuiltStep == ASSUME UpdateInvariant, Update!Built PROVE UpdateInvariant'
<1> DEFINE to == [status EXCEPT !.state = "restarting", !.step = "restarting"]
           then == [task EXCEPT !.at = "launching"]
<1>1. /\ process.up /\ task.at = "building" /\ status' = to /\ task' = then
      /\ saved' = saved /\ UNCHANGED process
      /\ repo' = [repo EXCEPT !.built = repo.head]
  BY DEF Update!Built, Update!At, Update!Patch, Update!Goto, Update!Save
<1>2. to \in UpdateStatus /\ to.state = "restarting" BY UpdateFacts DEF UpdateStatus
<1>3. then.at = "launching" /\ then \in [at : {"none", "checking", "launching", "ending"} \cup Building,
                      from : Nat, target : Nat, retry : Nat, forward : BOOLEAN]
  BY DEF UpdateInvariant, UpdateTypes, Building
<1>4. status.state = "running" /\ saved.state = "running" BY <1>1 DEF UpdateInvariant, TaskIsTold, Building
<1> HIDE DEF to, then
<1>5. repo' \in [remote : Nat \ {0}, head : Nat \ {0}, built : Nat] /\ repo'.built = repo'.head
  BY <1>1, UpdateFacts DEF UpdateInvariant, UpdateTypes
<1> QED BY <1>1, <1>2, <1>3, <1>4, <1>5, UpdateTaskGoesOn DEF Building

LEMMA UpdateLaunchStep == ASSUME UpdateInvariant, Update!Launch PROVE UpdateInvariant'
BY UpdateTaskGoesOn DEF Update!Launch, Update!At, Update!Save, Update!Patch, Update!Goto, Update!NoTask, UpdateInvariant, UpdateTypes,
   TaskIsTold, FileIsTrue, UpdateStatus, Building

LEMMA UpdateDownStep ==
  ASSUME UpdateInvariant, Update!Down, UNCHANGED <<saved, repo>>
  PROVE  UpdateInvariant'
<1>1. /\ process' = [process EXCEPT !.up = FALSE] /\ task' = Update!NoTask /\ status' = Update!Idle
  BY DEF Update!Down
<1>2. /\ status' \in UpdateStatus /\ status'.state = "idle" BY <1>1 DEF Update!Idle, UpdateStatus
<1>3. /\ task'.at = "none"
      /\ task' \in [at : {"none", "checking", "launching", "ending"} \cup Building,
                    from : Nat, target : Nat, retry : Nat, forward : BOOLEAN]
  BY <1>1 DEF Update!NoTask
<1>4. process' \in [up : BOOLEAN, loaded : Nat] BY <1>1 DEF UpdateInvariant, UpdateTypes
<1> QED BY <1>2, <1>3, <1>4 DEF UpdateInvariant, UpdateTypes, TaskIsTold, FileIsTrue, Building

LEMMA UpdateStartStep == ASSUME UpdateInvariant, Update!Start PROVE UpdateInvariant'
<1> DEFINE to == [state |-> "running", step |-> "checking", target |-> 0]
           r == Update!Resumable
           then == [Update!NoTask EXCEPT !.at = "checking", !.retry = r]
<1>1. /\ process.up /\ task.at = "none" /\ status' = to /\ task' = then
      /\ UNCHANGED <<saved, repo, process>>
  BY DEF Update!Start
<1>2. to \in UpdateStatus /\ to.state = "running" BY DEF UpdateStatus
<1>3. r \in Nat BY UpdateFacts DEF Update!Resumable, UpdateStatus
<1> HIDE DEF r
<1>4. then.at = "checking" /\ then \in [at : {"none", "checking", "launching", "ending"} \cup Building,
                                        from : Nat, target : Nat, retry : Nat, forward : BOOLEAN]
  BY <1>3 DEF Update!NoTask
<1> HIDE DEF to, then
<1> QED BY <1>1, <1>2, <1>4, UpdateTaskGoesOn DEF Building, UpdateInvariant, UpdateTypes

LEMMA UpdateBootsStep == ASSUME UpdateInvariant, Update!Boot PROVE UpdateInvariant'
<1> DEFINE to == Update!Resumed(saved, repo.head)
<1>1. /\ ~process.up /\ repo.built # 0 /\ process' = [up |-> TRUE, loaded |-> repo.built]
      /\ status' = to /\ saved' = to /\ UNCHANGED <<task, repo>>
  BY DEF Update!Boot
<1>2. /\ to \in UpdateStatus /\ to.target = saved.target
      /\ to.state \notin {"running", "restarting"}
      /\ to.state = "succeeded" =>
            \/ to = saved /\ saved.state = "succeeded"
            \/ saved.state = "restarting" /\ saved.target = repo.head
  BY UpdateFacts DEF Update!Resumed, UpdateStatus
<1> HIDE DEF to
<1>3. UpdateTypes' BY <1>1, <1>2, UpdateFacts DEF UpdateInvariant, UpdateTypes
<1>4. TaskIsTold' BY <1>1 DEF UpdateInvariant, TaskIsTold, Building
<1>5. FileIsTrue' BY <1>1, <1>2, UpdateFacts DEF UpdateInvariant, FileIsTrue
<1> QED BY <1>3, <1>4, <1>5 DEF UpdateInvariant

LEMMA UpdateRepairStep == ASSUME UpdateInvariant, Update!Repair PROVE UpdateInvariant'
<1>1. /\ ~process.up /\ repo.built = 0 /\ UNCHANGED <<status, saved, task, process>>
      /\ repo' = [repo EXCEPT !.built = repo.head]
  BY DEF Update!Repair
<1>2. repo' \in [remote : Nat \ {0}, head : Nat \ {0}, built : Nat] /\ repo'.built = repo'.head
  BY <1>1, UpdateFacts DEF UpdateInvariant, UpdateTypes
<1> QED BY <1>1, <1>2, UpdateFacts DEF UpdateInvariant, UpdateTypes, TaskIsTold, FileIsTrue

LEMMA UpdateRests ==
  ASSUME UpdateInvariant, UNCHANGED <<status, saved, task, process>>, repo'.head = repo.head, repo'.built = repo.built,
         repo' \in [remote : Nat \ {0}, head : Nat \ {0}, built : Nat]
  PROVE  UpdateInvariant'
BY DEF UpdateInvariant, UpdateTypes, TaskIsTold, FileIsTrue

LEMMA UpdateStep == ASSUME UpdateInvariant, [Update!Next]_Update!vars PROVE UpdateInvariant'
<1>1. CASE Update!Task
  BY <1>1, UpdateFailsStep, UpdateEndsStep, UpdateFetchStep, UpdateNothingNewStep, UpdateInstallStep, UpdateValidateStep, UpdateValidatedStep, UpdateDeployStep, UpdateMergeStep,
     UpdateRebuildStep, UpdateBuiltStep, UpdateLaunchStep DEF Update!Task
<1>2. CASE Update!CommandStops
  <2>1. UNCHANGED <<saved, repo>> /\ (Update!Down \/ UNCHANGED <<process, task, status>>)
    BY <1>2 DEF Update!CommandStops
  <2> QED BY <2>1, UpdateDownStep, UpdateRests DEF UpdateInvariant, UpdateTypes
<1>3. CASE Update!Crash BY <1>3, UpdateDownStep DEF Update!Crash
<1>4. CASE Update!Push BY <1>4, UpdateFacts, UpdateRests DEF Update!Push, UpdateInvariant, UpdateTypes
<1>5. CASE \/ Update!RestartAsked \/ Update!RestartLaunched \/ Update!RestartTimesOut
           \/ Update!TurnAsked \/ Update!TurnStarts \/ Update!ScheduledTurn \/ Update!TurnEnds
           \/ UNCHANGED Update!vars
  <2>1. UNCHANGED <<status, saved, task, repo, process>>
    BY <1>5 DEF Update!RestartAsked, Update!RestartLaunched, Update!RestartTimesOut, Update!TurnAsked,
      Update!TurnStarts, Update!ScheduledTurn, Update!TurnEnds, Update!vars
  <2> QED BY <2>1, UpdateRests DEF UpdateInvariant, UpdateTypes
<1> QED BY <1>1, <1>2, <1>3, <1>4, <1>5, UpdateStartStep, UpdateBootsStep, UpdateRepairStep DEF Update!Next

LEMMA UpdateStarts == Update!Init => UpdateInvariant
BY DEF Update!Init, Update!Idle, Update!NoTask, UpdateInvariant, UpdateTypes, TaskIsTold, FileIsTrue, UpdateStatus, Building

----
(* One session of pi (pi-adapter.ts): the living process is the one that the *)
(* maps name, and no process that is being opened has a Turn. *)

PiLines == {"started", "accepted", "refused", "settled", "settled, accepted"}
PiProcess ==
  [at : {"gone", "alive", "dying"}, turn : {0} \cup Pi!Turns, stopping : BOOLEAN, runs : BOOLEAN,
   out : Seq(PiLines)]

PiOp ==
  [kind : {"none", "start", "interrupt"},
   at : {"none", "opening", "ready", "settings", "reading", "prompting", "answer", "aborting"},
   p : Procs \cup {0}, turn : {0} \cup Pi!Turns]

PiTypes ==
  /\ pi \in [Procs -> PiProcess]
  /\ piLive \in Procs \cup {0} /\ loading \in Procs \cup {0}
  /\ op \in PiOp
  /\ reader \in [at : {"none", "opening", "stats"}, p : Procs \cup {0}]
  /\ stored \subseteq Pi!Turns

\* The living process is the one that the maps name; who is dead has nothing left,
\* and who is being opened has nothing yet.
MapsAreTrue ==
  /\ piLive = 0 \/ loading = 0
  /\ \A p \in Procs : Pi!Alive(p) <=> p \in {piLive, loading}
  /\ \A p \in Procs : ~Pi!Alive(p) \/ p = loading => pi[p].turn = 0 /\ ~pi[p].runs /\ pi[p].out = << >>

\* An operation that got beyond the opening is not about a process that is being
\* opened, even if its own has died meanwhile.
OpIsBeyond ==
  /\ op.at = "opening" => op.p = loading /\ loading # 0
  /\ op.at \notin {"none", "opening"} => op.p \in Procs \ {loading}

PiInvariant == PiTypes /\ MapsAreTrue /\ OpIsBeyond /\ Pi!StoredIsWorkedOn

LEMMA PiFacts ==
  ASSUME PiInvariant
  PROVE  /\ \A p \in Procs : /\ pi[p] \in PiProcess /\ p # 0
                             /\ Pi!Alive(p) <=> pi[p].at = "alive"
         /\ piLive \in Procs \cup {0} /\ loading \in Procs \cup {0}
         /\ op \in PiOp /\ reader \in [at : {"none", "opening", "stats"}, p : Procs \cup {0}]
BY PartsAssumption DEF PiInvariant, PiTypes, Pi!Alive

\* At most one process lives; the Turn it works on is the one that is stored.
LEMMA PiLiving ==
  ASSUME PiInvariant, NEW p \in Procs, Pi!Alive(p)
  PROVE  /\ p # 0 /\ (p = piLive \/ p = loading)
         /\ \A q \in Procs \ {p} : ~Pi!Alive(q) /\ pi[q].turn = 0
         /\ stored = {pi[p].turn} \ {0}
<1>1. p # 0 /\ (p = piLive \/ p = loading) BY PiFacts DEF PiInvariant, MapsAreTrue
<1>2. ASSUME NEW q \in Procs \ {p} PROVE ~Pi!Alive(q) /\ pi[q].turn = 0
  BY <1>1, PiFacts DEF PiInvariant, MapsAreTrue
<1> QED BY <1>1, <1>2 DEF PiInvariant, Pi!StoredIsWorkedOn

\* The instance counts as the library does.
LEMMA PiCounts == \A S : Pi!Cardinality(S) = Cardinality(S)
BY DEF Pi!Cardinality, Cardinality

LEMMA PiFresh ==
  ASSUME PiInvariant, NEW p \in Procs, Pi!Alive(p), pi[p].turn = 0
  PROVE  Pi!FreshTurn \in Pi!Turns
<1>1. Cardinality(Procs) \in Nat BY PartsAssumption, FS_CardinalityType
<1>2. 1 \in Pi!Turns /\ 2 \in Pi!Turns /\ 0 \notin Pi!Turns
  <2> DEFINE n == Cardinality(Procs)
  <2>1. n \in Nat /\ Pi!Turns = 1 .. n + 2 BY <1>1, PiCounts DEF Pi!Turns
  <2> HIDE DEF n
  <2> QED BY <2>1
<1>3. stored = {} /\ \A q \in Procs : pi[q].turn = 0 BY PiLiving
<1>4. \E t \in Pi!Turns : t \notin stored \cup {op.turn} \cup {pi[q].turn : q \in Procs}
  <2>1. PICK t \in {1, 2} : t # op.turn OBVIOUS
  <2> QED BY <1>2, <1>3, <2>1
<1> QED BY <1>4 DEF Pi!FreshTurn

\* The living process, which is open, goes on.
LEMMA PiGoesOn ==
  ASSUME PiInvariant, NEW p \in Procs, Pi!Alive(p), p # loading, NEW r \in PiProcess, r.at = "alive",
         pi' = [pi EXCEPT ![p] = r], UNCHANGED <<piLive, loading, reader>>, stored' = {r.turn} \ {0},
         op' \in PiOp, OpIsBeyond'
  PROVE  PiInvariant'
<1>1. /\ pi' \in [Procs -> PiProcess] /\ pi'[p] = r /\ \A q \in Procs \ {p} : pi'[q] = pi[q]
  BY PiFacts DEF PiInvariant, PiTypes
<1>2. PiTypes' BY <1>1 DEF PiInvariant, PiTypes, PiProcess
<1>3. \A q \in Procs : Pi!Alive(q)' <=> Pi!Alive(q) BY <1>1, PiFacts DEF Pi!Alive
<1>4. MapsAreTrue' BY <1>1, <1>3 DEF PiInvariant, MapsAreTrue
<1>5. \A q \in Procs \ {p} : pi'[q].turn = 0 BY <1>1, PiLiving
<1>6. Pi!StoredIsWorkedOn' BY <1>1, <1>5 DEF Pi!StoredIsWorkedOn
<1> QED BY <1>2, <1>4, <1>6 DEF PiInvariant

\* The living process is told to stop, or is gone, with the Turn it worked on.
LEMMA PiStops ==
  ASSUME PiInvariant, NEW p \in Procs, Pi!Alive(p), NEW at \in {"gone", "dying"},
         pi' = [pi EXCEPT ![p] = [Pi!Gone EXCEPT !.at = at]], Pi!Deserted(p), stored' = {}
  PROVE  PiInvariant'
<1> DEFINE r == [Pi!Gone EXCEPT !.at = at]
<1>1. r \in PiProcess /\ r.at = at /\ r.turn = 0 /\ ~r.runs /\ r.out = << >>
  <2>1. << >> \in Seq(PiLines) OBVIOUS
  <2> QED BY <2>1 DEF Pi!Gone, PiProcess
<1> HIDE DEF r
<1>2. /\ pi' \in [Procs -> PiProcess] /\ pi'[p] = r /\ \A q \in Procs \ {p} : pi'[q] = pi[q]
  BY <1>1, PiFacts DEF PiInvariant, PiTypes, r
<1>3. /\ piLive' = IF piLive = p THEN 0 ELSE piLive
      /\ loading' = IF loading = p THEN 0 ELSE loading
      /\ op' = Pi!NoOp \/ (op' = op /\ ~(op.p = p /\ op.at = "opening"))
      /\ reader' \in {reader, Pi!NoReader}
  BY DEF Pi!Deserted, Pi!Awaits
<1>4. piLive' = 0 /\ loading' = 0 BY <1>3, PiLiving, PiFacts DEF PiInvariant, MapsAreTrue
<1>5. Pi!NoOp \in PiOp /\ Pi!NoOp.at = "none" /\ Pi!NoReader \in [at : {"none", "opening", "stats"}, p : Procs \cup {0}]
  BY DEF Pi!NoOp, PiOp, Pi!NoReader
<1>6. PiTypes' BY <1>2, <1>3, <1>4, <1>5, PiFacts DEF PiTypes
<1>7. \A q \in Procs : ~Pi!Alive(q)' /\ pi'[q].turn = 0 /\ ~pi'[q].runs /\ pi'[q].out = << >>
  BY <1>1, <1>2, PiLiving DEF Pi!Alive, PiInvariant, MapsAreTrue
<1>8. MapsAreTrue' BY <1>4, <1>7, PiFacts DEF MapsAreTrue
<1>9. OpIsBeyond'
  <2>1. CASE op' = Pi!NoOp BY <2>1, <1>5 DEF OpIsBeyond
  <2>2. CASE op' = op /\ ~(op.p = p /\ op.at = "opening")
    <3>1. op.at # "opening" BY <2>2, PiLiving, PiFacts DEF PiInvariant, OpIsBeyond, MapsAreTrue
    <3> QED BY <2>2, <3>1, <1>4, PiFacts DEF PiInvariant, OpIsBeyond
  <2> QED BY <2>1, <2>2, <1>3
<1>10. Pi!StoredIsWorkedOn' BY <1>7 DEF Pi!StoredIsWorkedOn
<1> QED BY <1>6, <1>8, <1>9, <1>10 DEF PiInvariant

\* Nothing happens to the processes.
LEMMA PiWaits ==
  ASSUME PiInvariant, UNCHANGED <<pi, piLive, loading, stored>>,
         op' \in PiOp, OpIsBeyond', reader' \in [at : {"none", "opening", "stats"}, p : Procs \cup {0}]
  PROVE  PiInvariant'
BY DEF PiInvariant, PiTypes, MapsAreTrue, Pi!Alive, Pi!StoredIsWorkedOn

\* ensureLive: a process that is being opened is new.
LEMMA PiEnsures ==
  ASSUME PiInvariant, Pi!EnsureLive
  PROVE  /\ pi' \in [Procs -> PiProcess] /\ loading' \in Procs \cup {0}
         /\ Pi!Whom \in Procs
         /\ Pi!Stage = "opening" => Pi!Whom = loading' /\ loading' # 0
         /\ Pi!Stage \in {"opening", "ready"} /\ (Pi!Stage = "ready" => Pi!Whom = piLive /\ piLive # 0)
         /\ loading' \in {loading, Pi!Whom} /\ (loading' # loading => piLive = 0 /\ loading = 0 /\ loading' \in Pi!Spare)
         /\ \A q \in Procs : /\ q # loading' \/ loading' = loading => pi'[q] = pi[q]
                             /\ pi'[q].turn = pi[q].turn /\ pi'[q].runs = pi[q].runs /\ pi'[q].out = pi[q].out
         /\ loading' # loading => pi'[loading'].at = "alive"
<1>1. CASE Pi!Opens
  <2>1. /\ Pi!Spare # {} /\ loading' = Pi!Whom /\ pi' = [pi EXCEPT ![Pi!Whom].at = "alive"]
        /\ piLive = 0 /\ loading = 0
    BY <1>1 DEF Pi!EnsureLive, Pi!Opens
  <2>2. Pi!Whom \in Pi!Spare BY <1>1, <2>1 DEF Pi!Whom
  <2> DEFINE w == Pi!Whom
             r == [pi[w] EXCEPT !.at = "alive"]
  <2>3. w \in Procs /\ w # 0 BY <2>2, PiFacts DEF Pi!Spare
  <2>4. r \in PiProcess /\ r.at = "alive" /\ r.turn = pi[w].turn /\ r.runs = pi[w].runs /\ r.out = pi[w].out
    BY <2>3, PiFacts DEF PiProcess
  <2>5. pi' = [pi EXCEPT ![w] = r] BY <2>1
  <2> HIDE DEF r
  <2>6. pi' \in [Procs -> PiProcess] /\ pi'[w] = r /\ \A q \in Procs \ {w} : pi'[q] = pi[q]
    BY <2>3, <2>4, <2>5 DEF PiInvariant, PiTypes
  <2>7. Pi!Stage = "opening" BY <2>1 DEF Pi!Stage
  <2> QED BY <2>1, <2>2, <2>3, <2>4, <2>6, <2>7
<1>2. CASE ~Pi!Opens
  <2>1. pi' = pi /\ loading' = loading /\ (piLive # 0 \/ loading # 0) BY <1>2 DEF Pi!EnsureLive, Pi!Opens
  <2>2. Pi!Whom = IF piLive # 0 THEN piLive ELSE loading BY <1>2 DEF Pi!Whom
  <2> QED BY <2>1, <2>2, PiFacts DEF Pi!Stage, PiInvariant, PiTypes
<1> QED BY <1>1, <1>2

LEMMA PiEnsured ==
  ASSUME PiInvariant, Pi!EnsureLive, UNCHANGED <<piLive, stored>>,
         op' \in PiOp, OpIsBeyond', reader' \in [at : {"none", "opening", "stats"}, p : Procs \cup {0}]
  PROVE  PiInvariant'
<1>1. PiTypes' BY PiEnsures DEF PiInvariant, PiTypes
<1>2. Pi!StoredIsWorkedOn' BY PiEnsures DEF PiInvariant, Pi!StoredIsWorkedOn
<1>3. MapsAreTrue'
  <2>1. CASE loading' = loading
    <3>1. \A q \in Procs : pi'[q] = pi[q] BY <2>1, PiEnsures
    <3> QED BY <2>1, <3>1 DEF PiInvariant, MapsAreTrue, Pi!Alive
  <2>2. CASE loading' # loading
    <3>1. /\ piLive = 0 /\ loading = 0 /\ loading' \in Procs /\ pi[loading'].at = "gone" /\ pi'[loading'].at = "alive"
          /\ \A q \in Procs \ {loading'} : pi'[q] = pi[q]
      BY <2>2, PiEnsures DEF Pi!Spare
    <3>2. \A q \in Procs : ~Pi!Alive(q) /\ pi[q].turn = 0 /\ ~pi[q].runs /\ pi[q].out = << >>
      BY <3>1, PiFacts DEF PiInvariant, MapsAreTrue
    <3>3. \A q \in Procs : pi'[q].turn = 0 /\ ~pi'[q].runs /\ pi'[q].out = << >> BY <3>2, PiEnsures
    <3>4. \A q \in Procs : Pi!Alive(q)' <=> q = loading' BY <3>1, <3>2, PiFacts DEF Pi!Alive
    <3> QED BY <3>1, <3>3, <3>4, PiFacts DEF MapsAreTrue
  <2> QED BY <2>1, <2>2
<1> QED BY <1>1, <1>2, <1>3 DEF PiInvariant

LEMMA PiStartTurn == ASSUME PiInvariant, Pi!StartTurn PROVE PiInvariant'
<1>1. /\ Pi!EnsureLive /\ UNCHANGED <<piLive, reader, stored>>
      /\ op' = [kind |-> "start", at |-> Pi!Stage, p |-> Pi!Whom, turn |-> 0]
  BY DEF Pi!StartTurn
<1>2. op' \in PiOp /\ op'.at = Pi!Stage /\ op'.p = Pi!Whom BY <1>1, PiEnsures DEF PiOp
<1>3. OpIsBeyond'
  <2>1. CASE Pi!Stage = "opening" BY <2>1, <1>1, <1>2, PiEnsures DEF OpIsBeyond
  <2>2. CASE Pi!Stage = "ready"
    <3>1. Pi!Whom = piLive /\ piLive # 0 /\ loading' = loading BY <2>2, <1>1, PiEnsures
    <3>2. loading = 0 BY <3>1 DEF PiInvariant, MapsAreTrue
    <3> QED BY <2>2, <3>1, <3>2, <1>2, PiFacts DEF OpIsBeyond
  <2> QED BY <1>1, <2>1, <2>2, PiEnsures
<1> QED BY <1>1, <1>2, <1>3, PiFacts, PiEnsured

LEMMA PiReadCost == ASSUME PiInvariant, Pi!ReadSessionCost PROVE PiInvariant'
<1>1. /\ Pi!EnsureLive /\ UNCHANGED <<piLive, op, stored>>
      /\ reader' = [at |-> IF Pi!Stage = "ready" THEN "stats" ELSE "opening", p |-> Pi!Whom]
  BY DEF Pi!ReadSessionCost
<1>2. reader' \in [at : {"none", "opening", "stats"}, p : Procs \cup {0}] BY <1>1, PiEnsures
<1>3. OpIsBeyond'
  <2>1. CASE loading' = loading BY <1>1, <2>1 DEF PiInvariant, OpIsBeyond
  <2>2. CASE loading' # loading
    <3>1. loading = 0 /\ loading' \in Procs /\ op.p # loading' /\ op' = op BY <1>1, <2>2, PiEnsures DEF Pi!Spare
    <3>2. op.at # "opening" BY <3>1 DEF PiInvariant, OpIsBeyond
    <3> QED BY <1>1, <3>1, <3>2 DEF PiInvariant, OpIsBeyond
  <2> QED BY <2>1, <2>2
<1> QED BY <1>1, <1>2, <1>3, PiFacts, PiEnsured

LEMMA PiOpened == ASSUME PiInvariant, Pi!Opened PROVE PiInvariant'
<1>1. /\ Pi!Alive(loading) /\ piLive' = loading /\ loading' = 0 /\ UNCHANGED <<pi, stored>>
      /\ op' = IF op.at = "opening" THEN [op EXCEPT !.at = "ready"] ELSE op
      /\ reader' = IF reader.at = "opening" THEN [reader EXCEPT !.at = "stats"] ELSE reader
  BY DEF Pi!Opened
<1>2. loading \in Procs /\ piLive = 0 BY <1>1, PiFacts DEF PiInvariant, MapsAreTrue, Pi!Alive
<1>3. /\ op' \in PiOp /\ op'.p = op.p
      /\ op'.at = IF op.at = "opening" THEN "ready" ELSE op.at
      /\ reader' \in [at : {"none", "opening", "stats"}, p : Procs \cup {0}]
  BY <1>1, PiFacts DEF PiOp
<1>4. PiTypes' BY <1>1, <1>2, <1>3 DEF PiInvariant, PiTypes
<1>5. MapsAreTrue' BY <1>1, <1>2, PiFacts DEF PiInvariant, MapsAreTrue, Pi!Alive
<1>6. OpIsBeyond' BY <1>1, <1>2, <1>3, PiFacts DEF PiInvariant, OpIsBeyond
<1> QED BY <1>1, <1>4, <1>5, <1>6 DEF PiInvariant, Pi!StoredIsWorkedOn

LEMMA PiOpenFails == ASSUME PiInvariant, Pi!OpenFails PROVE PiInvariant'
<1>1. /\ Pi!Alive(loading) /\ pi' = [pi EXCEPT ![loading] = [Pi!Gone EXCEPT !.at = "dying"]]
      /\ Pi!Deserted(loading) /\ UNCHANGED stored
  BY DEF Pi!OpenFails
<1>2. loading \in Procs /\ pi[loading].turn = 0 BY <1>1, PiFacts DEF PiInvariant, MapsAreTrue, Pi!Alive
<1>3. stored' = {} BY <1>1, <1>2, PiLiving
<1> QED BY <1>1, <1>2, <1>3, PiStops

LEMMA PiFails == ASSUME PiInvariant, NEW p \in Procs, Pi!Alive(p), NEW at \in {"gone", "dying"}, Pi!Fail(p, at) PROVE PiInvariant'
<1>1. pi' = [pi EXCEPT ![p] = [Pi!Gone EXCEPT !.at = at]] /\ stored' = stored \ {pi[p].turn} /\ Pi!Deserted(p)
  BY DEF Pi!Fail, Pi!Ended
<1>2. stored' = {} BY <1>1, PiLiving
<1> QED BY <1>1, <1>2, PiStops

LEMMA PiArchives == ASSUME PiInvariant, Pi!ArchiveSession PROVE PiInvariant'
<1>1. /\ piLive # 0 /\ pi[piLive].turn = 0 /\ pi' = [pi EXCEPT ![piLive] = [Pi!Gone EXCEPT !.at = "dying"]]
      /\ Pi!Deserted(piLive) /\ UNCHANGED stored
  BY DEF Pi!ArchiveSession
<1>2. piLive \in Procs /\ Pi!Alive(piLive) BY <1>1, PiFacts DEF PiInvariant, MapsAreTrue
<1>3. stored' = {} BY <1>1, <1>2, PiLiving
<1> QED BY <1>1, <1>2, <1>3, PiStops

\* The operation goes on, or it is over.
LEMMA PiOpGoes ==
  ASSUME PiInvariant
  PROVE  /\ Pi!NoOp \in PiOp /\ Pi!NoOp.at = "none"
         /\ \A at \in {"settings", "reading", "prompting", "answer"} :
               /\ [op EXCEPT !.at = at] \in PiOp /\ [op EXCEPT !.at = at].at = at /\ [op EXCEPT !.at = at].p = op.p
<1>1. op \in PiOp BY PiFacts
<1> QED BY <1>1 DEF Pi!NoOp, PiOp

LEMMA PiApplies == ASSUME PiInvariant, Pi!ApplySettings \/ Pi!SettingsApplied PROVE PiInvariant'
<1>1. /\ op.at \in {"ready", "settings"} /\ UNCHANGED <<pi, piLive, loading, reader, stored>>
      /\ \/ op' = Pi!NoOp
         \/ \E at \in {"settings", "reading"} : op' = [op EXCEPT !.at = at]
  BY DEF Pi!ApplySettings, Pi!SettingsApplied, Pi!OpIs, Pi!OpGoes, Pi!Refuse
<1>2. op' \in PiOp /\ (op'.at = "none" \/ (op'.at \in {"settings", "reading"} /\ op'.p = op.p))
  BY <1>1, PiOpGoes
<1>3. op.p \in Procs \ {loading} /\ loading' = loading BY <1>1 DEF PiInvariant, OpIsBeyond
<1>4. OpIsBeyond' BY <1>2, <1>3 DEF OpIsBeyond
<1> QED BY <1>1, <1>2, <1>4, PiFacts, PiWaits

\* beginTurn on an open process without a Turn, finish on one with a Turn.
LEMMA PiBegins ==
  ASSUME PiInvariant, NEW p \in Procs, Pi!Alive(p), p # loading, pi[p].turn = 0, NEW out \in Seq(PiLines),
         Pi!Begin(p, out), UNCHANGED <<piLive, loading, reader>>, op' \in PiOp, OpIsBeyond'
  PROVE  PiInvariant'
<1> DEFINE t == Pi!FreshTurn
           r == [pi[p] EXCEPT !.turn = t, !.stopping = FALSE, !.out = out]
<1>1. t \in Pi!Turns /\ stored = {} /\ pi[p] \in PiProcess /\ pi[p].at = "alive" BY PiFresh, PiLiving, PiFacts
<1>2. pi' = [pi EXCEPT ![p] = r] /\ stored' = stored \cup {t} BY PiFacts DEF Pi!Begin, PiInvariant, PiTypes
<1>3. 0 \notin Pi!Turns BY DEF Pi!Turns
<1> HIDE DEF t
<1>4. r \in PiProcess /\ r.at = "alive" /\ r.turn = t BY <1>1 DEF PiProcess
<1> HIDE DEF r
<1> QED BY <1>1, <1>2, <1>3, <1>4, PiGoesOn

LEMMA PiFinishes ==
  ASSUME PiInvariant, NEW p \in Procs, Pi!Alive(p), p # loading, NEW out \in Seq(PiLines),
         Pi!Finish(p, out), UNCHANGED <<piLive, loading, reader>>, op' \in PiOp, OpIsBeyond'
  PROVE  PiInvariant'
<1> DEFINE r == [pi[p] EXCEPT !.turn = 0, !.out = out]
<1>1. pi[p] \in PiProcess /\ pi[p].at = "alive" BY PiFacts
<1>2. pi' = [pi EXCEPT ![p] = r] /\ stored' = {} BY PiLiving, PiFacts DEF Pi!Finish, PiInvariant, PiTypes
<1>3. r \in PiProcess /\ r.at = "alive" /\ r.turn = 0 BY <1>1 DEF PiProcess
<1> HIDE DEF r
<1> QED BY <1>2, <1>3, PiGoesOn

\* A process says lines, and no Turn begins or ends.
LEMMA PiSays ==
  ASSUME PiInvariant, NEW p \in Procs, Pi!Alive(p), p # loading, NEW runs1 \in BOOLEAN, NEW out \in Seq(PiLines),
         pi' = [pi EXCEPT ![p].runs = runs1, ![p].out = out] \/ pi' = [pi EXCEPT ![p].out = out],
         UNCHANGED <<piLive, loading, reader, stored>>, op' \in PiOp, OpIsBeyond'
  PROVE  PiInvariant'
<1> DEFINE r == [pi[p] EXCEPT !.runs = runs1, !.out = out]
           q == [pi[p] EXCEPT !.out = out]
<1>1. pi[p] \in PiProcess /\ pi[p].at = "alive" /\ stored' = {pi[p].turn} \ {0} BY PiFacts, PiLiving
<1>2. pi' = [pi EXCEPT ![p] = r] \/ pi' = [pi EXCEPT ![p] = q] BY PiFacts DEF PiInvariant, PiTypes
<1>3. r \in PiProcess /\ r.at = "alive" /\ r.turn = pi[p].turn BY <1>1 DEF PiProcess
<1>4. q \in PiProcess /\ q.at = "alive" /\ q.turn = pi[p].turn BY <1>1 DEF PiProcess
<1> HIDE DEF r, q
<1> QED BY <1>1, <1>2, <1>3, <1>4, PiGoesOn

LEMMA PiPrompts == ASSUME PiInvariant, Pi!Prompt PROVE PiInvariant'
<1>1. /\ op.at = "reading" /\ UNCHANGED <<piLive, loading, reader>>
      /\ \/ /\ Pi!Alive(op.p) /\ pi[op.p].turn = 0 /\ Pi!Begin(op.p, pi[op.p].out)
            /\ op' = [op EXCEPT !.at = "prompting", !.turn = Pi!FreshTurn]
         \/ op' = Pi!NoOp /\ UNCHANGED <<pi, stored>>
  BY DEF Pi!Prompt, Pi!OpIs, Pi!MayPrompt, Pi!Refuse
<1>2. op.p \in Procs /\ op.p # loading /\ op \in PiOp /\ pi[op.p] \in PiProcess
  BY <1>1, PiFacts DEF PiInvariant, OpIsBeyond
<1>3. CASE op' = Pi!NoOp /\ UNCHANGED <<pi, stored>> BY <1>1, <1>3, PiOpGoes, PiFacts, PiWaits DEF OpIsBeyond
<1>4. CASE /\ Pi!Alive(op.p) /\ pi[op.p].turn = 0 /\ Pi!Begin(op.p, pi[op.p].out)
           /\ op' = [op EXCEPT !.at = "prompting", !.turn = Pi!FreshTurn]
  <2> DEFINE t == Pi!FreshTurn
  <2>1. t \in Pi!Turns BY <1>2, <1>4, PiFresh
  <2> HIDE DEF t
  <2>2. op' = [op EXCEPT !.at = "prompting", !.turn = t] BY <1>4 DEF t
  <2>3. op' \in PiOp /\ op'.at = "prompting" /\ op'.p = op.p BY <1>2, <2>1, <2>2 DEF PiOp
  <2>4. OpIsBeyond' BY <1>1, <1>2, <2>3 DEF OpIsBeyond
  <2>5. pi[op.p].out \in Seq(PiLines) BY <1>2 DEF PiProcess
  <2> QED BY <1>1, <1>2, <1>4, <2>3, <2>4, <2>5, PiBegins
<1> QED BY <1>1, <1>3, <1>4

LEMMA PiInterrupts == ASSUME PiInvariant, Pi!InterruptTurn PROVE PiInvariant'
<1>1. /\ piLive # 0 /\ pi[piLive].turn # 0 /\ pi' = [pi EXCEPT ![piLive].stopping = TRUE]
      /\ op' = [kind |-> "interrupt", at |-> "aborting", p |-> piLive, turn |-> pi[piLive].turn]
      /\ UNCHANGED <<piLive, loading, reader, stored>>
  BY DEF Pi!InterruptTurn
<1> DEFINE r == [pi[piLive] EXCEPT !.stopping = TRUE]
<1>2. piLive \in Procs /\ Pi!Alive(piLive) /\ loading = 0 /\ pi[piLive] \in PiProcess /\ pi[piLive].at = "alive"
  BY <1>1, PiFacts DEF PiInvariant, MapsAreTrue
<1>3. r \in PiProcess /\ r.at = "alive" /\ r.turn = pi[piLive].turn BY <1>2 DEF PiProcess
<1>4. pi' = [pi EXCEPT ![piLive] = r] BY <1>1
<1>5. op' \in PiOp /\ op'.at = "aborting" /\ op'.p = piLive BY <1>1, <1>2 DEF PiOp, PiProcess
<1> HIDE DEF r
<1>6. OpIsBeyond' BY <1>1, <1>2, <1>5 DEF OpIsBeyond
<1>7. stored' = {r.turn} \ {0} BY <1>1, <1>2, <1>3, PiLiving
<1> QED BY <1>1, <1>2, <1>3, <1>4, <1>5, <1>6, <1>7, PiFacts, PiGoesOn

LEMMA PiCostRead == ASSUME PiInvariant, Pi!CostRead PROVE PiInvariant'
<1>1. reader' = Pi!NoReader /\ UNCHANGED <<pi, piLive, loading, op, stored>> BY DEF Pi!CostRead
<1>2. reader' \in [at : {"none", "opening", "stats"}, p : Procs \cup {0}] BY <1>1 DEF Pi!NoReader
<1>3. OpIsBeyond' BY <1>1 DEF PiInvariant, OpIsBeyond
<1> QED BY <1>1, <1>2, <1>3, PiFacts, PiWaits

\* What pi does with a request, and on its own.
LEMMA PiTakes ==
  ASSUME PiInvariant, op.at \in {"prompting", "aborting"}, Pi!Alive(op.p), NEW runs1 \in BOOLEAN, NEW lines \in Seq(PiLines),
         Pi!Says(op.p, runs1, lines), Pi!OpGoes("answer"), UNCHANGED <<piLive, loading, reader, stored>>
  PROVE  PiInvariant'
<1> DEFINE p == op.p
           out == pi[p].out \o lines
<1>1. p \in Procs \ {loading} /\ pi[p] \in PiProcess BY PiFacts DEF PiInvariant, OpIsBeyond
<1>2. out \in Seq(PiLines)
  <2>1. pi[p].out \in Seq(PiLines) BY <1>1 DEF PiProcess
  <2> QED BY <2>1
<1>3. pi' = [pi EXCEPT ![p].runs = runs1, ![p].out = out] BY DEF Pi!Says
<1>4. op' \in PiOp /\ op'.at = "answer" /\ op'.p = p BY PiOpGoes DEF Pi!OpGoes
<1> HIDE DEF out
<1>5. OpIsBeyond' BY <1>1, <1>4 DEF OpIsBeyond
<1> QED BY <1>1, <1>2, <1>3, <1>4, <1>5, PiSays

LEMMA PiTakesRequests == ASSUME PiInvariant, Pi!TakePrompt \/ Pi!TakeAbort PROVE PiInvariant'
<1>1. /\ op.at \in {"prompting", "aborting"} /\ Pi!Alive(op.p) /\ Pi!OpGoes("answer")
      /\ UNCHANGED <<piLive, loading, reader, stored>>
  BY DEF Pi!TakePrompt, Pi!TakeAbort
<1>2. pi[op.p].runs \in BOOLEAN
  <2>1. op.p \in Procs BY <1>1 DEF PiInvariant, OpIsBeyond
  <2> QED BY <2>1, PiFacts DEF PiProcess
<1>3. \E runs1 \in BOOLEAN, lines \in Seq(PiLines) : Pi!Says(op.p, runs1, lines)
  <2>1. /\ <<"started", "accepted">> \in Seq(PiLines) /\ <<"accepted", "started">> \in Seq(PiLines)
        /\ <<"refused">> \in Seq(PiLines) /\ <<"settled, accepted">> \in Seq(PiLines) /\ <<"accepted">> \in Seq(PiLines)
    BY DEF PiLines
  <2>2. CASE Pi!TakePrompt
    <3>1. \/ Pi!Says(op.p, TRUE, <<"started", "accepted">>)
          \/ Pi!Says(op.p, TRUE, <<"accepted", "started">>)
          \/ Pi!Says(op.p, pi[op.p].runs, <<"refused">>)
      BY <2>2 DEF Pi!TakePrompt
    <3> QED BY <1>2, <2>1, <3>1
  <2>3. CASE Pi!TakeAbort
    <3>1. \/ Pi!Says(op.p, FALSE, <<"settled, accepted">>)
          \/ Pi!Says(op.p, FALSE, <<"accepted">>)
      BY <2>3 DEF Pi!TakeAbort
    <3> QED BY <2>1, <3>1
  <2> QED BY <2>2, <2>3
<1> QED BY <1>1, <1>3, PiTakes

LEMMA PiRuns == ASSUME PiInvariant, NEW p \in Procs, Pi!RunStarts(p) \/ Pi!RunEnds(p) PROVE PiInvariant'
<1>1. Pi!Alive(p) /\ p # loading /\ UNCHANGED <<piLive, loading, op, reader, stored>>
  BY DEF Pi!RunStarts, Pi!RunEnds, PiInvariant, MapsAreTrue
<1>2. PICK runs1 \in BOOLEAN, line \in {"started", "settled"} : Pi!Says(p, runs1, <<line>>)
  BY DEF Pi!RunStarts, Pi!RunEnds
<1> DEFINE out == pi[p].out \o <<line>>
<1>3. out \in Seq(PiLines)
  <2>1. pi[p].out \in Seq(PiLines) BY PiFacts DEF PiProcess
  <2>2. line \in PiLines BY DEF PiLines
  <2>3. <<line>> \in Seq(PiLines) BY <2>2
  <2> QED BY <2>1, <2>3
<1>4. pi' = [pi EXCEPT ![p].runs = runs1, ![p].out = out] BY <1>2 DEF Pi!Says
<1> HIDE DEF out
<1>5. op' \in PiOp /\ OpIsBeyond' BY <1>1, PiFacts DEF PiInvariant, OpIsBeyond
<1> QED BY <1>1, <1>3, <1>4, <1>5, PiSays

\* Who has said something is open.
LEMMA PiHeard ==
  ASSUME PiInvariant, NEW p \in Procs, NEW line, Pi!Next1(p, line)
  PROVE  Pi!Alive(p) /\ p # loading /\ Tail(pi[p].out) \in Seq(PiLines)
<1>1. Pi!Alive(p) /\ pi[p].out # << >> /\ pi[p].out \in Seq(PiLines) BY PiFacts DEF Pi!Next1, PiProcess
<1> QED BY <1>1 DEF PiInvariant, MapsAreTrue

LEMMA PiReads ==
  ASSUME PiInvariant, NEW p \in Procs, NEW line, Pi!Next1(p, line), Pi!Read(p), UNCHANGED <<piLive, loading, reader>>,
         op' \in PiOp, OpIsBeyond'
  PROVE  PiInvariant'
<1>1. pi' = [pi EXCEPT ![p].out = Tail(pi[p].out)] /\ UNCHANGED stored
  BY PiFacts DEF Pi!Read, PiInvariant, PiTypes
<1> DEFINE out == Tail(pi[p].out)
<1>2. pi' = [pi EXCEPT ![p].out = out] /\ out \in Seq(PiLines) BY <1>1, PiHeard
<1> HIDE DEF out
<1>3. TRUE \in BOOLEAN OBVIOUS
<1> QED BY <1>1, <1>2, <1>3, PiHeard, PiSays

LEMMA PiRecords == ASSUME PiInvariant, NEW p \in Procs, Pi!Records(p) PROVE PiInvariant'
<1>1. CASE Pi!AgentStart(p)
  <2>1. /\ Pi!Next1(p, "started") /\ UNCHANGED <<piLive, loading, op, reader>>
        /\ (pi[p].turn = 0 /\ Pi!Begin(p, Tail(pi[p].out))) \/ Pi!Read(p)
    BY <1>1 DEF Pi!AgentStart
  <2>2. op' \in PiOp /\ OpIsBeyond' BY <2>1, PiFacts DEF PiInvariant, OpIsBeyond
  <2> QED BY <2>1, <2>2, PiHeard, PiReads, PiBegins
<1>2. CASE Pi!AgentSettled(p)
  <2>1. /\ Pi!Next1(p, "settled") /\ UNCHANGED <<piLive, loading, op, reader>>
        /\ Pi!Finish(p, Tail(pi[p].out)) \/ Pi!Read(p)
    BY <1>2 DEF Pi!AgentSettled
  <2>2. op' \in PiOp /\ OpIsBeyond' BY <2>1, PiFacts DEF PiInvariant, OpIsBeyond
  <2> QED BY <2>1, <2>2, PiHeard, PiReads, PiFinishes
<1>3. CASE Pi!Answered(p)
  <2>1. PICK line \in {"accepted", "refused", "settled, accepted"} :
            /\ Pi!Next1(p, line) /\ op' = Pi!NoOp /\ UNCHANGED <<piLive, loading, reader>>
            /\ Pi!Finish(p, Tail(pi[p].out)) \/ Pi!Read(p)
    BY <1>3 DEF Pi!Answered, Pi!Refuse
  <2>2. op' \in PiOp /\ OpIsBeyond' BY <2>1, PiOpGoes DEF OpIsBeyond
  <2> QED BY <2>1, <2>2, PiHeard, PiReads, PiFinishes
<1> QED BY <1>1, <1>2, <1>3 DEF Pi!Records

LEMMA PiEnds == ASSUME PiInvariant, NEW p \in Procs, Pi!Exit(p) \/ Pi!TimesOut(p) PROVE PiInvariant'
<1>1. Pi!Alive(p) /\ \E at \in {"gone", "dying"} : Pi!Fail(p, at) BY DEF Pi!Exit, Pi!TimesOut
<1> QED BY <1>1, PiFails

LEMMA PiDies == ASSUME PiInvariant, NEW p \in Procs, Pi!Dies(p) PROVE PiInvariant'
<1> DEFINE r == [pi[p] EXCEPT !.at = "gone"]
<1>1. /\ pi[p].at = "dying" /\ pi' = [pi EXCEPT ![p] = r] /\ UNCHANGED <<piLive, loading, op, reader, stored>>
  BY PiFacts DEF Pi!Dies, PiInvariant, PiTypes
<1>2. /\ r \in PiProcess /\ r.at = "gone" /\ r.turn = pi[p].turn /\ r.runs = pi[p].runs /\ r.out = pi[p].out
  BY <1>1, PiFacts DEF PiProcess
<1> HIDE DEF r
<1>3. /\ pi' \in [Procs -> PiProcess] /\ \A q \in Procs \ {p} : pi'[q] = pi[q]
      /\ pi'[p].at = "gone" /\ pi'[p].turn = pi[p].turn /\ pi'[p].runs = pi[p].runs /\ pi'[p].out = pi[p].out
  BY <1>1, <1>2 DEF PiInvariant, PiTypes
<1>4. \A q \in Procs : /\ Pi!Alive(q)' <=> Pi!Alive(q)
                       /\ pi'[q].turn = pi[q].turn /\ pi'[q].runs = pi[q].runs /\ pi'[q].out = pi[q].out
  BY <1>1, <1>3 DEF Pi!Alive
<1>5. PiTypes' BY <1>1, <1>3 DEF PiInvariant, PiTypes
<1>6. MapsAreTrue' /\ OpIsBeyond' BY <1>1, <1>4 DEF PiInvariant, MapsAreTrue, OpIsBeyond
<1>7. Pi!StoredIsWorkedOn' BY <1>1, <1>4 DEF PiInvariant, Pi!StoredIsWorkedOn
<1> QED BY <1>5, <1>6, <1>7 DEF PiInvariant

LEMMA PiGone == Pi!Gone \in PiProcess /\ Pi!Gone.at = "gone" /\ Pi!Gone.turn = 0 /\ ~Pi!Gone.runs /\ Pi!Gone.out = << >>
<1>1. << >> \in Seq(PiLines) OBVIOUS
<1> QED BY <1>1 DEF Pi!Gone, PiProcess

LEMMA PiRestarts == ASSUME Pi!Restart PROVE PiInvariant'
<1> DEFINE g == Pi!Gone
<1>1. /\ pi' = [p \in Procs |-> g] /\ piLive' = 0 /\ loading' = 0 /\ op' = Pi!NoOp /\ reader' = Pi!NoReader /\ stored' = {}
  BY DEF Pi!Restart
<1>2. g \in PiProcess /\ g.at = "gone" /\ g.turn = 0 /\ ~g.runs /\ g.out = << >> BY PiGone
<1>3. Pi!NoOp \in PiOp /\ Pi!NoOp.at = "none" /\ Pi!NoReader \in [at : {"none", "opening", "stats"}, p : Procs \cup {0}]
  BY DEF Pi!NoOp, PiOp, Pi!NoReader
<1> HIDE DEF g
<1>4. PiTypes' BY <1>1, <1>2, <1>3 DEF PiTypes
<1>5. MapsAreTrue' /\ OpIsBeyond' BY <1>1, <1>2, <1>3, PartsAssumption DEF MapsAreTrue, OpIsBeyond, Pi!Alive
<1>6. Pi!StoredIsWorkedOn' BY <1>1, <1>2 DEF Pi!StoredIsWorkedOn
<1> QED BY <1>4, <1>5, <1>6 DEF PiInvariant

LEMMA PiStarts == ASSUME Pi!Init PROVE PiInvariant
<1> DEFINE g == Pi!Gone
<1>1. /\ pi = [p \in Procs |-> g] /\ piLive = 0 /\ loading = 0 /\ op = Pi!NoOp /\ reader = Pi!NoReader /\ stored = {}
  BY DEF Pi!Init
<1>2. g \in PiProcess /\ g.at = "gone" /\ g.turn = 0 /\ ~g.runs /\ g.out = << >> BY PiGone
<1>3. Pi!NoOp \in PiOp /\ Pi!NoOp.at = "none" /\ Pi!NoReader \in [at : {"none", "opening", "stats"}, p : Procs \cup {0}]
  BY DEF Pi!NoOp, PiOp, Pi!NoReader
<1> HIDE DEF g
<1>4. PiTypes BY <1>1, <1>2, <1>3 DEF PiTypes
<1>5. MapsAreTrue /\ OpIsBeyond BY <1>1, <1>2, <1>3, PartsAssumption DEF MapsAreTrue, OpIsBeyond, Pi!Alive
<1>6. Pi!StoredIsWorkedOn BY <1>1, <1>2 DEF Pi!StoredIsWorkedOn
<1> QED BY <1>4, <1>5, <1>6 DEF PiInvariant

LEMMA PiStep == ASSUME PiInvariant, [Pi!Next]_(Pi!vars) PROVE PiInvariant'
<1>1. CASE Pi!StartTurn BY <1>1, PiStartTurn
<1>2. CASE Pi!InterruptTurn BY <1>2, PiInterrupts
<1>3. CASE Pi!ArchiveSession BY <1>3, PiArchives
<1>4. CASE Pi!ReadSessionCost BY <1>4, PiReadCost
<1>5. CASE Pi!Steps BY <1>5, PiOpened, PiApplies, PiPrompts DEF Pi!Steps
<1>6. CASE Pi!CostRead BY <1>6, PiCostRead
<1>7. CASE Pi!OpenFails BY <1>7, PiOpenFails
<1>8. CASE Pi!TakePrompt \/ Pi!TakeAbort BY <1>8, PiTakesRequests
<1>9. ASSUME NEW p \in Procs,
             Pi!Records(p) \/ Pi!RunStarts(p) \/ Pi!RunEnds(p) \/ Pi!Exit(p) \/ Pi!TimesOut(p) \/ Pi!Dies(p)
      PROVE  PiInvariant'
  BY <1>9, PiRecords, PiRuns, PiEnds, PiDies
<1>10. CASE Pi!Restart BY <1>10, PiRestarts
<1>11. CASE UNCHANGED Pi!vars
  <2>1. UNCHANGED <<pi, piLive, loading, op, reader, stored>> BY <1>11 DEF Pi!vars
  <2> QED BY <2>1 DEF PiInvariant, PiTypes, MapsAreTrue, OpIsBeyond, Pi!Alive, Pi!StoredIsWorkedOn
<1> QED BY <1>1, <1>2, <1>3, <1>4, <1>5, <1>6, <1>7, <1>8, <1>9, <1>10, <1>11 DEF Pi!Next

\* Two processes of a session never live.
LEMMA PiOneProcess == ASSUME PiInvariant PROVE Pi!OneProcess
<1> DEFINE A == {p \in Procs : Pi!Alive(p)}
<1>1. CASE A = {}
  <2>1. Cardinality(A) = 0 BY <1>1, FS_EmptySet
  <2> QED BY <2>1, PiCounts DEF Pi!OneProcess
<1>2. CASE A # {}
  <2>1. PICK p \in Procs : Pi!Alive(p) BY <1>2
  <2>2. A = {p} BY <2>1, PiLiving
  <2>3. Cardinality(A) = 1 BY <2>2, FS_Singleton
  <2> QED BY <2>3, PiCounts DEF Pi!OneProcess
<1> QED BY <1>1, <1>2

----
(* One session of agy (the agy adapter): a Turn holds the session until *)
(* nothing of its process is left. *)

AgyProcess == [main : BOOLEAN, helper : BOOLEAN, watched : {TRUE},
               timer : {"none", "force", "kill", "spent"},
               result : {"none", "SUCCESS", "ERROR"}, failure : BOOLEAN, exitOk : BOOLEAN]

AgyTypes ==
  /\ crashes = 0
  /\ agyTurns \in Seq({"inProgress", "interrupted", "completed", "failed"})
  /\ agyProc \in Seq(AgyProcess)
  /\ Len(agyProc) = Len(agyTurns)

AgyInvariant == AgyTypes /\ Agy!OneAtATime

\* What the steps make of a process is a process.
LEMMA AgyKilled ==
  ASSUME NEW p \in AgyProcess
  PROVE  /\ Agy!Stop(p) \in AgyProcess /\ Agy!Stop(p).main = p.main /\ Agy!Stop(p).helper = p.helper
         /\ Agy!Fail(p) \in AgyProcess /\ Agy!Fail(p).main = p.main /\ Agy!Fail(p).helper = p.helper
         /\ Agy!Killed(p) \in AgyProcess /\ ~Agy!Killed(p).main /\ ~Agy!Killed(p).helper
<1>1. /\ Agy!Stop(p) \in AgyProcess /\ Agy!Stop(p).main = p.main /\ Agy!Stop(p).helper = p.helper
  BY DEF Agy!Stop, AgyProcess
<1>2. /\ Agy!Fail(p) \in AgyProcess /\ Agy!Fail(p).main = p.main /\ Agy!Fail(p).helper = p.helper
  <2> DEFINE q == [p EXCEPT !.failure = TRUE]
  <2>1. q \in AgyProcess /\ q.main = p.main /\ q.helper = p.helper BY DEF AgyProcess
  <2> QED BY <2>1 DEF Agy!Fail, Agy!Stop, AgyProcess
<1>3. Agy!Killed(p) \in AgyProcess /\ ~Agy!Killed(p).main /\ ~Agy!Killed(p).helper BY DEF Agy!Killed, AgyProcess
<1> QED BY <1>1, <1>2, <1>3

\* A step of one process that starts nothing in it.
LEMMA AgyOneProcess ==
  ASSUME AgyInvariant, NEW t \in DOMAIN agyTurns, NEW p \in AgyProcess, Agy!Set(t, p),
         UNCHANGED <<agyTurns, crashes>>,
         p.main \/ p.helper => agyTurns[t] = "inProgress"
  PROVE  AgyInvariant'
<1>1. agyProc' = [agyProc EXCEPT ![t] = p] /\ t \in DOMAIN agyProc BY DEF Agy!Set, AgyInvariant, AgyTypes
<1>2. agyProc' \in Seq(AgyProcess) /\ Len(agyProc') = Len(agyProc) BY <1>1 DEF AgyInvariant, AgyTypes
<1>3. Agy!OneAtATime' BY <1>1 DEF Agy!OneAtATime, Agy!Turns, Agy!Alive, AgyInvariant, AgyTypes
<1> QED BY <1>2, <1>3 DEF AgyInvariant, AgyTypes

LEMMA AgyStep ==
  ASSUME AgyInvariant, [Agy!Next]_Agy!vars
  PROVE  AgyInvariant'
<1>0. \A t \in DOMAIN agyTurns : /\ agyProc[t] \in AgyProcess
                                 /\ agyProc[t].main \/ agyProc[t].helper => agyTurns[t] = "inProgress"
  BY DEF AgyInvariant, AgyTypes, Agy!OneAtATime, Agy!Turns, Agy!Alive
<1>1. CASE Agy!StartTurn
  <2>1. PICK p \in {Agy!Started, [Agy!Fail(Agy!Started) EXCEPT !.main = FALSE]} : agyProc' = Append(agyProc, p)
    BY <1>1 DEF Agy!StartTurn
  <2>2. Agy!Started \in AgyProcess BY DEF Agy!Started, AgyProcess
  <2>3. p \in AgyProcess BY <2>1, <2>2, AgyKilled DEF AgyProcess
  <2>4. agyTurns' = Append(agyTurns, "inProgress") /\ UNCHANGED crashes BY <1>1 DEF Agy!StartTurn
  <2>5. AgyTypes' BY <2>1, <2>3, <2>4 DEF AgyInvariant, AgyTypes
  <2>6. ASSUME NEW t \in DOMAIN agyTurns', Agy!Alive(t)' PROVE agyTurns'[t] = "inProgress"
    <3>1. CASE t \in DOMAIN agyTurns
      <4>1. agyTurns'[t] = agyTurns[t] /\ agyProc'[t] = agyProc[t]
        BY <3>1, <2>1, <2>3, <2>4 DEF AgyInvariant, AgyTypes
      <4> QED BY <4>1, <3>1, <2>6, <1>0 DEF Agy!Alive
    <3>2. CASE t \notin DOMAIN agyTurns BY <3>2, <2>4 DEF AgyInvariant, AgyTypes
    <3> QED BY <3>1, <3>2
  <2> QED BY <2>5, <2>6 DEF AgyInvariant, Agy!OneAtATime, Agy!Turns
<1>2. CASE Agy!InterruptTurn
  <2>1. PICK t \in Agy!Live : Agy!Set(t, Agy!Stop(agyProc[t])) BY <1>2 DEF Agy!InterruptTurn
  <2>2. t \in DOMAIN agyTurns /\ agyTurns[t] = "inProgress" BY <2>1 DEF Agy!Live, Agy!Turns
  <2> QED BY <2>1, <2>2, <1>0, <1>2, AgyKilled, AgyOneProcess DEF Agy!InterruptTurn
<1>3. CASE Agy!Crash BY <1>3 DEF Agy!Crash, AgyInvariant, AgyTypes
<1>4. ASSUME NEW t \in 1..AgyTurns, Agy!Says(t) PROVE AgyInvariant'
  <2>1. t \in DOMAIN agyTurns /\ agyProc[t].main /\ UNCHANGED <<agyTurns, crashes>>
    BY <1>4 DEF Agy!Says, Agy!Watched, Agy!Turns
  <2>2. CASE Agy!Set(t, Agy!Fail(agyProc[t])) BY <2>1, <2>2, <1>0, AgyKilled, AgyOneProcess
  <2>3. ASSUME NEW r \in {"SUCCESS", "ERROR"}, Agy!Set(t, [agyProc[t] EXCEPT !.result = r]) PROVE AgyInvariant'
    <3> DEFINE p == [agyProc[t] EXCEPT !.result = r]
    <3>1. p \in AgyProcess /\ agyTurns[t] = "inProgress" BY <2>1, <1>0 DEF AgyProcess
    <3> HIDE DEF p
    <3> QED BY <3>1, <2>1, <2>3, AgyOneProcess DEF p
  <2> QED BY <2>2, <2>3, <1>4 DEF Agy!Says
<1>5. ASSUME NEW t \in 1..AgyTurns, Agy!ForceTimer(t) PROVE AgyInvariant'
  <2> DEFINE p == [agyProc[t] EXCEPT !.timer = "kill", !.failure = TRUE]
  <2>1. t \in DOMAIN agyTurns /\ Agy!Set(t, p) /\ UNCHANGED <<agyTurns, crashes>>
    BY <1>5 DEF Agy!ForceTimer, Agy!Watched, Agy!Turns
  <2>2. p \in AgyProcess /\ p.main = agyProc[t].main /\ p.helper = agyProc[t].helper
    BY <2>1, <1>0 DEF AgyProcess
  <2> HIDE DEF p
  <2> QED BY <2>1, <2>2, <1>0, AgyOneProcess
<1>6. ASSUME NEW t \in 1..AgyTurns, Agy!KillTimer(t) PROVE AgyInvariant'
  <2> DEFINE q == Agy!Killed(agyProc[t])
             p == [q EXCEPT !.timer = "spent"]
  <2>1. t \in DOMAIN agyTurns /\ Agy!Set(t, p) /\ UNCHANGED <<agyTurns, crashes>>
    BY <1>6 DEF Agy!KillTimer, Agy!Watched, Agy!Turns
  <2>2. q \in AgyProcess /\ ~q.main /\ ~q.helper BY <2>1, <1>0, AgyKilled
  <2> HIDE DEF q
  <2>3. p \in AgyProcess /\ ~p.main /\ ~p.helper BY <2>2 DEF AgyProcess
  <2> HIDE DEF p
  <2> QED BY <2>1, <2>3, AgyOneProcess
<1>7. ASSUME NEW t \in 1..AgyTurns, Agy!Finishes(t) PROVE AgyInvariant'
  <2> DEFINE p == [agyProc[t] EXCEPT !.timer = "spent"]
             o == Agy!Outcome(agyProc[t])
  <2>1. /\ t \in DOMAIN agyTurns /\ Agy!Closed(agyProc[t])
        /\ agyProc' = [agyProc EXCEPT ![t] = p] /\ agyTurns' = [agyTurns EXCEPT ![t] = o] /\ UNCHANGED crashes
    BY <1>7 DEF Agy!Finishes, Agy!Watched, Agy!Turns, Agy!Set
  <2>2. p \in AgyProcess /\ ~p.main /\ ~p.helper BY <2>1, <1>0 DEF AgyProcess, Agy!Closed
  <2>3. o \in {"inProgress", "interrupted", "completed", "failed"} BY DEF Agy!Outcome
  <2> HIDE DEF p, o
  <2>4. AgyTypes' BY <2>1, <2>2, <2>3 DEF AgyInvariant, AgyTypes
  <2>5. Agy!OneAtATime' BY <2>1, <2>2, <1>0 DEF Agy!OneAtATime, Agy!Turns, Agy!Alive, AgyInvariant, AgyTypes
  <2> QED BY <2>4, <2>5 DEF AgyInvariant
<1>8. ASSUME NEW t \in 1..AgyTurns, Agy!Exits(t) PROVE AgyInvariant'
  <2>1. PICK ok \in BOOLEAN : Agy!Set(t, [agyProc[t] EXCEPT !.main = FALSE, !.exitOk = ok])
    BY <1>8 DEF Agy!Exits
  <2> DEFINE p == [agyProc[t] EXCEPT !.main = FALSE, !.exitOk = ok]
  <2>2. t \in DOMAIN agyTurns /\ agyProc[t].main /\ UNCHANGED <<agyTurns, crashes>>
    BY <1>8 DEF Agy!Exits, Agy!Turns
  <2>3. p \in AgyProcess /\ Agy!Set(t, p) BY <2>1, <2>2, <1>0 DEF AgyProcess
  <2> HIDE DEF p
  <2> QED BY <2>2, <2>3, <1>0, AgyOneProcess
<1>9. ASSUME NEW t \in 1..AgyTurns, Agy!Runs(t) PROVE AgyInvariant'
  <2> DEFINE p == [agyProc[t] EXCEPT !.helper = ~@]
  <2>1. t \in DOMAIN agyTurns /\ (agyProc[t].main \/ agyProc[t].helper) /\ Agy!Set(t, p) /\ UNCHANGED <<agyTurns, crashes>>
    BY <1>9 DEF Agy!Runs, Agy!Turns
  <2>2. p \in AgyProcess BY <2>1, <1>0 DEF AgyProcess
  <2> HIDE DEF p
  <2> QED BY <2>1, <2>2, <1>0, AgyOneProcess
<1>10. CASE UNCHANGED Agy!vars
  BY <1>10 DEF Agy!vars, AgyInvariant, AgyTypes, Agy!OneAtATime, Agy!Turns, Agy!Alive
<1> QED BY <1>1, <1>2, <1>3, <1>4, <1>5, <1>6, <1>7, <1>8, <1>9, <1>10 DEF Agy!Next, Agy!Process

LEMMA AgyStarts == Agy!Init => AgyInvariant
  BY DEF Agy!Init, AgyInvariant, AgyTypes, Agy!OneAtATime, Agy!Turns

----
(* Side chats: who is responsible for an ephemeral thread. *)

Creation == [at : {"none", "forking", "injecting", "clearing", "cleaning"}, thread : Nat]
Chat == [parent : Parents, turn : {"none", "hidden", "known"}]
ChatTypes ==
  /\ chatBudget \in [threads : Nat, refusals : Nat]
  /\ create \in [Parents -> Creation]
  /\ DOMAIN close = DOMAIN chats
  /\ \A t \in DOMAIN chats : chats[t] \in Chat

\* An ephemeral thread is a side chat, one that a creation makes, or one to be
\* cleaned up, and only one of them.
Born == 1 .. chatBudget.threads
Making(p) == create[p].at \in {"injecting", "clearing", "cleaning"}
OneOwnerEach ==
  /\ DOMAIN chats \subseteq Born /\ DOMAIN orphans \subseteq Born \ DOMAIN chats
  /\ \A p \in Parents :
      /\ Making(p) => create[p].thread \in Born \ (DOMAIN chats \cup DOMAIN orphans)
      /\ ~Making(p) => create[p].thread = 0
      /\ \A q \in Parents : Making(p) /\ Making(q) /\ create[p].thread = create[q].thread => p = q

OnePerParent ==
  /\ \A s, t \in DOMAIN chats : chats[s].parent = chats[t].parent => s = t
  /\ \A p \in Parents : create[p].at # "none" => \A t \in DOMAIN chats : chats[t].parent # p

LoadedWhileUp ==
  /\ chatLink = "up" => DOMAIN chats \subseteq loaded
  /\ chatLink # "up" => \A p \in Parents : create[p].at = "none"
  /\ \A p \in Parents : create[p].at \in {"injecting", "clearing"} => create[p].thread \in loaded
  /\ chatLink = "clearing" => DOMAIN chats = doomed

ChatsInvariant == ChatTypes /\ OneOwnerEach /\ OnePerParent /\ LoadedWhileUp

LEMMA ChatOwner ==
    /\ Chats!NotCreating \in Creation /\ Chats!NotCreating.at = "none" /\ Chats!NotCreating.thread = 0
    /\ \A f, t, v : /\ DOMAIN Chats!Put(f, t, v) = DOMAIN f \cup {t}
                    /\ Chats!Put(f, t, v)[t] = v
                    /\ \A x \in DOMAIN f \ {t} : Chats!Put(f, t, v)[x] = f[x]
    /\ \A f, S : /\ DOMAIN Chats!Drop(f, S) = DOMAIN f \ S
                 /\ \A x \in DOMAIN f \ S : Chats!Drop(f, S)[x] = f[x]
  BY DEF Chats!NotCreating, Creation, Chats!Put, Chats!Drop

LEMMA ChatRefused ==
    ASSUME ChatTypes, Chats!Refused
    PROVE  chatBudget' \in [threads : Nat, refusals : Nat] /\ chatBudget'.threads = chatBudget.threads
  BY DEF ChatTypes, Chats!Refused

\* A close goes on, a cleanup is asked for again, a Turn moves: nobody's threads change.
LEMMA ChatsGoOn ==
  ASSUME ChatsInvariant, UNCHANGED <<chatLink, loaded, create, doomed>>,
         chatBudget' \in [threads : Nat, refusals : Nat], chatBudget'.threads = chatBudget.threads,
         DOMAIN orphans' = DOMAIN orphans, DOMAIN chats' = DOMAIN chats, DOMAIN close' = DOMAIN close,
         \A t \in DOMAIN chats : chats'[t] \in Chat /\ chats'[t].parent = chats[t].parent
  PROVE  ChatsInvariant'
<1>1. ChatTypes' BY DEF ChatsInvariant, ChatTypes
<1>2. Born' = Born /\ \A p : Making(p)' = Making(p) BY DEF Born, Making
<1>3. OneOwnerEach' BY <1>2 DEF ChatsInvariant, OneOwnerEach
<1>4. OnePerParent' BY DEF ChatsInvariant, OnePerParent
<1>5. LoadedWhileUp' BY DEF ChatsInvariant, LoadedWhileUp
<1> QED BY <1>1, <1>3, <1>4, <1>5 DEF ChatsInvariant

LEMMA ClosesGoOn ==
  ASSUME ChatsInvariant, NEW t,
         \/ Chats!CloseAsked(t) \/ Chats!IdCame(t) \/ Chats!InterruptAnswered(t) \/ Chats!InterruptRefused(t)
         \/ Chats!EndCame(t) \/ Chats!UnsubscribeRefused(t) \/ Chats!CloseTimesOut(t)
  PROVE  ChatsInvariant'
<1>1. /\ UNCHANGED <<chatLink, loaded, chats, create, doomed, orphans>> /\ DOMAIN close' = DOMAIN close
      /\ UNCHANGED chatBudget \/ Chats!Refused
  BY DEF Chats!CloseAsked, Chats!IdCame, Chats!InterruptAnswered, Chats!InterruptRefused, Chats!EndCame,
    Chats!UnsubscribeRefused, Chats!CloseTimesOut
<1>2. ChatTypes BY DEF ChatsInvariant
<1>3. chatBudget' \in [threads : Nat, refusals : Nat] /\ chatBudget'.threads = chatBudget.threads
  BY <1>1, <1>2, ChatRefused DEF ChatTypes
<1>4. \A s \in DOMAIN chats : chats'[s] \in Chat /\ chats'[s].parent = chats[s].parent
  BY <1>1, <1>2 DEF ChatTypes
<1> QED BY <1>1, <1>3, <1>4, ChatsGoOn

LEMMA CleanupsGoOn ==
  ASSUME ChatsInvariant, NEW t, Chats!RetryCleanup(t) \/ Chats!RetryRefused(t)
  PROVE  ChatsInvariant'
<1>1. /\ UNCHANGED <<chatLink, loaded, chats, create, close, doomed>> /\ DOMAIN orphans' = DOMAIN orphans
      /\ UNCHANGED chatBudget \/ Chats!Refused
  BY DEF Chats!RetryCleanup, Chats!RetryRefused, Chats!AfterRefusal, Chats!Put
<1>2. ChatTypes BY DEF ChatsInvariant
<1>3. chatBudget' \in [threads : Nat, refusals : Nat] /\ chatBudget'.threads = chatBudget.threads
  BY <1>1, <1>2, ChatRefused DEF ChatTypes
<1>4. \A s \in DOMAIN chats : chats'[s] \in Chat /\ chats'[s].parent = chats[s].parent
  BY <1>1, <1>2 DEF ChatTypes
<1> QED BY <1>1, <1>3, <1>4, ChatsGoOn

LEMMA OthersGoOn ==
  ASSUME ChatsInvariant,
         \/ \E t \in Chats!Threads : Chats!TurnMoves(t)
         \/ \E p \in Parents : Chats!MainTurn(p)
         \/ Chats!Birth \/ Chats!Write \/ UNCHANGED Chats!vars
  PROVE  ChatsInvariant'
<1>1. ChatTypes BY DEF ChatsInvariant
<1>2. CASE \E t \in Chats!Threads : Chats!TurnMoves(t)
  <2>1. PICK t \in DOMAIN chats, now \in {"none", "hidden", "known"} :
          /\ chats' = [chats EXCEPT ![t].turn = now]
          /\ UNCHANGED <<chatLink, loaded, create, close, doomed, orphans, chatBudget>>
    BY <1>2 DEF Chats!TurnMoves, Chats!Listed
  <2>2. \A s \in DOMAIN chats : chats'[s] \in Chat /\ chats'[s].parent = chats[s].parent
    BY <1>1, <2>1 DEF ChatTypes, Chat
  <2>3. DOMAIN chats' = DOMAIN chats BY <2>1
  <2> QED BY <1>1, <2>1, <2>2, <2>3, ChatsGoOn DEF ChatTypes
<1>3. CASE ~\E t \in Chats!Threads : Chats!TurnMoves(t)
  <2>1. UNCHANGED <<chatLink, loaded, chats, create, close, doomed, orphans, chatBudget>>
    BY <1>3 DEF Chats!MainTurn, Chats!Birth, Chats!Write, Chats!vars
  <2>2. \A s \in DOMAIN chats : chats'[s] \in Chat /\ chats'[s].parent = chats[s].parent
    BY <1>1, <2>1 DEF ChatTypes
  <2> QED BY <1>1, <2>1, <2>2, ChatsGoOn DEF ChatTypes
<1> QED BY <1>2, <1>3

\* A creation takes its next step, and keeps its thread or lets go of it.
LEMMA CreationGoesOn ==
  ASSUME ChatsInvariant, NEW p \in Parents,
         UNCHANGED <<chatLink, loaded, chats, close, doomed>>,
         \/ Chats!CreateAsked(p) \/ Chats!ForkRefused(p) \/ Chats!Injected(p)
         \/ Chats!InitializationRefused(p) \/ Chats!CleaningRefused(p)
  PROVE  ChatsInvariant'
<1>1. ChatTypes /\ OneOwnerEach /\ OnePerParent /\ LoadedWhileUp BY DEF ChatsInvariant
<1>2. chatBudget' \in [threads : Nat, refusals : Nat] /\ chatBudget'.threads = chatBudget.threads
  BY <1>1, ChatRefused DEF ChatTypes, Chats!CreateAsked, Chats!ForkRefused, Chats!Injected,
    Chats!InitializationRefused, Chats!CleaningRefused
<1>3. Born' = Born BY <1>2 DEF Born
<1>4. CASE Chats!CreateAsked(p) \/ Chats!ForkRefused(p)
  <2>1. PICK c \in Creation : create' = [create EXCEPT ![p] = c] /\ c.thread = 0 /\ c.at \in {"none", "forking"}
    BY <1>4, ChatOwner DEF Chats!CreateAsked, Chats!ForkRefused, Creation
  <2>2. orphans' = orphans /\ create[p].at \in {"none", "forking"}
    BY <1>4 DEF Chats!CreateAsked, Chats!ForkRefused
  <2>3. c.at = "none" \/ (chatLink = "up" /\ \A t \in DOMAIN chats : chats[t].parent # p)
    BY <1>4, <2>1, ChatOwner, <1>1 DEF Chats!CreateAsked, Chats!ForkRefused, Chats!ChatOf, Chats!Listed, ChatTypes
  <2>4. \A q \in Parents : create'[q] = IF q = p THEN c ELSE create[q] BY <1>1, <2>1 DEF ChatTypes
  <2>5. ChatTypes' BY <1>1, <1>2, <2>1 DEF ChatTypes
  <2>6. ~Making(p) /\ \A q \in Parents : Making(q)' = Making(q) BY <2>1, <2>2, <2>4 DEF Making
  <2>7. OneOwnerEach' BY <1>1, <1>3, <2>1, <2>2, <2>4, <2>6 DEF OneOwnerEach
  <2>8. OnePerParent' BY <1>1, <2>3, <2>4 DEF OnePerParent
  <2>9. LoadedWhileUp' BY <1>1, <2>1, <2>3, <2>4 DEF LoadedWhileUp
  <2> QED BY <2>5, <2>7, <2>8, <2>9 DEF ChatsInvariant
<1>5. CASE Chats!Injected(p) \/ Chats!InitializationRefused(p)
  <2>1. PICK step \in {"clearing", "cleaning"} : create' = [create EXCEPT ![p].at = step]
    BY <1>5 DEF Chats!Injected, Chats!InitializationRefused
  <2>2. orphans' = orphans /\ create[p].at \in {"injecting", "clearing"}
    BY <1>5 DEF Chats!Injected, Chats!InitializationRefused
  <2>3. /\ create'[p].at = step /\ create'[p].thread = create[p].thread
        /\ \A q \in Parents : q # p => create'[q] = create[q]
    BY <1>1, <2>1 DEF ChatTypes, Creation
  <2>4. ChatTypes' BY <1>1, <1>2, <2>1 DEF ChatTypes, Creation
  <2>5. Making(p) /\ \A q \in Parents : Making(q)' = Making(q) /\ create'[q].thread = create[q].thread
    BY <2>2, <2>3 DEF Making
  <2>6. OneOwnerEach' BY <1>1, <1>3, <2>2, <2>5 DEF OneOwnerEach
  <2>7. OnePerParent' BY <1>1, <2>2, <2>3 DEF OnePerParent
  <2>8. LoadedWhileUp' BY <1>1, <2>2, <2>3 DEF LoadedWhileUp
  <2> QED BY <2>4, <2>6, <2>7, <2>8 DEF ChatsInvariant
<1>6. CASE Chats!CleaningRefused(p)
  <2>1. /\ create' = [create EXCEPT ![p] = Chats!NotCreating] /\ create[p].at = "cleaning"
        /\ DOMAIN orphans' = DOMAIN orphans \cup {create[p].thread}
    BY <1>6 DEF Chats!CleaningRefused, Chats!Put
  <2>2. \A q \in Parents : create'[q] = IF q = p THEN Chats!NotCreating ELSE create[q]
    BY <1>1, <2>1 DEF ChatTypes
  <2>3. ChatTypes' BY <1>1, <1>2, <2>1, ChatOwner DEF ChatTypes
  <2>4. Making(p) /\ ~Making(p)' /\ \A q \in Parents : q # p => Making(q)' = Making(q)
    BY <2>1, <2>2, ChatOwner DEF Making
  <2>5. \A q \in Parents : q # p /\ Making(q) => create[q].thread # create[p].thread
    BY <1>1, <2>4 DEF OneOwnerEach
  <2>6. create[p].thread \in Born \ (DOMAIN chats \cup DOMAIN orphans) BY <1>1, <2>4 DEF OneOwnerEach
  <2>7. OneOwnerEach'
    <3>1. DOMAIN chats \subseteq Born /\ DOMAIN orphans' \subseteq Born \ DOMAIN chats
      BY <1>1, <2>1, <2>6 DEF OneOwnerEach
    <3>2. ASSUME NEW q \in Parents
          PROVE  /\ Making(q)' => create'[q].thread \in Born \ (DOMAIN chats \cup DOMAIN orphans')
                 /\ ~Making(q)' => create'[q].thread = 0
      <4>1. CASE q = p BY <4>1, <2>2, <2>4, ChatOwner
      <4>2. CASE q # p BY <4>2, <1>1, <2>1, <2>2, <2>4, <2>5 DEF OneOwnerEach
      <4> QED BY <4>1, <4>2
    <3>3. ASSUME NEW q \in Parents, NEW r \in Parents, Making(q)', Making(r)', create'[q].thread = create'[r].thread
          PROVE  q = r
      BY <3>3, <1>1, <2>2, <2>4 DEF OneOwnerEach
    <3> QED BY <3>1, <3>2, <3>3, <1>3 DEF OneOwnerEach
  <2>8. OnePerParent' BY <1>1, <2>2, ChatOwner DEF OnePerParent
  <2>9. LoadedWhileUp' BY <1>1, <2>2, ChatOwner DEF LoadedWhileUp
  <2> QED BY <2>3, <2>7, <2>8, <2>9 DEF ChatsInvariant
<1> QED BY <1>4, <1>5, <1>6

\* A fork is a new thread: nobody owns it but the creation that asked for it.
LEMMA ForkIsNew ==
  ASSUME ChatsInvariant, NEW p \in Parents, Chats!Forked(p)
  PROVE  ChatsInvariant'
<1> DEFINE new == chatBudget.threads + 1
<1>1. ChatTypes /\ OneOwnerEach /\ OnePerParent /\ LoadedWhileUp BY DEF ChatsInvariant
<1>2. /\ create[p].at = "forking" /\ create' = [create EXCEPT ![p] = [at |-> "injecting", thread |-> new]]
      /\ chatBudget' = [chatBudget EXCEPT !.threads = new] /\ loaded' = loaded \cup {new}
      /\ UNCHANGED <<chatLink, chats, close, doomed, orphans>>
  BY DEF Chats!Forked
<1>3. /\ new \in Nat /\ chatBudget' \in [threads : Nat, refusals : Nat]
      /\ chatBudget.threads \in Nat /\ chatBudget'.threads = new
  BY <1>1, <1>2 DEF ChatTypes
<1>4. Born' = Born \cup {new} /\ new \notin Born BY <1>3 DEF Born
<1> HIDE DEF new
<1>5. \A q \in Parents : create'[q] = IF q = p THEN [at |-> "injecting", thread |-> new] ELSE create[q]
  BY <1>1, <1>2 DEF ChatTypes
<1>6. ChatTypes' BY <1>1, <1>2, <1>3 DEF ChatTypes, Creation
<1>7. Making(p)' /\ \A q \in Parents : q # p => Making(q)' = Making(q) BY <1>5 DEF Making
<1>8. OneOwnerEach' BY <1>1, <1>2, <1>4, <1>5, <1>7 DEF OneOwnerEach
<1>9. OnePerParent' BY <1>1, <1>2, <1>5 DEF OnePerParent
<1>10. LoadedWhileUp' BY <1>1, <1>2, <1>5 DEF LoadedWhileUp
<1> QED BY <1>6, <1>8, <1>9, <1>10 DEF ChatsInvariant

\* A creation ends, as a registered side chat or with its thread gone.
LEMMA CreationEnds ==
  ASSUME ChatsInvariant, NEW p \in Parents, Chats!Registered(p) \/ Chats!Cleaned(p)
  PROVE  ChatsInvariant'
<1> DEFINE mine == create[p].thread
<1>1. ChatTypes /\ OneOwnerEach /\ OnePerParent /\ LoadedWhileUp BY DEF ChatsInvariant
<1>2. /\ create' = [create EXCEPT ![p] = Chats!NotCreating]
      /\ UNCHANGED <<chatLink, doomed, orphans, chatBudget>>
      /\ create[p].at \in {"clearing", "cleaning"}
  BY DEF Chats!Registered, Chats!Cleaned
<1>3. \A q \in Parents : create'[q] = IF q = p THEN Chats!NotCreating ELSE create[q] BY <1>1, <1>2 DEF ChatTypes
<1>4. Born' = Born BY <1>2 DEF Born
<1>5. Making(p) /\ ~Making(p)' /\ \A q \in Parents : q # p => Making(q)' = Making(q)
  BY <1>2, <1>3, ChatOwner DEF Making
<1>6. mine \in Born \ (DOMAIN chats \cup DOMAIN orphans) BY <1>1, <1>5 DEF OneOwnerEach
<1>7. \A q \in Parents : q # p /\ Making(q) => create[q].thread # mine BY <1>1, <1>5 DEF OneOwnerEach
<1>8. create' \in [Parents -> Creation] /\ chatBudget' \in [threads : Nat, refusals : Nat]
  BY <1>1, <1>2, ChatOwner DEF ChatTypes
<1>9. chatLink = "up" BY <1>1, <1>2 DEF LoadedWhileUp
<1>10. CASE Chats!Registered(p)
  <2>1. /\ chats' = Chats!Put(chats, mine, [parent |-> p, turn |-> "none"])
        /\ close' = Chats!Put(close, mine, "none") /\ loaded' = loaded /\ create[p].at = "clearing"
    BY <1>10 DEF Chats!Registered
  <2>2. /\ DOMAIN chats' = DOMAIN chats \cup {mine} /\ DOMAIN close' = DOMAIN close \cup {mine}
        /\ chats'[mine] = [parent |-> p, turn |-> "none"]
        /\ \A t \in DOMAIN chats : chats'[t] = chats[t]
    BY <2>1, <1>6 DEF Chats!Put
  <2>3. mine \in loaded BY <1>1, <2>1 DEF LoadedWhileUp
  <2> HIDE DEF mine
  <2>4. ChatTypes' BY <1>1, <1>8, <2>2 DEF ChatTypes, Chat
  <2>5. OneOwnerEach'
    <3>1. DOMAIN chats' \subseteq Born /\ DOMAIN orphans \subseteq Born \ DOMAIN chats'
      BY <1>1, <1>6, <2>2 DEF OneOwnerEach
    <3>2. ASSUME NEW q \in Parents
          PROVE  /\ Making(q)' => create'[q].thread \in Born \ (DOMAIN chats' \cup DOMAIN orphans)
                 /\ ~Making(q)' => create'[q].thread = 0
      BY <1>1, <1>3, <1>5, <1>7, <2>2, ChatOwner DEF OneOwnerEach
    <3>3. ASSUME NEW q \in Parents, NEW r \in Parents, Making(q)', Making(r)', create'[q].thread = create'[r].thread
          PROVE  q = r
      BY <3>3, <1>1, <1>3, <1>5 DEF OneOwnerEach
    <3> QED BY <3>1, <3>2, <3>3, <1>2, <1>4 DEF OneOwnerEach
  <2>6. OnePerParent'
    <3>1. \A t \in DOMAIN chats : chats[t].parent # p BY <1>1, <2>1 DEF OnePerParent
    <3> QED BY <3>1, <1>1, <1>3, <2>2, ChatOwner DEF OnePerParent
  <2>7. LoadedWhileUp' BY <1>1, <1>2, <1>3, <1>9, <2>1, <2>2, <2>3, ChatOwner DEF LoadedWhileUp
  <2> QED BY <2>4, <2>5, <2>6, <2>7 DEF ChatsInvariant
<1>11. CASE Chats!Cleaned(p)
  <2>1. loaded' = loaded \ {mine} /\ UNCHANGED <<chats, close>> BY <1>11 DEF Chats!Cleaned
  <2> HIDE DEF mine
  <2>2. ChatTypes' BY <1>1, <1>8, <2>1 DEF ChatTypes
  <2>3. OneOwnerEach'
    <3>1. ASSUME NEW q \in Parents
          PROVE  /\ Making(q)' => create'[q].thread \in Born \ (DOMAIN chats \cup DOMAIN orphans)
                 /\ ~Making(q)' => create'[q].thread = 0
      BY <1>1, <1>3, <1>5, ChatOwner DEF OneOwnerEach
    <3>2. ASSUME NEW q \in Parents, NEW r \in Parents, Making(q)', Making(r)', create'[q].thread = create'[r].thread
          PROVE  q = r
      BY <3>2, <1>1, <1>3, <1>5 DEF OneOwnerEach
    <3> QED BY <3>1, <3>2, <1>1, <1>2, <1>4, <2>1 DEF OneOwnerEach
  <2>4. OnePerParent' BY <1>1, <1>3, <2>1, ChatOwner DEF OnePerParent
  <2>5. LoadedWhileUp'
    <3>1. mine \notin DOMAIN chats BY <1>6
    <3>2. \A q \in Parents : create'[q].at \in {"injecting", "clearing"} => create'[q].thread \in loaded'
      BY <1>1, <1>3, <1>7, <2>1, ChatOwner DEF LoadedWhileUp, Making
    <3> QED BY <3>1, <3>2, <1>1, <1>2, <1>9, <2>1 DEF LoadedWhileUp
  <2> QED BY <2>2, <2>3, <2>4, <2>5 DEF ChatsInvariant
<1> QED BY <1>10, <1>11

\* Side chats are removed, cleanups are done, the connection moves on.
LEMMA ThreadsGo ==
  ASSUME ChatsInvariant, UNCHANGED <<create, chatBudget>>,
         DOMAIN chats' \subseteq DOMAIN chats, DOMAIN close' = DOMAIN chats',
         \A t \in DOMAIN chats' : chats'[t] = chats[t],
         DOMAIN orphans' \subseteq DOMAIN orphans,
         LoadedWhileUp'
  PROVE  ChatsInvariant'
<1>1. ChatTypes /\ OneOwnerEach /\ OnePerParent BY DEF ChatsInvariant
<1>2. ChatTypes' BY <1>1 DEF ChatTypes
<1>3. Born' = Born /\ \A p : Making(p)' = Making(p) BY DEF Born, Making
<1>4. OneOwnerEach' BY <1>1, <1>3 DEF OneOwnerEach
<1>5. OnePerParent' BY <1>1 DEF OnePerParent
<1> QED BY <1>2, <1>4, <1>5 DEF ChatsInvariant

LEMMA ChatsGo ==
  ASSUME ChatsInvariant, NEW t,
         Chats!RetryAnswered(t) \/ Chats!Unsubscribed(t) \/ Chats!RemoveDoomed(t)
  PROVE  ChatsInvariant'
<1>1. ChatTypes /\ OneOwnerEach /\ LoadedWhileUp BY DEF ChatsInvariant
<1>2. t \in DOMAIN chats \cup DOMAIN orphans
  <2>1. CASE Chats!RetryAnswered(t) BY <2>1 DEF Chats!RetryAnswered
  <2>2. CASE Chats!Unsubscribed(t) BY <2>2 DEF Chats!Unsubscribed, Chats!Listed
  <2>3. CASE Chats!RemoveDoomed(t)
    BY <2>3, <1>1 DEF Chats!RemoveDoomed, LoadedWhileUp, ChatTypes, Chats!Listed
  <2> QED BY <2>1, <2>2, <2>3
<1>3. \A p \in Parents : Making(p) => create[p].thread # t BY <1>1, <1>2 DEF OneOwnerEach
<1>4. /\ UNCHANGED <<chatLink, create, chatBudget>>
      /\ DOMAIN chats' \subseteq DOMAIN chats /\ DOMAIN close' = DOMAIN chats'
      /\ \A s \in DOMAIN chats' : chats'[s] = chats[s]
      /\ DOMAIN orphans' \subseteq DOMAIN orphans
      /\ loaded \ {t} \subseteq loaded' /\ (t \in DOMAIN chats' => loaded' = loaded)
      /\ DOMAIN chats = doomed => DOMAIN chats' = doomed'
  <2>1. CASE Chats!RetryAnswered(t)
    <3>1. t \notin DOMAIN chats BY <2>1, <1>1 DEF Chats!RetryAnswered, OneOwnerEach
    <3> QED BY <2>1, <3>1, <1>1 DEF Chats!RetryAnswered, Chats!Drop, ChatTypes
  <2>2. CASE Chats!Unsubscribed(t) BY <2>2, <1>1 DEF Chats!Unsubscribed, Chats!Removed, Chats!Drop, ChatTypes
  <2>3. CASE Chats!RemoveDoomed(t) BY <2>3, <1>1 DEF Chats!RemoveDoomed, Chats!Removed, Chats!Drop, ChatTypes
  <2> QED BY <2>1, <2>2, <2>3
<1>5. \A p \in Parents : create[p].at \in {"injecting", "clearing"} => create[p].thread \in loaded'
  BY <1>1, <1>3, <1>4 DEF LoadedWhileUp, Making
<1>6. LoadedWhileUp' BY <1>1, <1>4, <1>5 DEF LoadedWhileUp
<1> QED BY <1>4, <1>6, ThreadsGo

LEMMA ConnectionReturns ==
  ASSUME ChatsInvariant, Chats!Initialized \/ Chats!ListDoomed \/ Chats!Reconciled
  PROVE  ChatsInvariant'
<1>1. ChatTypes /\ LoadedWhileUp BY DEF ChatsInvariant
<1>2. /\ UNCHANGED <<create, chatBudget, chats, close, loaded>> /\ DOMAIN orphans' \subseteq DOMAIN orphans
  BY DEF Chats!Initialized, Chats!ListDoomed, Chats!Reconciled
<1>3. chatLink # "up" BY DEF Chats!Initialized, Chats!ListDoomed, Chats!Reconciled
<1>5. LoadedWhileUp'
  <2>1. CASE Chats!Initialized BY <1>1, <2>1, <1>2 DEF Chats!Initialized, LoadedWhileUp
  <2>2. CASE Chats!ListDoomed BY <1>1, <2>2, <1>2 DEF Chats!ListDoomed, Chats!Listed, LoadedWhileUp
  <2>3. CASE Chats!Reconciled BY <1>1, <2>3, <1>2 DEF Chats!Reconciled, LoadedWhileUp
  <2> QED BY <2>1, <2>2, <2>3
<1> QED BY <1>1, <1>2, <1>5, ThreadsGo DEF ChatTypes

\* The connection goes: the creations fail, and a thread that was being cleaned
\* up waits for its cleanup.
LEMMA ChatsLost ==
  ASSUME ChatsInvariant, (\E t : Chats!Recover(t)) \/ Chats!ConnectionLost
  PROVE  ChatsInvariant'
<1> DEFINE Unclean == {create[p].thread : p \in {q \in Parents : create[q].at = "cleaning"}}
<1>1. ChatTypes /\ OneOwnerEach /\ OnePerParent /\ LoadedWhileUp BY DEF ChatsInvariant
<1>2. Chats!Lost /\ chatBudget' = chatBudget BY DEF Chats!Recover, Chats!ConnectionLost
<1>3. /\ DOMAIN chats' \subseteq DOMAIN chats /\ DOMAIN close' = DOMAIN chats'
      /\ \A t \in DOMAIN chats' : chats'[t] \in Chat /\ chats'[t].parent = chats[t].parent
  <2>1. CASE \E t : Chats!Recover(t) BY <2>1, <1>1 DEF Chats!Recover, Chats!Removed, Chats!Drop, ChatTypes
  <2>2. CASE Chats!ConnectionLost BY <2>2, <1>1 DEF Chats!ConnectionLost, Chats!Listed, ChatTypes, Chat
  <2> QED BY <2>1, <2>2
<1>4. /\ chatLink' = "down" /\ DOMAIN orphans' = DOMAIN orphans \cup Unclean
      /\ DOMAIN create' = Parents /\ \A p \in Parents : create'[p] = Chats!NotCreating
  BY <1>2 DEF Chats!Lost
<1>5. create' \in [Parents -> Creation] BY <1>2, ChatOwner DEF Chats!Lost
<1>6. Unclean \subseteq Born \ (DOMAIN chats \cup DOMAIN orphans) BY <1>1 DEF OneOwnerEach, Making
<1>7. \A p \in Parents : ~Making(p)' /\ create'[p].at = "none" /\ create'[p].thread = 0
  BY <1>4, ChatOwner DEF Making
<1>8. Born' = Born BY <1>2 DEF Born
<1> HIDE DEF Unclean
<1>9. ChatTypes' BY <1>1, <1>2, <1>3, <1>5 DEF ChatTypes
<1>10. OneOwnerEach' BY <1>1, <1>3, <1>4, <1>6, <1>7, <1>8 DEF OneOwnerEach
<1>11. OnePerParent' BY <1>1, <1>3, <1>7 DEF OnePerParent
<1>12. LoadedWhileUp' BY <1>4, <1>7 DEF LoadedWhileUp
<1> QED BY <1>9, <1>10, <1>11, <1>12 DEF ChatsInvariant

LEMMA ChatsStep ==
  ASSUME ChatsInvariant, Chats!Next \/ UNCHANGED chatVars
  PROVE  ChatsInvariant'
<1>1. CASE UNCHANGED chatVars BY <1>1, OthersGoOn DEF chatVars, Chats!vars
<1>2. CASE \E p \in Parents :
            \/ Chats!CreateAsked(p) \/ Chats!ForkRefused(p) \/ Chats!Injected(p)
            \/ Chats!InitializationRefused(p) \/ Chats!CleaningRefused(p)
  <2>1. UNCHANGED <<chatLink, loaded, chats, close, doomed>>
    BY <1>2 DEF Chats!CreateAsked, Chats!ForkRefused, Chats!Injected, Chats!InitializationRefused,
      Chats!CleaningRefused
  <2> QED BY <1>2, <2>1, CreationGoesOn
<1>3. CASE \E p \in Parents : Chats!Forked(p) \/ Chats!Registered(p) \/ Chats!Cleaned(p)
  BY <1>3, ForkIsNew, CreationEnds
<1>4. CASE \E t : \/ Chats!CloseAsked(t) \/ Chats!IdCame(t) \/ Chats!InterruptAnswered(t)
                  \/ Chats!InterruptRefused(t) \/ Chats!EndCame(t) \/ Chats!UnsubscribeRefused(t)
                  \/ Chats!CloseTimesOut(t)
  BY <1>4, ClosesGoOn
<1>5. CASE \E t : Chats!RetryCleanup(t) \/ Chats!RetryRefused(t) BY <1>5, CleanupsGoOn
<1>6. CASE \E t : Chats!RetryAnswered(t) \/ Chats!Unsubscribed(t) \/ Chats!RemoveDoomed(t) BY <1>6, ChatsGo
<1>7. CASE Chats!Initialized \/ Chats!ListDoomed \/ Chats!Reconciled BY <1>7, ConnectionReturns
<1>8. CASE (\E t : Chats!Recover(t)) \/ Chats!ConnectionLost BY <1>8, ChatsLost
<1>9. CASE \/ \E t \in Chats!Threads : Chats!TurnMoves(t)
           \/ \E p \in Parents : Chats!MainTurn(p)
           \/ Chats!Birth \/ Chats!Write
  BY <1>9, OthersGoOn
<1> QED BY <1>1, <1>2, <1>3, <1>4, <1>5, <1>6, <1>7, <1>8, <1>9 DEF Chats!Next, Chats!Proceed

LEMMA ChatsStart == ASSUME Chats!Init PROVE ChatsInvariant
<1>1. ChatTypes BY ChatOwner DEF ChatTypes, Chats!Init
<1>2. Born = {} /\ \A p \in Parents : ~Making(p) /\ create[p].thread = 0 /\ create[p].at = "none"
  BY ChatOwner DEF Chats!Init, Born, Making
<1> QED BY <1>1, <1>2 DEF ChatsInvariant, OneOwnerEach, OnePerParent, LoadedWhileUp, Chats!Init

LEMMA ChatCounts == \A S : Chats!Cardinality(S) = Cardinality(S)
BY DEF Chats!Cardinality, Cardinality

----
(* All parts: who is not the subject of a behaviour rests. *)

\* The attachment store keeps FilesInvariant through every interleaving of uploads,
\* removals, claims, releases, late answers and crashes.
THEOREM FilesInductive == MCSpec => []FilesInvariant
<1>1. MCInit => Attachments!Init BY DEF MCInit
<1>2. [MCNext]_mcVars => [Attachments!Next]_(Attachments!vars)
  BY DEF MCNext, Step, mcVars, fileVars, filesRest, Attachments!vars, Attachments!disk, Attachments!taken
<1>3. Attachments!Init => FilesInvariant BY FilesStart
<1>4. FilesInvariant /\ [Attachments!Next]_(Attachments!vars) => FilesInvariant' BY FilesStep
<1> QED BY <1>1, <1>2, <1>3, <1>4, PTL DEF MCSpec

\* The self update keeps UpdateInvariant, wherever the process or the task is cut
\* short, and for every number of commits.
THEOREM UpdateInductive == MCSpec => []UpdateInvariant
<1>1. MCInit => Update!Init BY DEF MCInit
<1>2. [MCNext]_mcVars => [Update!Next]_(Update!vars)
  BY DEF MCNext, Step, mcVars, updateVars, updateRests, Update!vars
<1>3. Update!Init => UpdateInvariant BY UpdateStarts
<1>4. UpdateInvariant /\ [Update!Next]_(Update!vars) => UpdateInvariant' BY UpdateStep
<1> QED BY <1>1, <1>2, <1>3, <1>4, PTL DEF MCSpec

\* The pi adapter keeps PiInvariant, for every number of dying processes and of lines
\* under way.
THEOREM PiInductive == MCSpec => []PiInvariant
<1>1. MCInit => Pi!Init BY DEF MCInit
<1>2. [MCNext]_mcVars => [Pi!Next]_(Pi!vars) BY DEF MCNext, Step, mcVars, piVars, piRests, Pi!vars
<1>3. Pi!Init => PiInvariant BY PiStarts
<1>4. PiInvariant /\ [Pi!Next]_(Pi!vars) => PiInvariant' BY PiStep
<1> QED BY <1>1, <1>2, <1>3, <1>4, PTL DEF MCSpec

\* The agy adapter keeps AgyInvariant, for every number of Turns.
THEOREM AgyInductive == MCSpec => []AgyInvariant
<1>1. MCInit => Agy!Init BY DEF MCInit
<1>2. [MCNext]_mcVars => [Agy!Next]_(Agy!vars) BY DEF MCNext, Step, mcVars, agyVars, agyRests, Agy!vars
<1>3. Agy!Init => AgyInvariant BY AgyStarts
<1>4. AgyInvariant /\ [Agy!Next]_(Agy!vars) => AgyInvariant' BY AgyStep
<1> QED BY <1>1, <1>2, <1>3, <1>4, PTL DEF MCSpec

\* Side chats keep ChatsInvariant, for every set of parents and every number of
\* threads and of refusals.
THEOREM ChatsInductive == MCSpec => []ChatsInvariant
<1>1. MCInit => Chats!Init BY DEF MCInit
<1>2. [MCNext]_mcVars => Chats!Next \/ UNCHANGED chatVars BY DEF MCNext, Step, mcVars, chatVars, chatsRest
<1>3. Chats!Init => ChatsInvariant BY ChatsStart
<1>4. ChatsInvariant /\ (Chats!Next \/ UNCHANGED chatVars) => ChatsInvariant' BY ChatsStep
<1> QED BY <1>1, <1>2, <1>3, <1>4, PTL DEF MCSpec

\* AttachmentStore and the updater: a file that a message was sent with is claimed on
\* the disk, unless its claim was overtaken by a removal or by another message's
\* release; and who reports a success was loaded from the build that it names.
THEOREM DiskStaysTrue == MCSpec => []TheDiskIsTrue
<1>1. FilesInvariant => Attachments!SentStays
  BY DEF FilesInvariant, FileTypes, Claimed, Counts, Attachments!SentStays
<1>2. UpdateInvariant => Update!SucceededIsLoaded BY DEF UpdateInvariant, FileIsTrue, Update!SucceededIsLoaded
<1> QED BY <1>1, <1>2, FilesInductive, UpdateInductive, PTL DEF TheDiskIsTrue

\* The pi and agy adapters: the Turns stored as running are those that the living
\* process works on, and a session never has two processes.
THEOREM TurnsKeepTheirProcess == MCSpec => []TurnsHaveTheirProcess
<1>1. PiInvariant => Pi!StoredIsWorkedOn BY DEF PiInvariant
<1>2. PiInvariant => Pi!OneProcess BY PiOneProcess
<1>3. AgyInvariant => Agy!OneAtATime BY DEF AgyInvariant
<1> QED BY <1>1, <1>2, <1>3, PiInductive, AgyInductive, PTL DEF TurnsHaveTheirProcess

\* Side chats: at rest every one that is listed is alive on the server, and no
\* session has two.
THEOREM ChatsAreAlive == MCSpec => []Chats!ListedAreAlive
<1>1. ASSUME ChatsInvariant PROVE Chats!ListedAreAlive
  <2>1. OnePerParent /\ LoadedWhileUp BY <1>1 DEF ChatsInvariant
  <2>2. ASSUME NEW p \in Parents PROVE Chats!Cardinality(Chats!ChatOf(p)) <= 1
    <3>1. Chats!ChatOf(p) = {} \/ \E t : Chats!ChatOf(p) = {t}
      BY <2>1 DEF OnePerParent, Chats!ChatOf, Chats!Listed
    <3>2. Cardinality(Chats!ChatOf(p)) \in {0, 1} BY <3>1, FS_EmptySet, FS_Singleton
    <3> QED BY <3>2, ChatCounts
  <2>3. chatLink = "up" => Chats!Listed \subseteq loaded BY <2>1 DEF LoadedWhileUp, Chats!Listed
  <2> QED BY <2>2, <2>3 DEF Chats!ListedAreAlive
<1> QED BY <1>1, ChatsInductive, PTL

\* Side chats: a restart that a close asks for interrupts no session's Turn and no
\* other side chat, loses no creation, and leaves no thread that nobody registered.
THEOREM RecoverySparesOthers == MCSpec => Chats!RecoveryCostsNothing
<1> DEFINE Costless(t) == /\ \A p \in Parents : ~main[p]
                          /\ Chats!Listed = {t}
                          /\ \A p \in Parents : create[p].thread = 0
                          /\ birth = "none" /\ ~writing
<1>1. ASSUME ChatsInvariant, NEW t, Chats!Recover(t) PROVE Costless(t)
  <2>1. ~Chats!Spared(t) BY <1>1 DEF Chats!Recover
  <2>2. /\ \A p \in Parents : ~main[p] /\ create[p].at = "none"
        /\ Chats!Listed = {t} /\ birth = "none" /\ ~writing
    BY <2>1 DEF Chats!Spared, Chats!CriticalOperations, Chats!PendingMutations
  <2>3. \A p \in Parents : create[p].thread = 0 BY <2>2, <1>1 DEF ChatsInvariant, OneOwnerEach, Making
  <2> QED BY <2>2, <2>3
<1>2. ChatsInvariant /\ [MCNext]_mcVars => [\A t \in Chats!Threads : Chats!Recover(t) => Costless(t)]_(Chats!vars)
  BY <1>1
<1> QED BY <1>2, ChatsInductive, PTL DEF MCSpec, Chats!RecoveryCostsNothing

----
(* Calls of a page, their one retry and the results of actions *)
(* (ClientRequests). *)

CONSTANTS Calls, Ids, Used, Bars, MaxLives
VARIABLES locked, server, results, times, page, call

Requests == INSTANCE ClientRequests

\* The calls are not the bootstraps, and their ids and routes are what they are used with.
RequestConstants == Calls \cap Requests!Bootstraps = {} /\ Calls \subseteq DOMAIN Used

Routes == {"bootstrap"} \cup UNION {Used[c] : c \in Calls}
CallType == [
    route : Routes, id : Ids \cup {0}, since : Nat, retried : BOOLEAN,
    at : {"idle", "waits", "refreshes", "resumes", "ended"},
    req : {"none", "wire", "runs", "joins", "answered"},
    cookie : Nat, token : Nat,
    answer : {"none", "ok", "error", "denied", "busy", "expired", "password", "lost"},
    life : Nat, reached : BOOLEAN]

\* A call that is under way is of a route and id of its own; who awaits a refresh, or
\* was told to refresh, has reached no route.
Underway(r) == r.at \in {"waits", "refreshes", "resumes"} \/ r.req # "none"
Unreached(r) ==
  \/ r.at \in {"refreshes", "resumes"} \/ r.req = "wire"
  \/ (r.req = "answered" /\ Requests!Expired(r.answer))
Sane(c, r) ==
  /\ r \in CallType
  /\ c \in Requests!Bootstraps => r.route = "bootstrap"
  /\ c \in Calls /\ Underway(r) => r.route \in Used[c] /\ r.id \in Ids
  /\ r.at \in {"idle", "refreshes", "resumes"} => r.req = "none"
  /\ r.req = "answered" => r.answer # "none"
  /\ Unreached(r) => ~r.reached
CallsAreSane ==
  /\ DOMAIN call = Requests!Everyone
  /\ \A c \in Requests!Everyone : Sane(c, call[c])

ServerTypes ==
  /\ server \in [up : BOOLEAN, life : Nat, barred : Bars \cup {"no"}]
  /\ page \in [cookie : Nat, token : Nat]

\* The promise of a key is there while its action runs and until its success is forgotten.
Runs(c) == call[c].req = "runs" /\ call[c].route \in Requests!Deduplicated
OneActionEach ==
  /\ results \in [Requests!Keys -> {"none", "running", "done"}]
  /\ times \in [Requests!Keys -> {0, 1}]
  /\ \A k \in Requests!Keys : results[k] = "done" <=> times[k] = 1
  /\ \A c \in Calls : Runs(c) => results[Requests!Key(c)] = "running"
  /\ \A c, d \in Calls : Runs(c) /\ Runs(d) /\ Requests!Key(c) = Requests!Key(d) => c = d

RequestsInvariant == ServerTypes /\ CallsAreSane /\ OneActionEach

LEMMA NoCallIsSane ==
  /\ \A c : Sane(c, Requests!NoCall)
  /\ \A c, answer : answer \in {"ok", "error", "denied", "busy", "expired", "password", "lost"} =>
          Sane(c, Requests!Ended(answer)) /\ Requests!Ended(answer).req = "none"
<1> USE DEF Sane, Requests!NoCall, CallType, Routes, Underway, Unreached
<1>1. \A c : Sane(c, Requests!NoCall) OBVIOUS
<1>2. ASSUME NEW c, NEW answer \in {"ok", "error", "denied", "busy", "expired", "password", "lost"}
      PROVE  Sane(c, Requests!Ended(answer)) /\ Requests!Ended(answer).req = "none"
  BY DEF Requests!Ended
<1> QED BY <1>1, <1>2

\* A call that runs no action, before or after, disturbs none.
LEMMA ActionsGoOn ==
  ASSUME RequestsInvariant, ServerTypes', CallsAreSane', UNCHANGED <<results, times>>,
         \A c \in Calls : call'[c].req = "runs" =>
              call[c].req = "runs" /\ call'[c].route = call[c].route /\ call'[c].id = call[c].id
  PROVE  RequestsInvariant'
<1>1. \A c \in Calls : Runs(c)' => Runs(c) /\ Requests!Key(c)' = Requests!Key(c) BY DEF Runs, Requests!Key
<1>2. Requests!Keys' = Requests!Keys BY DEF Requests!Keys
<1>3. OneActionEach' BY <1>1, <1>2 DEF RequestsInvariant, OneActionEach
<1> QED BY <1>3 DEF RequestsInvariant

\* One call changes.
LEMMA OneCallMoves ==
  ASSUME RequestsInvariant, NEW c \in Requests!Everyone, NEW r, Sane(c, r),
         call' = [call EXCEPT ![c] = r]
  PROVE  CallsAreSane'
BY DEF RequestsInvariant, CallsAreSane, Requests!Everyone, Sane

\* The refresh ends, and with it all who await it.
LEMMA RefreshEndsSane ==
  ASSUME NEW calls, DOMAIN calls = Requests!Everyone,
         \A d \in Requests!Everyone : Sane(d, calls[d]),
         NEW answer \in {"ok", "error", "denied", "busy", "expired", "password", "lost"}
  PROVE  /\ DOMAIN Requests!RefreshEnds(calls, answer) = Requests!Everyone
         /\ \A d \in Requests!Everyone : Sane(d, Requests!RefreshEnds(calls, answer)[d])
         /\ \A d \in Requests!Everyone : Requests!RefreshEnds(calls, answer)[d].req = "runs" =>
              Requests!RefreshEnds(calls, answer)[d] = calls[d]
<1>1. DOMAIN Requests!RefreshEnds(calls, answer) = Requests!Everyone BY DEF Requests!RefreshEnds
<1>2. ASSUME NEW d \in Requests!Everyone
      PROVE  /\ Sane(d, Requests!RefreshEnds(calls, answer)[d])
             /\ Requests!RefreshEnds(calls, answer)[d].req = "runs" => Requests!RefreshEnds(calls, answer)[d] = calls[d]
  <2>1. CASE calls[d].at # "refreshes" BY <2>1 DEF Requests!RefreshEnds
  <2>2. CASE calls[d].at = "refreshes" /\ answer = "ok"
    <3>1. Requests!RefreshEnds(calls, answer)[d] = [calls[d] EXCEPT !.at = "resumes"]
      BY <2>2 DEF Requests!RefreshEnds
    <3> QED BY <2>2, <3>1 DEF Sane, CallType, Underway, Unreached
  <2>3. CASE calls[d].at = "refreshes" /\ answer # "ok"
    <3>1. Requests!RefreshEnds(calls, answer)[d] = Requests!Ended(answer) BY <2>3 DEF Requests!RefreshEnds
    <3> QED BY <3>1, NoCallIsSane
  <2> QED BY <2>1, <2>2, <2>3
<1> QED BY <1>1, <1>2

AnswersToCalls == {"ok", "error", "denied", "busy", "expired", "password", "lost"}

\* The fetch of a call, and the point of the server its request is at.
LEMMA SentSane ==
  ASSUME ServerTypes, NEW c \in Calls, Sane(c, call[c]), call[c].at = "resumes"
  PROVE  Sane(c, [Requests!Sent(c, page) EXCEPT !.retried = TRUE])
BY DEF ServerTypes, Sane, CallType, Underway, Unreached, Requests!Sent

LEMMA AnsweredSane ==
  ASSUME ServerTypes, NEW c \in Requests!Everyone, Sane(c, call[c]), call[c].req \in {"wire", "runs", "joins"},
         NEW answer \in AnswersToCalls, Requests!Expired(answer) => ~call[c].reached
  PROVE  /\ Sane(c, Requests!Answered(c, answer))
         /\ Requests!Answered(c, answer).req \in {"none", "answered"}
<1>1. CASE call[c].at = "ended" BY <1>1, NoCallIsSane DEF Requests!Answered
<1>2. CASE call[c].at # "ended"
  <2> DEFINE r == Requests!Answered(c, answer)
  <2>1. PICK life \in Nat : r = [call[c] EXCEPT !.req = "answered", !.cookie = 0, !.token = 0,
                                               !.answer = answer, !.life = life]
    BY <1>2 DEF Requests!Answered, Requests!Served, ServerTypes, Sane, CallType
  <2> HIDE DEF r
  <2>2. call[c] \in CallType BY DEF Sane
  <2>3. /\ r.at = call[c].at /\ r.req = "answered" /\ r.route = call[c].route /\ r.id = call[c].id
        /\ r.answer = answer /\ r.reached = call[c].reached
    BY <2>1, <2>2 DEF CallType
  <2>4. r \in CallType BY <2>1, <2>2 DEF CallType, AnswersToCalls
  <2>5. answer # "none" BY DEF AnswersToCalls
  <2>6. Sane(c, r) BY <2>3, <2>4, <2>5 DEF Sane, Underway, Unreached
  <2> QED BY <2>3, <2>6 DEF r
<1> QED BY <1>1, <1>2

LEMMA ServedSane ==
  ASSUME NEW c \in Requests!Everyone, Sane(c, call[c]), call[c].req = "wire", NEW place \in {"runs", "joins"}
  PROVE  Sane(c, [Requests!Served(c, place) EXCEPT !.reached = TRUE])
BY DEF Requests!Served, Sane, CallType, Underway, Unreached

\* The page: calls start and end, wait for the refresh and go out again.
LEMMA CallsOfThePage ==
  ASSUME RequestConstants, RequestsInvariant,
         \/ \E c \in Calls : (\E r \in Used[c], id \in Ids : Requests!Start(c, r, id)) \/ Requests!Resume(c)
         \/ Requests!Load \/ Requests!Login
  PROVE  RequestsInvariant'
<1>1. ServerTypes /\ CallsAreSane BY DEF RequestsInvariant
<1>2. UNCHANGED <<server, results, times>> BY DEF Requests!Start, Requests!Resume, Requests!Load, Requests!Login
<1>3. ServerTypes' BY <1>1, <1>2 DEF ServerTypes, Requests!Start, Requests!Resume, Requests!Load, Requests!Login
<1>4. CASE Requests!Login BY <1>1, <1>2, <1>3, <1>4, ActionsGoOn DEF Requests!Login, CallsAreSane
<1>5. ASSUME NEW c \in Requests!Everyone, NEW r, Sane(c, r), r.req # "runs", call' = [call EXCEPT ![c] = r]
      PROVE  RequestsInvariant'
  <2>1. CallsAreSane' BY <1>5, OneCallMoves
  <2>2. \A d \in Calls : call'[d].req = "runs" => call'[d] = call[d]
    BY <1>1, <1>5 DEF CallsAreSane, Requests!Everyone
  <2> QED BY <1>2, <1>3, <2>1, <2>2, ActionsGoOn
<1>6. ASSUME NEW c \in Calls, NEW route \in Used[c], NEW id \in Ids, Requests!Start(c, route, id)
      PROVE  RequestsInvariant'
  <2> DEFINE r == [Requests!NoCall EXCEPT
        !.route = route, !.id = id, !.since = server.life, !.at = "waits", !.req = "wire",
        !.cookie = page.cookie, !.token = page.token]
  <2>1. call' = [call EXCEPT ![c] = r] BY <1>6 DEF Requests!Start
  <2>2. r.req = "wire" /\ r.at = "waits" /\ r.route = route /\ r.id = id /\ r.reached = FALSE
    BY DEF Requests!NoCall
  <2>3. r \in CallType
    <3>1. route \in Routes BY DEF Routes
    <3>2. server.life \in Nat /\ page.cookie \in Nat /\ page.token \in Nat BY <1>1 DEF ServerTypes
    <3> QED BY <3>1, <3>2 DEF CallType, Requests!NoCall
  <2> HIDE DEF r
  <2>4. Sane(c, r) BY <2>2, <2>3, <1>6 DEF Sane, RequestConstants, Unreached
  <2> QED BY <2>1, <2>2, <2>4, <1>5 DEF Requests!Everyone
<1>7. ASSUME NEW c \in Calls, Requests!Resume(c) PROVE RequestsInvariant'
  <2> DEFINE r == [Requests!Sent(c, page) EXCEPT !.retried = TRUE]
  <2>1. call' = [call EXCEPT ![c] = r] /\ c \in Requests!Everyone BY <1>7 DEF Requests!Resume, Requests!Everyone
  <2>2. Sane(c, r) BY <1>1, <1>7, <2>1, SentSane DEF Requests!Resume, CallsAreSane
  <2>3. r.req = "wire" BY <1>1, <2>1 DEF Requests!Sent, CallsAreSane, Sane, CallType
  <2> QED BY <2>1, <2>2, <2>3, <1>5
<1>8. CASE Requests!Load
  <2> DEFINE r == [Requests!NoCall EXCEPT
        !.at = "waits", !.req = "wire", !.cookie = page.cookie, !.token = page.token]
  <2>1. call' = [call EXCEPT !["load"] = r] BY <1>8 DEF Requests!Load
  <2>2. r \in CallType /\ r.req = "wire" /\ r.route = "bootstrap" /\ ~r.reached /\ r.at = "waits"
    BY <1>1 DEF ServerTypes, CallType, Routes, Requests!NoCall
  <2>3. "load" \in Requests!Everyone /\ "load" \notin Calls
    BY DEF RequestConstants, Requests!Everyone, Requests!Bootstraps
  <2> HIDE DEF r
  <2>4. Sane("load", r) BY <2>2, <2>3 DEF Sane
  <2> QED BY <2>1, <2>2, <2>3, <2>4, <1>5
<1> QED BY <1>4, <1>6, <1>7, <1>8

LEMMA CallsHear ==
  ASSUME RequestConstants, RequestsInvariant, NEW c \in Requests!Everyone, Requests!Hear(c)
  PROVE  RequestsInvariant'
<1>1. ServerTypes /\ CallsAreSane /\ Sane(c, call[c]) BY DEF RequestsInvariant, CallsAreSane
<1>2. UNCHANGED <<server, results, times>>
  BY DEF Requests!Hear, Requests!Receive, Requests!AwaitRefresh, Requests!Lose
<1>3. ServerTypes'
  <2>1. call[c].life \in Nat BY <1>1 DEF Sane, CallType
  <2> QED
    BY <1>1, <1>2, <2>1 DEF ServerTypes, Requests!Hear, Requests!Receive, Requests!AwaitRefresh, Requests!Lose
<1>4. ASSUME NEW calls, NEW answer \in AnswersToCalls, DOMAIN calls = Requests!Everyone,
             \A d \in Requests!Everyone : Sane(d, calls[d]),
             \A d \in Calls : calls[d].req = "runs" =>
                call[d].req = "runs" /\ calls[d].route = call[d].route /\ calls[d].id = call[d].id,
             call' = IF c = "refresh" THEN Requests!RefreshEnds(calls, answer) ELSE calls
      PROVE  RequestsInvariant'
  <2>1. DOMAIN call' = Requests!Everyone /\ \A d \in Requests!Everyone : Sane(d, call'[d])
    BY <1>4, RefreshEndsSane DEF AnswersToCalls
  <2>2. \A d \in Calls : call'[d].req = "runs" => call'[d] = calls[d]
    BY <1>4, RefreshEndsSane DEF AnswersToCalls, Requests!Everyone
  <2>3. CallsAreSane' BY <2>1 DEF CallsAreSane, Requests!Everyone, Sane
  <2> QED BY <1>2, <1>3, <1>4, <2>2, <2>3, ActionsGoOn
<1>5. ASSUME NEW answer \in AnswersToCalls, Requests!Over(c, answer) PROVE RequestsInvariant'
  <2> DEFINE calls == [call EXCEPT ![c] = Requests!Ended(answer)]
  <2>1. call' = IF c = "refresh" THEN Requests!RefreshEnds(calls, answer) ELSE calls BY <1>5 DEF Requests!Over
  <2>2. DOMAIN calls = Requests!Everyone /\ \A d \in Requests!Everyone : Sane(d, calls[d])
    BY <1>1, NoCallIsSane DEF CallsAreSane, AnswersToCalls
  <2>3. \A d \in Calls : calls[d].req = "runs" =>
              call[d].req = "runs" /\ calls[d].route = call[d].route /\ calls[d].id = call[d].id
    BY <1>1, NoCallIsSane DEF CallsAreSane, AnswersToCalls, Requests!Everyone
  <2> HIDE DEF calls
  <2> QED BY <2>1, <2>2, <2>3, <1>4
<1>6. CASE Requests!Receive(c)
  <2>1. call[c].answer \in AnswersToCalls BY <1>1, <1>6 DEF Requests!Receive, Sane, CallType, AnswersToCalls
  <2> QED BY <1>5, <1>6, <2>1 DEF Requests!Receive
<1>7. CASE Requests!AwaitRefresh(c)
  <2> DEFINE mine == [call[c] EXCEPT !.at = "refreshes", !.req = "none", !.answer = "none"]
             refresh == [Requests!NoCall EXCEPT
                  !.at = "waits", !.req = "wire", !.cookie = page.cookie, !.token = page.token]
  <2>1. /\ c \in Calls /\ call[c].at = "waits" /\ call[c].req = "answered" /\ Requests!Expired(call[c].answer)
        /\ call' = [d \in Requests!Everyone |->
              IF d = c THEN mine ELSE IF d = "refresh" /\ Requests!Free(d) THEN refresh ELSE call[d]]
    BY <1>7 DEF Requests!AwaitRefresh, Requests!MayRefresh
  <2>2. Sane(c, mine) /\ mine.req = "none" BY <2>1, <1>1 DEF Sane, CallType, Underway, Unreached
  <2>3. "refresh" \notin Calls BY DEF RequestConstants, Requests!Bootstraps
  <2>4. refresh \in CallType /\ refresh.at = "waits" /\ refresh.req = "wire" /\ refresh.route = "bootstrap" /\ ~refresh.reached
    BY <1>1 DEF ServerTypes, CallType, Routes, Requests!NoCall
  <2> HIDE DEF mine, refresh
  <2>5. Sane("refresh", refresh) BY <2>3, <2>4 DEF Sane
  <2>6. CallsAreSane' BY <2>1, <2>2, <2>5, <1>1 DEF CallsAreSane, Sane, Requests!Everyone
  <2>7. \A d \in Calls : call'[d].req = "runs" => call'[d] = call[d] BY <2>1, <2>2, <2>3 DEF Requests!Everyone
  <2> QED BY <1>2, <1>3, <2>6, <2>7, ActionsGoOn
<1>8. CASE Requests!Lose(c)
  <2> DEFINE ending == [call EXCEPT ![c].at = "ended", ![c].answer = "lost"]
             gone == [call EXCEPT ![c] = Requests!Ended("lost")]
  <2>1. \E calls \in (IF call[c].req \in {"runs", "joins"} THEN {ending}
                      ELSE IF call[c].req = "wire" THEN {ending, gone} ELSE {gone}) :
            call' = IF c = "refresh" THEN Requests!RefreshEnds(calls, "lost") ELSE calls
    BY <1>8 DEF Requests!Lose
  <2>2. \A d \in Requests!Everyone : Sane(d, gone[d]) /\ (gone[d].req = "runs" => gone[d] = call[d])
    BY <1>1, NoCallIsSane DEF CallsAreSane
  <2>3. ASSUME call[c].req \in {"runs", "joins", "wire"}, NEW d \in Requests!Everyone
        PROVE  Sane(d, ending[d]) /\ ending[d].req = call[d].req /\ ending[d].route = call[d].route /\ ending[d].id = call[d].id
    <3> DEFINE r == [call[c] EXCEPT !.at = "ended", !.answer = "lost"]
    <3>1. ending[d] = IF d = c THEN r ELSE call[d] BY <1>1 DEF CallsAreSane
    <3>2. /\ r.at = "ended" /\ r.req = call[c].req /\ r.route = call[c].route /\ r.id = call[c].id
          /\ r.reached = call[c].reached /\ r \in CallType
      BY <1>1 DEF Sane, CallType
    <3> HIDE DEF r, ending
    <3>3. Sane(c, r) BY <1>1, <2>3, <3>2 DEF Sane, Underway, Unreached
    <3> QED BY <1>1, <3>1, <3>2, <3>3 DEF CallsAreSane
  <2>4. DOMAIN ending = Requests!Everyone /\ DOMAIN gone = Requests!Everyone BY <1>1 DEF CallsAreSane
  <2> HIDE DEF ending, gone
  <2>5. "lost" \in AnswersToCalls /\ Calls \subseteq Requests!Everyone BY DEF AnswersToCalls, Requests!Everyone
  <2>6. CASE call' = IF c = "refresh" THEN Requests!RefreshEnds(gone, "lost") ELSE gone
    BY <2>2, <2>4, <2>5, <2>6, <1>4
  <2>7. CASE /\ call[c].req \in {"runs", "joins", "wire"}
             /\ call' = IF c = "refresh" THEN Requests!RefreshEnds(ending, "lost") ELSE ending
    BY <2>3, <2>4, <2>5, <2>7, <1>4
  <2> QED BY <2>1, <2>6, <2>7
<1> QED BY <1>6, <1>7, <1>8 DEF Requests!Hear

LEMMA RefusalType ==
  \A c : Requests!Refusal(c) \in {"none", "password", "expired", "busy"}
BY DEF Requests!Refusal

\* The server: a request is refused, answered by a read, performed, or joined to the
\* action of its id.
LEMMA CallsServed ==
  ASSUME RequestConstants, RequestsInvariant, NEW c \in Requests!Everyone, Requests!Serve(c)
  PROVE  RequestsInvariant'
<1>1. ServerTypes /\ CallsAreSane /\ OneActionEach /\ Sane(c, call[c]) /\ call[c].req = "wire"
  BY DEF RequestsInvariant, CallsAreSane, Requests!Serve, Requests!Refuse, Requests!Read, Requests!Perform,
    Requests!Join
<1>2. UNCHANGED <<server, times, page>>
  BY DEF Requests!Serve, Requests!Refuse, Requests!Read, Requests!Perform, Requests!Join
<1>3. ServerTypes' /\ ~call[c].reached BY <1>1, <1>2 DEF ServerTypes, Sane, Unreached
<1>4. ASSUME NEW r, Sane(c, r), r.req # "runs", call' = [call EXCEPT ![c] = r], results' = results
      PROVE  RequestsInvariant'
  <2>1. CallsAreSane' BY <1>4, OneCallMoves
  <2>2. \A d \in Calls : call'[d].req = "runs" => call'[d] = call[d]
    BY <1>1, <1>4 DEF CallsAreSane, Requests!Everyone
  <2> QED BY <1>2, <1>3, <1>4, <2>1, <2>2, ActionsGoOn
<1>5. ASSUME NEW answer \in AnswersToCalls
      PROVE  Sane(c, Requests!Answered(c, answer)) /\ Requests!Answered(c, answer).req # "runs"
  BY <1>1, <1>3, AnsweredSane
<1>6. CASE Requests!Refuse(c)
  <2>1. Requests!Refusal(c) \in AnswersToCalls BY <1>6, RefusalType DEF Requests!Refuse, AnswersToCalls
  <2> QED BY <1>4, <1>5, <1>6, <2>1 DEF Requests!Refuse
<1>7. CASE Requests!Read(c) BY <1>4, <1>5, <1>7 DEF Requests!Read, AnswersToCalls
<1>8. CASE Requests!Join(c)
  <2>1. CASE results[Requests!Key(c)] = "done"
    <3> DEFINE q == Requests!Answered(c, "ok")
               r == [q EXCEPT !.reached = TRUE]
    <3>1. call' = [call EXCEPT ![c] = r] /\ results' = results BY <1>8, <2>1 DEF Requests!Join
    <3>2. Sane(c, q) /\ (q = Requests!Ended("lost") \/ (q.answer = "ok" /\ q.at = call[c].at)) /\ q.req # "runs"
      <4>1. CASE call[c].at = "ended" BY <4>1, NoCallIsSane DEF Requests!Answered
      <4>2. CASE call[c].at # "ended"
        BY <4>2, <1>1, <1>5 DEF Requests!Answered, Requests!Served, Sane, CallType, AnswersToCalls
      <4> QED BY <4>1, <4>2
    <3>3. /\ r \in CallType /\ r.at = q.at /\ r.req = q.req /\ r.route = q.route /\ r.id = q.id
          /\ r.answer = q.answer
      BY <3>2 DEF Sane, CallType
    <3>4. q.at \notin {"refreshes", "resumes"} /\ q.req # "wire" /\ ~(q.req = "answered" /\ Requests!Expired(q.answer))
      <4>1. call[c].at \notin {"refreshes", "resumes"} BY <1>1 DEF Sane
      <4>2. q.req # "wire" BY <1>1, <1>3, AnsweredSane DEF AnswersToCalls
      <4> QED BY <3>2, <4>1, <4>2 DEF Requests!Ended, Requests!NoCall, Requests!Expired
    <3> HIDE DEF q, r
    <3>5. Sane(c, r) BY <3>2, <3>3, <3>4 DEF Sane, Underway, Unreached
    <3> QED BY <1>4, <3>1, <3>2, <3>3, <3>5
  <2>2. CASE results[Requests!Key(c)] # "done"
    <3> DEFINE r == [Requests!Served(c, "joins") EXCEPT !.reached = TRUE]
    <3>1. call' = [call EXCEPT ![c] = r] /\ results' = results BY <1>8, <2>2 DEF Requests!Join
    <3>2. Sane(c, r) BY <1>1, ServedSane
    <3>3. r.req = "joins" BY <1>1 DEF Requests!Served, Sane, CallType
    <3> QED BY <1>4, <3>1, <3>2, <3>3
  <2> QED BY <2>1, <2>2
<1>9. CASE Requests!Perform(c)
  <2> DEFINE r == [Requests!Served(c, "runs") EXCEPT !.reached = TRUE]
  <2>1. /\ call' = [call EXCEPT ![c] = r] /\ call[c].route \in Requests!Writes /\ ~Requests!Shared(c)
        /\ results' = IF call[c].route \in Requests!Deduplicated
                      THEN [results EXCEPT ![Requests!Key(c)] = "running"] ELSE results
    BY <1>9 DEF Requests!Perform
  <2>2. Sane(c, r) /\ r.req = "runs" /\ r.route = call[c].route /\ r.id = call[c].id
    <3>1. r.req = "runs" /\ r.route = call[c].route /\ r.id = call[c].id
      BY <1>1 DEF Requests!Served, Sane, CallType
    <3> QED BY <3>1, <1>1, ServedSane
  <2>3. CallsAreSane' BY <2>1, <2>2, OneCallMoves
  <2>4. \A d \in Requests!Everyone : call'[d] = IF d = c THEN r ELSE call[d] BY <1>1, <2>1 DEF CallsAreSane
  <2> HIDE DEF r
  <2>5. c \in Calls
    <3>1. "bootstrap" \notin Requests!Writes
      BY DEF Requests!Writes, Requests!Deduplicated, Requests!PlainWrites, Requests!SystemWrites,
        Requests!ProjectWrites, Requests!SessionWrites, Requests!AnswerWrites
    <3> QED BY <1>1, <2>1, <3>1 DEF Sane, Requests!Everyone
  <2>6. \A d \in Calls : Requests!Key(d)' = Requests!Key(d) /\ (Runs(d)' => d = c \/ Runs(d))
    BY <2>2, <2>4 DEF Requests!Key, Runs, Requests!Everyone
  <2>7. Requests!Keys' = Requests!Keys BY DEF Requests!Keys
  <2>8. CASE call[c].route \in Requests!Deduplicated
    <3> DEFINE k == Requests!Key(c)
    <3>1. k \in Requests!Keys BY <1>1, <2>5, <2>8 DEF Requests!Key, Requests!Keys, Sane, Underway
    <3>2. results[k] = "none" /\ results' = [results EXCEPT ![k] = "running"] BY <2>1, <2>8 DEF Requests!Shared
    <3>3. \A d \in Calls : Runs(d) => Requests!Key(d) # k BY <1>1, <3>2 DEF OneActionEach
    <3>4. results' \in [Requests!Keys -> {"none", "running", "done"}] BY <1>1, <3>2 DEF OneActionEach
    <3>5. \A j \in Requests!Keys : results'[j] = IF j = k THEN "running" ELSE results[j]
      BY <1>1, <3>2 DEF OneActionEach
    <3>6. \A d \in Calls : Runs(d)' => results'[Requests!Key(d)'] = "running"
      <4>1. \A d \in Calls : Runs(d) => Requests!Key(d) \in Requests!Keys
        BY <1>1 DEF Runs, CallsAreSane, Sane, Underway, Requests!Key, Requests!Keys, Requests!Everyone
      <4> QED BY <4>1, <1>1, <2>6, <3>1, <3>5 DEF OneActionEach
    <3>7. \A j \in Requests!Keys : results'[j] = "done" <=> times[j] = 1 BY <1>1, <3>2, <3>5 DEF OneActionEach
    <3> HIDE DEF k
    <3>8. \A d, e \in Calls : Runs(d)' /\ Runs(e)' /\ Requests!Key(d)' = Requests!Key(e)' => d = e
      BY <1>1, <2>6, <3>3 DEF OneActionEach, k
    <3>9. OneActionEach' BY <1>1, <1>2, <2>7, <3>4, <3>6, <3>7, <3>8 DEF OneActionEach
    <3> QED BY <1>3, <2>3, <3>9 DEF RequestsInvariant
  <2>9. CASE call[c].route \notin Requests!Deduplicated
    <3>1. \A d \in Calls : Runs(d)' => Runs(d) BY <2>2, <2>4, <2>6, <2>9 DEF Runs, Requests!Everyone
    <3>2. OneActionEach' BY <1>1, <1>2, <2>1, <2>6, <2>7, <2>9, <3>1 DEF OneActionEach
    <3> QED BY <1>3, <2>3, <3>2 DEF RequestsInvariant
  <2> QED BY <2>8, <2>9
<1> QED BY <1>6, <1>7, <1>8, <1>9 DEF Requests!Serve

\* An action ends: its caller and who joined it are answered, and its promise stays
\* only for a success.
LEMMA ActionEnds ==
  ASSUME RequestConstants, RequestsInvariant, NEW c \in Calls, NEW outcome \in {"ok", "error", "denied"},
         Requests!Finish(c, outcome)
  PROVE  RequestsInvariant'
<1> DEFINE k == Requests!Key(c)
           Told(d) == d = c \/ (call[c].route \in Requests!Deduplicated /\ d \in Calls
                                /\ call[d].req = "joins" /\ Requests!Key(d) = k)
<1>1. ServerTypes /\ CallsAreSane /\ OneActionEach /\ Calls \subseteq Requests!Everyone
  BY DEF RequestsInvariant, Requests!Everyone
<1>2. /\ call[c].req = "runs" /\ UNCHANGED <<server, page>>
      /\ call' = [d \in Requests!Everyone |-> IF Told(d) THEN Requests!Answered(d, outcome) ELSE call[d]]
  BY DEF Requests!Finish
<1>3. ServerTypes' BY <1>1, <1>2 DEF ServerTypes
<1>4. ASSUME NEW d \in Requests!Everyone, Told(d)
      PROVE  Sane(d, call'[d]) /\ call'[d].req \in {"none", "answered"}
  <2>1. call[d].req \in {"runs", "joins"} /\ Sane(d, call[d]) /\ outcome \in AnswersToCalls
    BY <1>1, <1>2, <1>4 DEF CallsAreSane, AnswersToCalls
  <2>2. ~Requests!Expired(outcome) BY DEF Requests!Expired
  <2>3. call'[d] = Requests!Answered(d, outcome) BY <1>2, <1>4
  <2> QED BY <1>1, <2>1, <2>2, <2>3, AnsweredSane
<1>5. \A d \in Requests!Everyone : ~Told(d) => call'[d] = call[d] BY <1>2
<1>6. CallsAreSane'
  <2>1. \A d \in Requests!Everyone : Sane(d, call'[d]) BY <1>1, <1>4, <1>5 DEF CallsAreSane
  <2>2. DOMAIN call' = Requests!Everyone BY <1>2
  <2> QED BY <2>1, <2>2 DEF CallsAreSane, Sane, Requests!Everyone
<1>7. \A d \in Calls : /\ Runs(d)' => Runs(d) /\ d # c
                       /\ Runs(d)' => Requests!Key(d)' = Requests!Key(d)
  BY <1>1, <1>4, <1>5 DEF Runs, Requests!Key
<1>8. Requests!Keys' = Requests!Keys BY DEF Requests!Keys
<1>9. CASE call[c].route \in Requests!Deduplicated
  <2>1. /\ results' = [results EXCEPT ![k] = Requests!After(outcome)]
        /\ times' = IF outcome = "ok" THEN [times EXCEPT ![k] = @ + 1] ELSE times
    BY <1>9 DEF Requests!Finish
  <2>2. k \in Requests!Keys BY <1>1, <1>2, <1>9 DEF CallsAreSane, Sane, Underway, Requests!Key, Requests!Keys
  <2>3. results[k] = "running" /\ times[k] = 0 BY <1>1, <1>2, <1>9, <2>2 DEF OneActionEach, Runs
  <2>4. \A d \in Calls : Runs(d) /\ Requests!Key(d) = k => d = c BY <1>1, <1>2, <1>9 DEF OneActionEach, Runs
  <2>5. \A d \in Calls : Runs(d) => Requests!Key(d) \in Requests!Keys
    BY <1>1 DEF Runs, CallsAreSane, Sane, Underway, Requests!Key, Requests!Keys
  <2> HIDE DEF k
  <2>6. \A j \in Requests!Keys : /\ results'[j] = IF j = k THEN Requests!After(outcome) ELSE results[j]
                                 /\ times'[j] = IF j = k /\ outcome = "ok" THEN 1 ELSE times[j]
    BY <1>1, <2>1, <2>3 DEF OneActionEach
  <2>7. results' \in [Requests!Keys -> {"none", "running", "done"}] /\ times' \in [Requests!Keys -> {0, 1}]
    BY <1>1, <2>1, <2>2, <2>3 DEF OneActionEach, Requests!After
  <2>8. \A j \in Requests!Keys : results'[j] = "done" <=> times'[j] = 1
    BY <1>1, <2>3, <2>6 DEF OneActionEach, Requests!After
  <2>9. \A d \in Calls : Runs(d)' => results'[Requests!Key(d)'] = "running"
    BY <1>1, <1>7, <2>4, <2>5, <2>6 DEF OneActionEach
  <2>10. \A d, e \in Calls : Runs(d)' /\ Runs(e)' /\ Requests!Key(d)' = Requests!Key(e)' => d = e
    BY <1>1, <1>7 DEF OneActionEach
  <2>11. OneActionEach' BY <1>8, <2>7, <2>8, <2>9, <2>10 DEF OneActionEach
  <2> QED BY <1>3, <1>6, <2>11 DEF RequestsInvariant
<1>10. CASE call[c].route \notin Requests!Deduplicated
  <2>1. UNCHANGED <<results, times>> BY <1>10 DEF Requests!Finish
  <2>2. OneActionEach' BY <1>1, <1>7, <1>8, <2>1 DEF OneActionEach
  <2> QED BY <1>3, <1>6, <2>2 DEF RequestsInvariant
<1> QED BY <1>9, <1>10

LEMMA ResultForgotten ==
  ASSUME RequestsInvariant, NEW k \in Requests!Keys, Requests!Forget(k)
  PROVE  RequestsInvariant'
<1>1. ServerTypes /\ CallsAreSane /\ OneActionEach BY DEF RequestsInvariant
<1>2. /\ results[k] = "done" /\ UNCHANGED <<server, page, call>>
      /\ results' = [results EXCEPT ![k] = "none"] /\ times' = [times EXCEPT ![k] = 0]
  BY DEF Requests!Forget
<1>3. ServerTypes' /\ CallsAreSane' BY <1>1, <1>2 DEF ServerTypes, CallsAreSane
<1>4. \A d \in Calls : Runs(d)' = Runs(d) /\ Requests!Key(d)' = Requests!Key(d) BY <1>2 DEF Runs, Requests!Key
<1>5. \A d \in Calls : Runs(d) => Requests!Key(d) # k /\ Requests!Key(d) \in Requests!Keys
  BY <1>1, <1>2 DEF OneActionEach, Runs, CallsAreSane, Sane, Underway, Requests!Key, Requests!Keys,
    Requests!Everyone
<1>6. results' \in [Requests!Keys -> {"none", "running", "done"}] /\ times' \in [Requests!Keys -> {0, 1}]
  BY <1>1, <1>2 DEF OneActionEach
<1>7. \A j \in Requests!Keys : /\ results'[j] = IF j = k THEN "none" ELSE results[j]
                               /\ times'[j] = IF j = k THEN 0 ELSE times[j]
  BY <1>1, <1>2 DEF OneActionEach
<1>8. Requests!Keys' = Requests!Keys BY DEF Requests!Keys
<1>9. OneActionEach' BY <1>1, <1>4, <1>5, <1>6, <1>7, <1>8 DEF OneActionEach
<1> QED BY <1>3, <1>9 DEF RequestsInvariant

LEMMA ServerStopsAndBoots ==
  ASSUME RequestConstants, RequestsInvariant,
         (\E why \in Bars \cup {"no"} : Requests!Bar(why)) \/ Requests!Stop \/ Requests!Boot
  PROVE  RequestsInvariant'
<1>1. ServerTypes /\ CallsAreSane /\ OneActionEach BY DEF RequestsInvariant
<1>2. ServerTypes'
  <2>1. /\ page' = page
        /\ \/ \E why \in Bars \cup {"no"} : server' = [server EXCEPT !.barred = why]
           \/ server' = [server EXCEPT !.up = FALSE]
           \/ server' = [up |-> TRUE, life |-> server.life + 1, barred |-> "no"]
    BY DEF Requests!Bar, Requests!Stop, Requests!Boot
  <2>2. ASSUME NEW why \in Bars \cup {"no"}, server' = [server EXCEPT !.barred = why] PROVE ServerTypes'
    BY <1>1, <2>1, <2>2 DEF ServerTypes
  <2>3. CASE server' = [server EXCEPT !.up = FALSE] BY <1>1, <2>1, <2>3 DEF ServerTypes
  <2>4. CASE server' = [up |-> TRUE, life |-> server.life + 1, barred |-> "no"]
    BY <1>1, <2>1, <2>4 DEF ServerTypes
  <2> QED BY <2>1, <2>2, <2>3, <2>4
<1>3. CASE (\E why \in Bars \cup {"no"} : Requests!Bar(why)) \/ Requests!Boot
  <2>1. UNCHANGED <<results, times, call>> BY <1>3 DEF Requests!Bar, Requests!Boot
  <2>2. CallsAreSane' BY <1>1, <2>1 DEF CallsAreSane
  <2> QED BY <1>2, <2>1, <2>2, ActionsGoOn
<1>4. CASE Requests!Stop
  <2> DEFINE cut == [c \in Requests!Everyone |->
              IF call[c].at = "waits" \/ call[c].req # "none" THEN Requests!Ended("lost") ELSE call[c]]
  <2>1. /\ results' = [k \in Requests!Keys |-> "none"] /\ times' = [k \in Requests!Keys |-> 0]
        /\ call' = IF call["refresh"].at = "waits" THEN Requests!RefreshEnds(cut, "lost") ELSE cut
    BY <1>4 DEF Requests!Stop
  <2>2. DOMAIN cut = Requests!Everyone /\ \A c \in Requests!Everyone : Sane(c, cut[c]) /\ cut[c].req # "runs"
    BY <1>1, NoCallIsSane DEF CallsAreSane
  <2> HIDE DEF cut
  <2>3. /\ DOMAIN call' = Requests!Everyone
        /\ \A c \in Requests!Everyone : Sane(c, call'[c]) /\ call'[c].req # "runs"
    BY <2>1, <2>2, RefreshEndsSane
  <2>4. CallsAreSane' BY <2>3 DEF CallsAreSane, Sane, Requests!Everyone
  <2>5. Requests!Keys' = Requests!Keys /\ \A c \in Calls : ~Runs(c)'
    BY <2>3 DEF Requests!Keys, Runs, Requests!Everyone
  <2>6. OneActionEach' BY <2>1, <2>5 DEF OneActionEach
  <2> QED BY <1>2, <2>4, <2>6 DEF RequestsInvariant
<1> QED BY <1>3, <1>4

LEMMA RequestsStep ==
  ASSUME RequestConstants, RequestsInvariant, [Requests!Next]_(Requests!vars)
  PROVE  RequestsInvariant'
<1>1. CASE UNCHANGED Requests!vars
  <2>1. UNCHANGED <<server, results, times, page, call>> BY <1>1 DEF Requests!vars
  <2>2. ServerTypes' /\ CallsAreSane' BY <2>1 DEF RequestsInvariant, ServerTypes, CallsAreSane
  <2> QED BY <2>1, <2>2, ActionsGoOn
<1>2. CASE Requests!Next
  BY <1>2, CallsOfThePage, CallsHear, CallsServed, ActionEnds, ResultForgotten, ServerStopsAndBoots DEF
    Requests!Next
<1> QED BY <1>1, <1>2

LEMMA RequestsStart == ASSUME Requests!Init PROVE RequestsInvariant
<1>1. ServerTypes BY DEF Requests!Init, ServerTypes
<1>2. CallsAreSane /\ \A c \in Calls : ~Runs(c)
  BY NoCallIsSane DEF Requests!Init, CallsAreSane, Requests!Everyone, Runs, Requests!NoCall
<1>3. OneActionEach BY <1>2 DEF Requests!Init, OneActionEach
<1> QED BY <1>1, <1>2, <1>3 DEF RequestsInvariant

LEMMA RequestCounts == \A S : Requests!Cardinality(S) = Cardinality(S)
BY DEF Requests!Cardinality, Cardinality

\* ClientRequests, for every set of calls, ids, routes and bars: until its result is forgotten
\* an action with a request id is carried out once, whatever is lost, refused or sent again,
\* and a call is sent again by itself only if its first request reached no route.
THEOREM RequestsCarriedOutOnce ==
  ASSUME RequestConstants
  PROVE  Requests!Spec => [](Requests!CarriedOutOnce /\ Requests!RetryIsSafe)
<1>1. ASSUME RequestsInvariant, NEW k \in Requests!Keys
      PROVE  /\ times[k] + Requests!Cardinality({c \in Calls : call[c].req = "runs" /\ Requests!Key(c) = k}) <= 1
             /\ results[k] = "done" <=> times[k] = 1
  <2> DEFINE S == {c \in Calls : call[c].req = "runs" /\ Requests!Key(c) = k}
  <2>1. OneActionEach BY <1>1 DEF RequestsInvariant
  <2>2. \A c \in S : Runs(c) BY DEF Runs, Requests!Keys, Requests!Key
  <2>3. CASE S = {}
    <3>1. Requests!Cardinality(S) = 0 BY <2>3, FS_EmptySet, RequestCounts
    <3> HIDE DEF S
    <3> QED BY <2>1, <3>1 DEF OneActionEach, S
  <2>4. CASE S # {}
    <3>1. PICK c \in S : TRUE BY <2>4
    <3>2. S = {c} BY <2>1, <2>2, <3>1 DEF OneActionEach
    <3>3. results[k] = "running" /\ times[k] = 0 BY <2>1, <2>2, <3>1 DEF OneActionEach
    <3>4. Requests!Cardinality(S) = 1 BY <3>2, FS_Singleton, RequestCounts
    <3> HIDE DEF S
    <3> QED BY <3>3, <3>4 DEF S
  <2> QED BY <2>3, <2>4
<1>2. ASSUME RequestsInvariant PROVE Requests!CarriedOutOnce /\ Requests!RetryIsSafe
  <2>1. Requests!CarriedOutOnce BY <1>1, <1>2 DEF Requests!CarriedOutOnce
  <2>2. Requests!RetryIsSafe
    BY <1>2 DEF RequestsInvariant, CallsAreSane, Sane, Unreached, Requests!RetryIsSafe, Requests!Everyone
  <2> QED BY <2>1, <2>2
<1>3. Requests!Init => RequestsInvariant BY RequestsStart
<1>4. RequestsInvariant /\ [Requests!Next]_(Requests!vars) => RequestsInvariant' BY RequestsStep
<1> QED BY <1>2, <1>3, <1>4, PTL DEF Requests!Spec

----
(* Requests of the App Server and their answers (PendingAnswers). *)

CONSTANTS AnswerPages, AnswerKinds, MaxRequests, MaxLost
VARIABLES request, askedFor, card, answerPosts, got, requestCount, answersLost

Answers == INSTANCE PendingAnswers WITH
    Pages <- AnswerPages, Kinds <- AnswerKinds,
    post <- answerPosts, count <- requestCount, lost <- answersLost, pending <- askedFor

\* Who may be answered has no response yet.
RequestTypes ==
  /\ requestCount \in Nat
  /\ request \in [kind : Answers!AllKinds \cup {"none"}, live : BOOLEAN, responses : {0, 1}]
  /\ askedFor \in BOOLEAN /\ (askedFor <=> request.live /\ request.responses = 0)
  /\ request.live => request.kind \in Answers!AllKinds
  /\ request.responses = 0 => got = Answers!Nothing

\* A POST that is under way for the request that is asked now has what was entered
\* into its card, for its kind.
PostsAreOfTheCard ==
  /\ DOMAIN answerPosts = AnswerPages
  /\ \A p \in AnswerPages : answerPosts[p].at \in {"none", "sent", "done", "failed"}
  /\ \A p \in AnswerPages : answerPosts[p].at = "sent" =>
      LET d == answerPosts[p] IN
      /\ d.allow \in BOOLEAN /\ d.entries \in Answers!Entries
      /\ d.of \in Nat /\ d.of <= requestCount
      /\ d.of = requestCount /\ d.allow => d.answers = Answers!Encoded(request.kind, d.entries)

AnswersInvariant == RequestTypes /\ PostsAreOfTheCard /\ Answers!SaysWhatWasMeant

LEMMA FormSaysWhatWasMeant ==
  ASSUME NEW e \in Answers!Entries, ~Answers!Throws("form", TRUE, Answers!Encoded("form", e))
  PROVE  [f \in DOMAIN Answers!Encoded("form", e) |-> Answers!Value(f, Answers!Encoded("form", e)[f])]
          = [f \in Answers!Entered("form", e) |-> e[f]]
<1> DEFINE a == Answers!Encoded("form", e)
<1>1. /\ e.name \in {"empty", "blank", "v"} /\ e.flag \in BOOLEAN
      /\ e.size \in {"empty", "2", "nan"} /\ e.tags \in {<<>>, <<"a", "b">>}
  BY DEF Answers!Entries, Answers!Empty, Answers!Blank
<1>2. /\ Answers!Words(e, "name") = IF e.name = "v" THEN <<e.name>> ELSE <<>>
      /\ Answers!Words(e, "flag") = <<IF e.flag THEN "true" ELSE "false">>
      /\ Answers!Words(e, "size") = IF e.size = "empty" THEN <<>> ELSE <<e.size>>
      /\ Answers!Words(e, "tags") = e.tags
  BY <1>1 DEF Answers!Words, Answers!Empty, Answers!Blank
<1>3. DOMAIN a = {f \in Answers!Fields : Answers!Words(e, f) # <<>>} /\ \A f \in DOMAIN a : a[f] = Answers!Words(e, f)
  BY DEF Answers!Encoded, Answers!AsksFor
<1>4. DOMAIN a = Answers!Entered("form", e)
  <2>1. Answers!Entered("form", e) = {f \in Answers!Fields :
          CASE f = "name" -> e.name = "v" [] f = "flag" -> TRUE [] f = "size" -> e.size # "empty"
            [] f = "tags" -> e.tags # <<>>}
    BY DEF Answers!Entered, Answers!AsksFor, Answers!Empty
  <2>2. ASSUME NEW f \in Answers!Fields
        PROVE  Answers!Words(e, f) # <<>> <=>
          CASE f = "name" -> e.name = "v" [] f = "flag" -> TRUE [] f = "size" -> e.size # "empty"
            [] f = "tags" -> e.tags # <<>>
    <3>1. \A x : <<x>> # <<>> OBVIOUS
    <3> QED BY <3>1, <1>2 DEF Answers!Fields
  <2> QED BY <2>1, <2>2, <1>3
<1>5. ASSUME NEW f \in DOMAIN a PROVE Answers!Value(f, a[f]) = e[f]
  <2>1. f \in Answers!Fields /\ a[f] = Answers!Words(e, f) /\ a[f] # <<>> BY <1>3
  <2>2. CASE f = "name" BY <2>1, <2>2, <1>2 DEF Answers!Value
  <2>3. CASE f = "flag"
    <3>1. a[f] = <<IF e.flag THEN "true" ELSE "false">> BY <2>1, <2>3, <1>2
    <3>2. Answers!Value(f, a[f]) = (a[f][1] = "true") BY <2>3 DEF Answers!Value, Answers!Yes
    <3> QED BY <3>1, <3>2, <2>3, <1>1
  <2>4. CASE f = "size" BY <2>1, <2>4, <1>2 DEF Answers!Value
  <2>5. CASE f = "tags" BY <2>1, <2>5, <1>2 DEF Answers!Value
  <2> QED BY <2>1, <2>2, <2>3, <2>4, <2>5 DEF Answers!Fields
<1> QED BY <1>4, <1>5

LEMMA InputSaysWhatWasMeant ==
  ASSUME NEW e \in Answers!Entries
  PROVE  Answers!Encoded("input", e) = [f \in Answers!Entered("input", e) |-> <<e[f]>>]
<1>1. e.name \in {"empty", "blank", "v"} BY DEF Answers!Entries, Answers!Empty, Answers!Blank
<1>2. Answers!Words(e, "name") = IF e.name = "v" THEN <<e.name>> ELSE <<>>
  BY <1>1 DEF Answers!Words, Answers!Empty, Answers!Blank
<1>3. <<e.name>> # <<>> OBVIOUS
<1>4. Answers!Entered("input", e) = {f \in {"name"} : e.name = "v"} BY DEF Answers!Entered, Answers!AsksFor
<1>5. {g \in Answers!AsksFor("input") : Answers!Words(e, g) # <<>>} = {f \in {"name"} : e.name = "v"}
  <2>1. Answers!AsksFor("input") = {"name"} BY DEF Answers!AsksFor
  <2>2. Answers!Words(e, "name") # <<>> <=> e.name = "v" BY <1>2, <1>3
  <2> QED BY <2>1, <2>2
<1>6. \A f \in {g \in {"name"} : e.name = "v"} : Answers!Words(e, f) = <<e[f]>> BY <1>2
<1> QED BY <1>4, <1>5, <1>6 DEF Answers!Encoded

LEMMA ResponseIsMeant ==
  ASSUME NEW kind \in Answers!AllKinds, NEW allow \in BOOLEAN, NEW e \in Answers!Entries, NEW answers,
         allow => answers = Answers!Encoded(kind, e), ~Answers!Throws(kind, allow, answers)
  PROVE  Answers!Response(kind, allow, answers) = Answers!Meant(kind, allow, e)
<1>1. CASE kind = "form"
  <2>1. CASE allow BY <1>1, <2>1, FormSaysWhatWasMeant DEF Answers!Response, Answers!Meant
  <2>2. CASE ~allow BY <1>1, <2>2 DEF Answers!Response, Answers!Meant
  <2> QED BY <2>1, <2>2
<1>2. CASE kind = "input"
  <2>1. CASE allow BY <1>2, <2>1, InputSaysWhatWasMeant DEF Answers!Response, Answers!Meant
  <2>2. CASE ~allow BY <1>2, <2>2 DEF Answers!Response, Answers!Meant
  <2> QED BY <2>1, <2>2
<1>3. CASE kind \notin {"form", "input"} BY <1>3 DEF Answers!Response, Answers!Meant, Answers!AllKinds
<1> QED BY <1>1, <1>2, <1>3

LEMMA AnswersStep ==
  ASSUME AnswerKinds \subseteq Answers!AllKinds, AnswersInvariant, [Answers!Next]_(Answers!vars)
  PROVE  AnswersInvariant'
<1>0. RequestTypes /\ PostsAreOfTheCard /\ got.content = got.meant
  BY DEF AnswersInvariant, Answers!SaysWhatWasMeant
<1>1. ASSUME NEW kind \in AnswerKinds, Answers!Ask(kind) PROVE AnswersInvariant'
  <2>1. /\ requestCount' = requestCount + 1 /\ requestCount \in Nat
        /\ request' = [kind |-> kind, live |-> TRUE, responses |-> 0]
        /\ askedFor' = TRUE /\ got' = Answers!Nothing /\ answerPosts' = answerPosts
    BY <1>1, <1>0 DEF Answers!Ask, RequestTypes
  <2>2. RequestTypes' BY <2>1 DEF RequestTypes
  <2>3. PostsAreOfTheCard' BY <2>1, <1>0 DEF PostsAreOfTheCard
  <2>4. got'.content = got'.meant BY <2>1 DEF Answers!Nothing
  <2> QED BY <2>2, <2>3, <2>4 DEF AnswersInvariant, Answers!SaysWhatWasMeant
<1>2. CASE Answers!Resolve
  <2>1. /\ request' = [request EXCEPT !.live = FALSE] /\ askedFor' = FALSE
        /\ UNCHANGED <<answerPosts, got, requestCount>>
    BY <1>2 DEF Answers!Resolve
  <2>2. RequestTypes' /\ request'.kind = request.kind BY <2>1, <1>0 DEF RequestTypes
  <2>3. PostsAreOfTheCard' BY <2>1, <2>2, <1>0 DEF PostsAreOfTheCard
  <2> QED BY <2>1, <2>2, <2>3, <1>0 DEF AnswersInvariant, Answers!SaysWhatWasMeant
<1>3. CASE (\E p \in AnswerPages : Answers!Shown(p) \/ Answers!Hidden(p)) \/ UNCHANGED Answers!vars
  <2>1. UNCHANGED <<request, askedFor, answerPosts, got, requestCount>>
    BY <1>3 DEF Answers!Shown, Answers!Hidden, Answers!vars
  <2> QED BY <2>1, <1>0 DEF AnswersInvariant, RequestTypes, PostsAreOfTheCard, Answers!SaysWhatWasMeant
<1>4. ASSUME NEW p \in AnswerPages, NEW allow \in BOOLEAN, NEW e \in Answers!Entries, Answers!Submit(p, allow, e)
      PROVE  AnswersInvariant'
  <2>1. /\ UNCHANGED <<request, askedFor, got, requestCount>> /\ requestCount \in Nat
        /\ answerPosts' = [answerPosts EXCEPT ![p] =
              [at |-> "sent", allow |-> allow, entries |-> e, of |-> requestCount,
               answers |-> IF allow THEN Answers!Encoded(request.kind, e) ELSE <<>>]]
    BY <1>4, <1>0 DEF Answers!Submit, RequestTypes
  <2>2. PostsAreOfTheCard' BY <2>1, <1>0 DEF PostsAreOfTheCard
  <2> QED BY <2>1, <2>2, <1>0 DEF AnswersInvariant, RequestTypes, Answers!SaysWhatWasMeant
<1>5. ASSUME NEW p \in AnswerPages, Answers!Serve(p) PROVE AnswersInvariant'
  <2> DEFINE d == answerPosts[p]
             throws == Answers!Throws(request.kind, d.allow, d.answers)
  <2>1. /\ d.at = "sent" /\ requestCount' = requestCount
        /\ \E to \in {"done", "failed"} : answerPosts' = [answerPosts EXCEPT ![p].at = to]
    BY <1>5 DEF Answers!Serve
  <2>2. CASE ~askedFor \/ throws
    <3>1. UNCHANGED <<request, got>> /\ askedFor' = askedFor
      BY <1>5, <2>2, <1>0 DEF Answers!Serve, Answers!Found, Answers!Forgotten, RequestTypes
    <3>2. PostsAreOfTheCard' BY <2>1, <3>1, <1>0 DEF PostsAreOfTheCard
    <3> QED BY <3>1, <3>2, <2>1, <1>0 DEF AnswersInvariant, RequestTypes, Answers!SaysWhatWasMeant
  <2>3. CASE askedFor /\ ~throws
    <3>1. /\ askedFor' = FALSE /\ request' = [request EXCEPT !.responses = @ + 1]
          /\ got' = [content |-> Answers!Response(request.kind, d.allow, d.answers),
                     meant |-> IF d.of = requestCount THEN Answers!Meant(request.kind, d.allow, d.entries)
                               ELSE Answers!Response(request.kind, d.allow, d.answers)]
      BY <1>5, <2>3 DEF Answers!Serve, Answers!Found, Answers!Forgotten
    <3>2. RequestTypes' /\ request'.kind = request.kind /\ request.kind \in Answers!AllKinds
      <4>1. request.live = TRUE /\ request.responses = 0 /\ request.kind \in Answers!AllKinds
        BY <2>3, <1>0 DEF RequestTypes
      <4>2. request'.responses = 1 /\ request'.live = request.live /\ request'.kind = request.kind
        BY <3>1, <4>1, <1>0 DEF RequestTypes
      <4>3. request' \in [kind : Answers!AllKinds \cup {"none"}, live : BOOLEAN, responses : {0, 1}]
        BY <3>1, <4>1, <1>0 DEF RequestTypes
      <4>4. askedFor' \in BOOLEAN /\ ~askedFor' /\ requestCount' \in Nat BY <3>1, <2>1, <1>0 DEF RequestTypes
      <4> QED BY <4>1, <4>2, <4>3, <4>4 DEF RequestTypes
    <3>3. PostsAreOfTheCard' BY <2>1, <3>2, <1>0 DEF PostsAreOfTheCard
    <3>4. d.of = requestCount => Answers!Response(request.kind, d.allow, d.answers)
                                    = Answers!Meant(request.kind, d.allow, d.entries)
      BY <2>1, <2>3, <3>2, <1>0, ResponseIsMeant DEF PostsAreOfTheCard
    <3> QED BY <3>1, <3>2, <3>3, <3>4 DEF AnswersInvariant, Answers!SaysWhatWasMeant
  <2> QED BY <2>2, <2>3
<1>6. ASSUME NEW p \in AnswerPages, Answers!Answered(p) PROVE AnswersInvariant'
  <2>1. UNCHANGED <<request, askedFor, got, requestCount>> /\ answerPosts' = [answerPosts EXCEPT ![p] = Answers!NoPost]
    BY <1>6 DEF Answers!Answered
  <2>2. PostsAreOfTheCard' BY <2>1, <1>0 DEF PostsAreOfTheCard, Answers!NoPost
  <2> QED BY <2>1, <2>2, <1>0 DEF AnswersInvariant, RequestTypes, Answers!SaysWhatWasMeant
<1> QED BY <1>1, <1>2, <1>3, <1>4, <1>5, <1>6 DEF Answers!Next

\* PendingAnswers, for every number of tabs, requests and lost answers: the App Server
\* gets one response to a request at most, one that has none can be answered, and a
\* response says what its author entered into the card of that request.
THEOREM AnswersAreTrue ==
  ASSUME AnswerKinds \subseteq Answers!AllKinds
  PROVE  Answers!Spec => [](Answers!AnsweredOnce /\ Answers!StaysAnswerable /\ Answers!SaysWhatWasMeant)
<1>1. Answers!Init => AnswersInvariant
  <2> SUFFICES ASSUME Answers!Init PROVE AnswersInvariant OBVIOUS
  <2>1. RequestTypes BY DEF Answers!Init, RequestTypes, Answers!NoRequest
  <2>2. PostsAreOfTheCard BY DEF Answers!Init, PostsAreOfTheCard, Answers!NoPost
  <2>3. got.content = got.meant BY DEF Answers!Init, Answers!Nothing
  <2> QED BY <2>1, <2>2, <2>3 DEF AnswersInvariant, Answers!SaysWhatWasMeant
<1>2. AnswersInvariant /\ [Answers!Next]_(Answers!vars) => AnswersInvariant' BY AnswersStep
<1>3. AnswersInvariant => Answers!AnsweredOnce /\ Answers!StaysAnswerable /\ Answers!SaysWhatWasMeant
  BY DEF AnswersInvariant, RequestTypes, Answers!AnsweredOnce, Answers!StaysAnswerable
<1> QED BY <1>1, <1>2, <1>3, PTL DEF Answers!Spec

----
(* The commands of an update (CommandRuns). *)

CONSTANT Descendants
VARIABLES processes, deaf, holders, signalled, code, reading, limit, timedOut, outcome

Commands == INSTANCE CommandRuns WITH up <- processes, timer <- limit, result <- outcome

\* Who holds a pipe runs; a result leaves no holder that is not being killed, and
\* nobody can hand a pipe on then.
CommandInvariant ==
  /\ signalled \in [Commands!Signals -> SUBSET processes] /\ holders \subseteq processes
  /\ outcome \in {"none", "resolved", "failed", "timedOut"} /\ timedOut \in BOOLEAN
  /\ (outcome # "none" => limit = "none") /\ (limit = "limit" => ~timedOut) /\ (limit = "grace" => timedOut)
  /\ (~reading => outcome # "none")
  /\ (timedOut => outcome \in {"none", "timedOut"})
  /\ (~timedOut => \A s \in Commands!Signals : signalled[s] = {})
  /\ (outcome = "timedOut" => holders \subseteq signalled["KILL"])
  /\ (outcome = "timedOut" /\ code = "none" => processes \subseteq signalled["KILL"])
  /\ (outcome \in {"resolved", "failed"} => code # "none" /\ holders = {})

\* CommandRuns, for every set of processes that a command may start: a command that took too
\* long is not told to have succeeded, and what still holds a pipe after its end is being
\* killed, as is all of it if the command has not ended; after another end the command has
\* ended and nothing holds a pipe.
THEOREM CommandsEnd == Commands!Spec => [](Commands!LateIsOver /\ Commands!DoneIsDone)
<1>1. Commands!Init => CommandInvariant BY DEF Commands!Init, CommandInvariant, Commands!Signals
<1>2. CommandInvariant /\ [Commands!Next]_(Commands!vars) => CommandInvariant'
  <2> SUFFICES ASSUME CommandInvariant, [Commands!Next]_(Commands!vars) PROVE CommandInvariant' OBVIOUS
  <2> USE DEF CommandInvariant, Commands!Signals
  <2>1. CASE UNCHANGED Commands!vars BY <2>1 DEF Commands!vars
  <2>2. ASSUME NEW d \in Descendants, Commands!StartsChild(d) PROVE CommandInvariant'
    <3>1. /\ processes \ signalled["KILL"] # {} /\ processes' = processes \cup {d}
          /\ holders' = IF holders \ signalled["KILL"] # {} THEN holders \cup {d} ELSE holders
          /\ UNCHANGED <<signalled, code, reading, limit, timedOut, outcome>>
      BY <2>2 DEF Commands!StartsChild
    <3>2. outcome # "none" => holders' = holders BY <3>1
    <3>3. signalled' \in [Commands!Signals -> SUBSET processes'] BY <3>1
    <3> QED BY <3>1, <3>2, <3>3
  <2>3. ASSUME NEW d \in Descendants, Commands!Detach(d) PROVE CommandInvariant' BY <2>3 DEF Commands!Detach
  <2>4. ASSUME NEW p \in Commands!Processes, NEW how \in {"zero", "other", "killed"}, Commands!Ends(p, how)
        PROVE  CommandInvariant'
    BY <2>4 DEF Commands!Ends
  <2>5. ASSUME NEW p \in Commands!Processes, Commands!Exits(p) \/ Commands!TakesSignal(p) PROVE CommandInvariant'
    <3>1. CASE \E how \in {"zero", "other", "killed"} : Commands!Ends(p, how) BY <2>4, <3>1
    <3>2. CASE /\ signalled' = [signalled EXCEPT !["TERM"] = @ \ {p}]
               /\ UNCHANGED <<processes, deaf, holders, code, reading, limit, timedOut, outcome>>
      BY <3>2
    <3> QED BY <2>5, <3>1, <3>2 DEF Commands!Exits, Commands!TakesSignal
  <2>6. CASE Commands!TimeLimit BY <2>6 DEF Commands!TimeLimit, Commands!SignalledTree
  <2>7. CASE Commands!GraceEnds BY <2>7 DEF Commands!GraceEnds, Commands!SignalledTree, Commands!Settled
  <2>8. CASE Commands!Close
    <3>1. holders = {} /\ code # "none" BY <2>8 DEF Commands!Close, Commands!Closed
    <3> QED BY <2>8, <3>1 DEF Commands!Close, Commands!Settled, Commands!Result, Commands!ByCode
  <2>9. CASE Commands!SpawnFails BY <2>9 DEF Commands!SpawnFails, Commands!Settled
  <2> QED BY <2>1, <2>2, <2>3, <2>5, <2>6, <2>7, <2>8, <2>9 DEF Commands!Next
<1>3. CommandInvariant => Commands!LateIsOver /\ Commands!DoneIsDone
  BY DEF CommandInvariant, Commands!LateIsOver, Commands!DoneIsDone
<1> QED BY <1>1, <1>2, <1>3, PTL DEF Commands!Spec

----
(* Files in the tabs of the code view (CodeTabs). *)

CONSTANTS EditorTabs, Texts, MaxWrites, MaxAnswersLost
VARIABLES disk, editor, tabSaves, waiting, raced, tabTold, loss, writes, goneAnswers

Editors == INSTANCE CodeTabs WITH
    Tabs <- EditorTabs, tab <- editor, save <- tabSaves, queue <- waiting,
    MaxLost <- MaxAnswersLost, lost <- goneAnswers,
    told <- tabTold

TextsOrNone == Texts \cup {Editors!None}
AskedOrNot == {TRUE, FALSE}
EditorType == [file : TextsOrNone, content : TextsOrNone, asks : AskedOrNot,
               op : {"none", "load", "save"}]
SaveType == [at : {"none", "locks", "writes", "renames", "done", "refused"},
             next : TextsOrNone, expected : TextsOrNone]
EditorTypes ==
  /\ disk \in TextsOrNone /\ waiting \in Seq(EditorTabs) /\ raced \in BOOLEAN
  /\ editor \in [EditorTabs -> EditorType] /\ tabSaves \in [EditorTabs -> SaveType]
  /\ tabTold \in [EditorTabs -> TextsOrNone]
  /\ loss \in [EditorTabs -> {"none", "agreed", "typed"}]

\* Who writes holds the lock of the file.
WritersHoldTheLock ==
  \A t \in EditorTabs :
      tabSaves[t].at \in {"writes", "renames"} => waiting # <<>> /\ waiting[1] = t

\* What is about to be renamed was compared, and only another program wrote since.
RenamesAreCompared ==
  \A t \in EditorTabs :
      tabSaves[t].at = "renames" => raced \/ disk = tabSaves[t].expected

\* What a tab calls saved is the text it compares its content with.
ToldIsLoaded ==
  \A t \in EditorTabs : tabTold[t] # Editors!None => editor[t].file = tabTold[t]

\* Nobody loads over edits unasked.
LoadsAreExcused ==
  \A t \in EditorTabs : editor[t].op = "load" /\ Editors!Dirty(t) => loss[t] # "none"

EditorInvariant ==
  /\ EditorTypes /\ WritersHoldTheLock /\ RenamesAreCompared
  /\ ToldIsLoaded /\ LoadsAreExcused

LEMMA EditorInit ==
  ASSUME Texts # {}, Editors!Init PROVE EditorInvariant
<1>1. disk \in Texts BY DEF Editors!Init
<1>2. EditorTypes
  <2>1. [file |-> Editors!None, content |-> Editors!None, asks |-> FALSE, op |-> "none"] \in EditorType
    BY DEF EditorType, TextsOrNone, AskedOrNot
  <2>2. Editors!NoSave \in SaveType BY DEF SaveType, TextsOrNone, Editors!NoSave
  <2>3. tabTold \in [EditorTabs -> TextsOrNone] BY DEF Editors!Init, TextsOrNone
  <2>4. loss \in [EditorTabs -> {"none", "agreed", "typed"}] BY DEF Editors!Init
  <2>5. editor \in [EditorTabs -> EditorType] BY <2>1 DEF Editors!Init
  <2>6. tabSaves \in [EditorTabs -> SaveType] BY <2>2 DEF Editors!Init
  <2>7. waiting \in Seq(EditorTabs) BY DEF Editors!Init
  <2>8. raced \in BOOLEAN BY DEF Editors!Init
  <2> QED BY <1>1, <2>3, <2>4, <2>5, <2>6, <2>7, <2>8 DEF EditorTypes, TextsOrNone
<1> QED
  BY <1>2 DEF Editors!Init, EditorInvariant, WritersHoldTheLock, RenamesAreCompared, ToldIsLoaded,
    LoadsAreExcused, Editors!None, Editors!NoSave, Editors!Dirty

\* What becomes of a tab, and what a step of it leaves as it was.
TabBecomes(t, file, content, doing) ==
  /\ editor' \in [EditorTabs -> EditorType]
  /\ \A u \in EditorTabs \ {t} : editor'[u] = editor[u]
  /\ editor'[t].file = file /\ editor'[t].content = content /\ editor'[t].op = doing
LossBecomes(t, how) == loss' = [loss EXCEPT ![t] = how]
NothingWritten == UNCHANGED <<disk, tabSaves, waiting, raced>>

\* A step of a tab that leaves the service alone.
LEMMA TabSteps ==
  ASSUME EditorInvariant, NEW t \in EditorTabs, NothingWritten,
         NEW file, NEW content, NEW doing, TabBecomes(t, file, content, doing),
         NEW how \in {"none", "agreed", "typed"}, LossBecomes(t, how),
         (tabTold' = tabTold /\ file = editor[t].file) \/ tabTold' = [tabTold EXCEPT ![t] = Editors!None],
         doing = "load" /\ file # Editors!None /\ content # file => how # "none"
  PROVE  EditorInvariant'
<1> USE DEF EditorInvariant
<1>1. EditorTypes' BY DEF EditorTypes, TextsOrNone, NothingWritten, TabBecomes, LossBecomes
<1>2. (WritersHoldTheLock /\ RenamesAreCompared)' BY DEF WritersHoldTheLock, RenamesAreCompared, NothingWritten
<1>3. ToldIsLoaded' BY DEF ToldIsLoaded, EditorTypes, TabBecomes
<1>4. LoadsAreExcused' BY DEF LoadsAreExcused, EditorTypes, TabBecomes, LossBecomes, Editors!Dirty
<1> QED BY <1>1, <1>2, <1>3, <1>4

LEMMA EditorTypesIn ==
  ASSUME EditorInvariant, NEW t \in EditorTabs, NEW text \in Texts, Editors!Type(t, text)
  PROVE  EditorInvariant'
<1>1. TabBecomes(t, editor[t].file, text, editor[t].op)
  BY DEF EditorInvariant, EditorTypes, TabBecomes, EditorType, TextsOrNone, Editors!Type
<1>2. LossBecomes(t, IF editor[t].op = "load" THEN "typed" ELSE loss[t])
  BY DEF LossBecomes, Editors!Type, EditorInvariant, EditorTypes
<1>3. tabTold' = [tabTold EXCEPT ![t] = Editors!None] /\ NothingWritten BY DEF Editors!Type, NothingWritten
<1>4. (IF editor[t].op = "load" THEN "typed" ELSE loss[t]) \in {"none", "agreed", "typed"}
  BY DEF EditorInvariant, EditorTypes
<1> QED BY <1>1, <1>2, <1>3, <1>4, TabSteps

LEMMA EditorAsks ==
  ASSUME EditorInvariant, NEW t \in EditorTabs,
         Editors!Reload(t) \/ Editors!Discard(t) \/ Editors!KeepEditing(t)
  PROVE  EditorInvariant'
<1> USE DEF EditorInvariant, EditorTypes
<1>1. tabTold' = tabTold /\ NothingWritten
  BY DEF NothingWritten, Editors!Reload, Editors!Discard, Editors!KeepEditing
<1>2. ASSUME editor' = [editor EXCEPT ![t].asks = TRUE] \/ editor' = [editor EXCEPT ![t].asks = FALSE], UNCHANGED loss
      PROVE  EditorInvariant'
  <2>1. TabBecomes(t, editor[t].file, editor[t].content, editor[t].op)
    <3>1. TRUE \in AskedOrNot /\ FALSE \in AskedOrNot BY DEF AskedOrNot
    <3> QED BY <1>2, <3>1 DEF TabBecomes, EditorType
  <2>2. LossBecomes(t, loss[t]) /\ loss[t] \in {"none", "agreed", "typed"} BY <1>2 DEF LossBecomes
  <2>3. editor[t].op = "load" /\ editor[t].file # Editors!None /\ editor[t].content # editor[t].file
          => loss[t] # "none"
    BY DEF LoadsAreExcused, Editors!Dirty
  <2> QED BY <1>1, <2>1, <2>2, <2>3, TabSteps
<1>3. ASSUME NEW how \in {"none", "agreed"}, Editors!StartLoad(t, how),
             editor[t].op = "load" \/ how # "none" \/ ~Editors!Dirty(t)
      PROVE  EditorInvariant'
  <2> DEFINE doing == IF editor[t].op # "none" THEN editor[t].op ELSE "load"
             to == IF editor[t].op # "none" THEN loss[t] ELSE how
  <2>1. TabBecomes(t, editor[t].file, editor[t].content, doing)
    <3> DEFINE half == [editor EXCEPT ![t].asks = FALSE]
    <3>1. FALSE \in AskedOrNot BY DEF AskedOrNot
    <3>2. /\ half \in [EditorTabs -> EditorType] /\ \A u \in EditorTabs \ {t} : half[u] = editor[u]
          /\ half[t].file = editor[t].file /\ half[t].content = editor[t].content
          /\ half[t].op = editor[t].op
      BY <3>1 DEF EditorType
    <3>3. editor' = [half EXCEPT ![t].op = doing] BY <1>3 DEF Editors!StartLoad, Editors!Busy
    <3> HIDE DEF half
    <3> QED BY <3>2, <3>3 DEF TabBecomes, EditorType
  <2>2. LossBecomes(t, to) /\ to \in {"none", "agreed", "typed"}
    BY <1>3 DEF LossBecomes, Editors!StartLoad, Editors!Busy
  <2>3. doing = "load" /\ editor[t].file # Editors!None /\ editor[t].content # editor[t].file
          => to # "none"
    BY <1>3 DEF LoadsAreExcused, Editors!Dirty
  <2> QED BY <1>1, <2>1, <2>2, <2>3, TabSteps
<1>4. CASE Editors!Reload(t) BY <1>2, <1>3, <1>4 DEF Editors!Reload, Editors!Asks, Editors!Busy
<1>5. CASE Editors!Discard(t) BY <1>3, <1>5 DEF Editors!Discard
<1>6. CASE Editors!KeepEditing(t) BY <1>2, <1>6 DEF Editors!KeepEditing
<1> QED BY <1>4, <1>5, <1>6

LEMMA EditorLoads ==
  ASSUME EditorInvariant, NEW t \in EditorTabs, Editors!Loaded(t) PROVE EditorInvariant'
<1> USE DEF EditorInvariant, EditorTypes
<1>1. LossBecomes(t, "none") /\ NothingWritten BY DEF LossBecomes, NothingWritten, Editors!Loaded
<1>2. CASE editor' = [editor EXCEPT ![t].op = "none"] /\ tabTold' = tabTold
  <2>1. TabBecomes(t, editor[t].file, editor[t].content, "none") BY <1>2 DEF TabBecomes, EditorType
  <2> QED BY <1>1, <1>2, <2>1, TabSteps
<1>3. CASE /\ editor' = [editor EXCEPT ![t].op = "none", ![t].file = disk, ![t].content = disk]
           /\ tabTold' = [tabTold EXCEPT ![t] = Editors!None]
  <2> DEFINE half == [editor EXCEPT ![t].op = "none"]
             most == [half EXCEPT ![t].file = disk]
  <2>1. disk \in TextsOrNone OBVIOUS
  <2>2. /\ half \in [EditorTabs -> EditorType] /\ \A u \in EditorTabs \ {t} : half[u] = editor[u]
        /\ half[t].op = "none"
    BY DEF EditorType
  <2>3. editor' = [most EXCEPT ![t].content = disk] BY <1>3
  <2> HIDE DEF half
  <2>4. /\ most \in [EditorTabs -> EditorType] /\ \A u \in EditorTabs \ {t} : most[u] = editor[u]
        /\ most[t].op = "none" /\ most[t].file = disk
    BY <2>1, <2>2 DEF EditorType
  <2> HIDE DEF most
  <2>5. TabBecomes(t, disk, disk, "none") BY <2>1, <2>3, <2>4 DEF TabBecomes, EditorType
  <2> QED BY <1>1, <1>3, <2>5, TabSteps
<1> QED BY <1>2, <1>3 DEF Editors!Loaded

LEMMA EditorSaves ==
  ASSUME EditorInvariant, NEW t \in EditorTabs, Editors!Save(t) PROVE EditorInvariant'
<1> USE DEF EditorInvariant
<1>1. TabBecomes(t, editor[t].file, editor[t].content, "save")
  BY DEF EditorTypes, TabBecomes, EditorType, Editors!Save
<1>2. tabSaves' = [tabSaves EXCEPT ![t] = [at |-> "locks", next |-> editor[t].content,
                                       expected |-> editor[t].file]]
  BY DEF Editors!Save
<1>3. tabSaves' \in [EditorTabs -> SaveType]
  <2>1. [at |-> "locks", next |-> editor[t].content, expected |-> editor[t].file] \in SaveType
    BY DEF EditorTypes, EditorType, SaveType
  <2> QED BY <1>2, <2>1 DEF EditorTypes
<1>4. UNCHANGED <<disk, raced, tabTold, loss>> /\ waiting' = Append(waiting, t) BY DEF Editors!Save
<1>5. waiting' \in Seq(EditorTabs) /\ (waiting # <<>> => waiting' # <<>> /\ waiting'[1] = waiting[1])
  BY <1>4 DEF EditorTypes
<1>6. EditorTypes' BY <1>1, <1>3, <1>4, <1>5 DEF EditorTypes, TextsOrNone, TabBecomes
<1>7. (WritersHoldTheLock /\ RenamesAreCompared)'
  BY <1>2, <1>4, <1>5 DEF WritersHoldTheLock, RenamesAreCompared, EditorTypes
<1>8. (ToldIsLoaded /\ LoadsAreExcused)'
  BY <1>1, <1>4 DEF ToldIsLoaded, LoadsAreExcused, Editors!Dirty, TabBecomes
<1> QED BY <1>6, <1>7, <1>8

LEMMA EditorAnswered ==
  ASSUME EditorInvariant, NEW t \in EditorTabs, Editors!Answered(t) PROVE EditorInvariant'
<1> USE DEF EditorInvariant
<1>1. UNCHANGED <<disk, waiting, raced, loss>> /\ tabSaves' = [tabSaves EXCEPT ![t] = Editors!NoSave]
  BY DEF Editors!Answered
<1>2. tabSaves' \in [EditorTabs -> SaveType]
  <2>1. Editors!NoSave \in SaveType BY DEF Editors!NoSave, SaveType, TextsOrNone
  <2> QED BY <1>1, <2>1 DEF EditorTypes
<1>3. \A u \in EditorTabs : tabSaves'[u].at \in {"writes", "renames"} => tabSaves'[u] = tabSaves[u]
  BY <1>1 DEF EditorTypes, Editors!NoSave
<1>4. (WritersHoldTheLock /\ RenamesAreCompared)' BY <1>1, <1>3 DEF WritersHoldTheLock, RenamesAreCompared
<1>5. \E file \in TextsOrNone :
          /\ TabBecomes(t, file, editor[t].content, "none")
          /\ \/ tabTold' = tabTold /\ file = editor[t].file
             \/ tabTold' = [tabTold EXCEPT ![t] = file]
  <2>1. CASE /\ editor' = [editor EXCEPT ![t].op = "none", ![t].file = tabSaves[t].next]
             /\ tabTold' = [tabTold EXCEPT ![t] = tabSaves[t].next]
    <3> DEFINE half == [editor EXCEPT ![t].op = "none"]
    <3>1. /\ half \in [EditorTabs -> EditorType] /\ \A u \in EditorTabs \ {t} : half[u] = editor[u]
          /\ half[t].op = "none" /\ half[t].content = editor[t].content
      BY DEF EditorTypes, EditorType
    <3>2. tabSaves[t].next \in TextsOrNone BY DEF EditorTypes, SaveType
    <3>4. editor' = [half EXCEPT ![t].file = tabSaves[t].next] BY <2>1
    <3> HIDE DEF half
    <3>3. TabBecomes(t, tabSaves[t].next, editor[t].content, "none")
      BY <3>1, <3>2, <3>4 DEF TabBecomes, EditorType
    <3> QED BY <2>1, <3>2, <3>3
  <2>2. CASE editor' = [editor EXCEPT ![t].op = "none"] /\ tabTold' = tabTold
    <3>1. TabBecomes(t, editor[t].file, editor[t].content, "none")
      BY <2>2 DEF EditorTypes, TabBecomes, EditorType
    <3>2. editor[t].file \in TextsOrNone BY DEF EditorTypes, EditorType
    <3> QED BY <2>2, <3>1, <3>2
  <2> QED BY <2>1, <2>2 DEF Editors!Answered, Editors!SavedText
<1>6. EditorTypes' BY <1>1, <1>2, <1>5 DEF EditorTypes, TabBecomes, TextsOrNone
<1>7. (ToldIsLoaded /\ LoadsAreExcused)'
  BY <1>1, <1>5 DEF EditorTypes, ToldIsLoaded, LoadsAreExcused, Editors!Dirty, TabBecomes
<1> QED BY <1>4, <1>6, <1>7

\* A save that goes on is the only one that writes.
LEMMA EditorWrites ==
  ASSUME EditorInvariant, NEW t \in EditorTabs,
         Editors!Compare(t) \/ Editors!CompareAgain(t) \/ Editors!Rename(t)
  PROVE  EditorInvariant'
<1> USE DEF EditorInvariant
<1>1. waiting # <<>> /\ waiting[1] = t
  BY DEF EditorTypes, Editors!Compare, Editors!CompareAgain, Editors!Rename, Editors!Steps, Editors!Turn, Editors!Contains
<1>2. \A u \in EditorTabs : u # t => tabSaves[u].at \notin {"writes", "renames"} BY <1>1 DEF WritersHoldTheLock
<1>3. UNCHANGED <<editor, tabTold, loss>> BY DEF Editors!Compare, Editors!CompareAgain, Editors!Rename
<1>4. (ToldIsLoaded /\ LoadsAreExcused)' BY <1>3 DEF ToldIsLoaded, LoadsAreExcused, Editors!Dirty
<1>5. \E at \in {"writes", "renames", "done", "refused"} :
          /\ tabSaves' = [tabSaves EXCEPT ![t].at = at]
          /\ at \in {"writes", "renames"} => waiting' = waiting
          /\ waiting' \in {waiting, Tail(waiting)}
          /\ at = "renames" => disk' = disk /\ disk = tabSaves[t].expected
  BY DEF Editors!Compare, Editors!CompareAgain, Editors!Rename, Editors!Ends, Editors!UnchangedSince
<1>6. disk' \in TextsOrNone /\ raced' \in BOOLEAN
  BY DEF EditorTypes, SaveType, TextsOrNone, Editors!Compare, Editors!CompareAgain, Editors!Rename
<1>7. PICK at \in {"writes", "renames", "done", "refused"} :
          /\ tabSaves' = [tabSaves EXCEPT ![t].at = at]
          /\ at \in {"writes", "renames"} => waiting' = waiting
          /\ waiting' \in {waiting, Tail(waiting)}
          /\ at = "renames" => disk' = disk /\ disk = tabSaves[t].expected
  BY <1>5
<1>8. /\ tabSaves' \in [EditorTabs -> SaveType] /\ tabSaves'[t].at = at
      /\ tabSaves'[t].expected = tabSaves[t].expected /\ \A u \in EditorTabs \ {t} : tabSaves'[u] = tabSaves[u]
  BY <1>7 DEF EditorTypes, SaveType
<1>9. waiting' \in Seq(EditorTabs) BY <1>1, <1>7 DEF EditorTypes
<1>10. EditorTypes' BY <1>3, <1>6, <1>8, <1>9 DEF EditorTypes, TextsOrNone
<1>11. WritersHoldTheLock' BY <1>1, <1>2, <1>7, <1>8 DEF WritersHoldTheLock
<1>12. RenamesAreCompared' BY <1>2, <1>7, <1>8 DEF RenamesAreCompared
<1> QED BY <1>4, <1>10, <1>11, <1>12

LEMMA EditorOutside ==
  ASSUME EditorInvariant, NEW text \in Texts, Editors!OtherProgram(text) PROVE EditorInvariant'
<1> USE DEF EditorInvariant
<1>1. UNCHANGED <<editor, tabSaves, waiting, tabTold, loss>> /\ disk' = text BY DEF Editors!OtherProgram
<1>2. raced' \in BOOLEAN /\ \A t \in EditorTabs : tabSaves[t].at = "renames" => raced'
  BY DEF EditorTypes, Editors!OtherProgram
<1>3. EditorTypes' BY <1>1, <1>2 DEF EditorTypes, TextsOrNone
<1> QED
  BY <1>1, <1>2, <1>3 DEF WritersHoldTheLock, RenamesAreCompared, ToldIsLoaded, LoadsAreExcused, Editors!Dirty

\* CodeTabs, for every set of tabs and of texts: a save replaces the text it was edited from
\* and no other, but for another program in the moment before; what a tab calls saved is
\* what it shows; and what was typed goes away unasked only if it was typed while the file
\* was being loaded.
THEOREM TextsAreKept ==
  ASSUME Texts # {}
  PROVE  Editors!Spec => /\ [](Editors!SavedIsStored)
                         /\ Editors!NothingOverwritten /\ Editors!EditsAreKept
<1>1. Editors!Init => EditorInvariant BY EditorInit
<1>2. EditorInvariant /\ [Editors!Next]_(Editors!vars) => EditorInvariant'
  <2> SUFFICES ASSUME EditorInvariant, [Editors!Next]_(Editors!vars) PROVE EditorInvariant' OBVIOUS
  <2>1. CASE UNCHANGED Editors!vars
    BY <2>1 DEF Editors!vars, EditorInvariant, EditorTypes, WritersHoldTheLock, RenamesAreCompared,
      ToldIsLoaded, LoadsAreExcused, Editors!Dirty
  <2>2. CASE Editors!Next
    BY <2>2, EditorTypesIn, EditorAsks, EditorLoads, EditorSaves, EditorAnswered, EditorWrites, EditorOutside
      DEF Editors!Next
  <2> QED BY <2>1, <2>2
<1>3. EditorInvariant => Editors!SavedIsStored
  BY DEF EditorInvariant, ToldIsLoaded, Editors!SavedIsStored, Editors!Dirty
<1>4. EditorInvariant => Editors!NothingOverwrittenStep
  BY DEF EditorInvariant, RenamesAreCompared, Editors!NothingOverwrittenStep, Editors!Rename, Editors!Steps
<1>5. EditorInvariant => Editors!EditsAreKeptStep
  BY DEF EditorInvariant, LoadsAreExcused, Editors!EditsAreKeptStep, Editors!Loaded
<1> QED BY <1>1, <1>2, <1>3, <1>4, <1>5, PTL DEF Editors!Spec, Editors!NothingOverwritten, Editors!EditsAreKept

----
(* Notices that a Turn has ended (CompletionNotices). *)

CONSTANTS Windows, LoudWindows, EndedTurns, UnlockedBy, MaxSwitches
VARIABLES switchOn, granted, untold, windowOn, windowPermission, armed, asking, inFront,
          hiddenWindows, sound, unlocks, inbox, alerts, switches

Notices == INSTANCE CompletionNotices WITH
    Tabs <- Windows, Loud <- LoudWindows, Turns <- EndedTurns, Listeners <- UnlockedBy,
    MaxChanges <- MaxSwitches, stored <- switchOn, enabled <- windowOn,
    permission <- windowPermission, shown <- inFront, hidden <- hiddenWindows,
    changes <- switches

SoundType == [plays : {"no", "muted", "aloud"}, muted : BOOLEAN, version : Nat]

\* A window that is still on was not told yet that the switch is off.
OnOrUntold == \A t \in Windows : windowOn[t] => switchOn \/ t \in untold

\* The unlock of the version that plays is the only one that may stop it, and what plays
\* aloud is of none; what is muted waits for the answer of its own unlock.
UnlocksAreOld ==
  \A t \in Windows :
      /\ \A v \in unlocks[t] : v \in Nat /\ v <= sound[t].version
      /\ sound[t].plays = "aloud" => sound[t].version \notin unlocks[t]
      /\ sound[t].muted => sound[t].version \in unlocks[t]

NoticeInvariant ==
  /\ sound \in [Windows -> SoundType] /\ unlocks \in [Windows -> SUBSET Nat]
  /\ switchOn \in BOOLEAN /\ windowOn \in [Windows -> BOOLEAN]
  /\ OnOrUntold /\ UnlocksAreOld /\ Notices!Considerate

\* What a step does to the switch and to the notices.
SwitchKept ==
  /\ switchOn' \in BOOLEAN /\ windowOn' \in [Windows -> BOOLEAN]
  /\ \A t \in Windows : windowOn'[t] => switchOn' \/ t \in untold'
SoundKept == UNCHANGED <<sound, unlocks>>

LEMMA UnlockKeepsSound ==
  ASSUME NoticeInvariant, NEW t \in Windows, Notices!Unlocked(t)
  PROVE  sound' \in [Windows -> SoundType] /\ unlocks' \in [Windows -> SUBSET Nat] /\ UnlocksAreOld'
<1>1. CASE t \notin LoudWindows BY <1>1 DEF Notices!Unlocked, Notices!audio, NoticeInvariant, UnlocksAreOld
<1>2. CASE t \in LoudWindows
  <2> DEFINE next == sound[t].version + 1
  <2>1. sound[t].version \in Nat /\ next \in Nat BY DEF NoticeInvariant, SoundType
  <2>2. sound' = [sound EXCEPT ![t] = [plays |-> "muted", muted |-> TRUE, version |-> next]]
    BY <1>2 DEF Notices!Unlocked
  <2>3. [plays |-> "muted", muted |-> TRUE, version |-> next] \in SoundType BY <2>1 DEF SoundType
  <2>4. sound' \in [Windows -> SoundType] /\ sound'[t].version = next /\ sound'[t].plays = "muted"
        /\ \A u \in Windows \ {t} : sound'[u] = sound[u]
    BY <2>2, <2>3 DEF NoticeInvariant
  <2>5. unlocks' = [unlocks EXCEPT ![t] = @ \cup {next}] BY <1>2, <2>4 DEF Notices!Unlocked
  <2>6. unlocks' \in [Windows -> SUBSET Nat] /\ unlocks'[t] = unlocks[t] \cup {next}
        /\ \A u \in Windows \ {t} : unlocks'[u] = unlocks[u]
    BY <2>1, <2>5 DEF NoticeInvariant
  <2>7. UnlocksAreOld' BY <2>1, <2>4, <2>6 DEF NoticeInvariant, UnlocksAreOld
  <2> QED BY <2>4, <2>6, <2>7
<1> QED BY <1>1, <1>2

LEMMA PlayingKeepsSound ==
  ASSUME NoticeInvariant, NEW t \in Windows, Notices!Played(t), UNCHANGED unlocks
  PROVE  sound' \in [Windows -> SoundType] /\ unlocks' \in [Windows -> SUBSET Nat] /\ UnlocksAreOld'
<1>1. CASE t \notin LoudWindows BY <1>1 DEF Notices!Played, NoticeInvariant, UnlocksAreOld
<1>2. CASE t \in LoudWindows
  <2> DEFINE next == sound[t].version + 1
  <2>1. sound[t].version \in Nat /\ next \in Nat BY DEF NoticeInvariant, SoundType
  <2>2. sound' = [sound EXCEPT ![t] = [plays |-> "aloud", muted |-> FALSE, version |-> next]]
    BY <1>2 DEF Notices!Played
  <2>3. [plays |-> "aloud", muted |-> FALSE, version |-> next] \in SoundType BY <2>1 DEF SoundType
  <2>4. sound' \in [Windows -> SoundType] /\ sound'[t].version = next /\ ~sound'[t].muted
        /\ \A u \in Windows \ {t} : sound'[u] = sound[u]
    BY <2>2, <2>3 DEF NoticeInvariant
  <2>5. next \notin unlocks[t] BY <2>1 DEF NoticeInvariant, UnlocksAreOld
  <2>6. UnlocksAreOld' BY <2>1, <2>4, <2>5 DEF NoticeInvariant, UnlocksAreOld
  <2> QED BY <2>4, <2>6 DEF NoticeInvariant
<1> QED BY <1>1, <1>2

LEMMA NoticeInit == ASSUME Notices!Init PROVE NoticeInvariant
<1>1. Notices!Silent \in SoundType BY DEF Notices!Silent, SoundType
<1>2. sound \in [Windows -> SoundType] /\ unlocks \in [Windows -> SUBSET Nat] BY <1>1 DEF Notices!Init
<1>3. switchOn \in BOOLEAN /\ windowOn \in [Windows -> BOOLEAN] /\ OnOrUntold BY DEF Notices!Init, OnOrUntold
<1>4. UnlocksAreOld BY DEF Notices!Init, Notices!Silent, UnlocksAreOld
<1>5. Notices!Considerate BY DEF Notices!Init, Notices!Considerate
<1> QED BY <1>2, <1>3, <1>4, <1>5 DEF NoticeInvariant

\* The steps of the switch and of the view, which give no notice.
LEMMA SwitchKeeps ==
  ASSUME NoticeInvariant, SwitchKept, alerts' = alerts,
         SoundKept \/ (\E t \in Windows : Notices!Unlocked(t) \/ (Notices!Played(t) /\ UNCHANGED unlocks))
  PROVE  NoticeInvariant'
<1>1. sound' \in [Windows -> SoundType] /\ unlocks' \in [Windows -> SUBSET Nat] /\ UnlocksAreOld'
  BY UnlockKeepsSound, PlayingKeepsSound DEF SoundKept, NoticeInvariant, UnlocksAreOld
<1> QED BY <1>1 DEF NoticeInvariant, SwitchKept, OnOrUntold, Notices!Considerate

LEMMA NoticeSwitch ==
  ASSUME NoticeInvariant, NEW t \in Windows,
         \/ Notices!TurnOff(t) \/ Notices!TurnOn(t) \/ Notices!Asked(t) \/ Notices!Storage(t)
         \/ Notices!Focus(t) \/ Notices!Hide(t)
         \/ \E l \in UnlockedBy : Notices!Press(t, l)
         \/ \E s \in EndedTurns : Notices!Open(t, s)
         \/ Notices!Revoke
  PROVE  NoticeInvariant'
<1>0. alerts' = alerts
  BY DEF Notices!TurnOff, Notices!TurnOn, Notices!Asked, Notices!Storage, Notices!Focus, Notices!Hide,
    Notices!Press, Notices!Open, Notices!Revoke
<1>1. ASSUME NEW on \in BOOLEAN, Notices!Stores(t, on), Notices!Shows(t, on) PROVE SwitchKept
  BY <1>1 DEF Notices!Stores, Notices!Shows, SwitchKept, NoticeInvariant, OnOrUntold
<1>2. CASE Notices!TurnOff(t)
  <2>1. SwitchKept /\ SoundKept BY <1>1, <1>2 DEF Notices!TurnOff, Notices!audio, SoundKept
  <2> QED BY <1>0, <2>1, SwitchKeeps
<1>3. CASE Notices!TurnOn(t)
  <2>1. SwitchKept /\ Notices!Unlocked(t) BY <1>3 DEF Notices!TurnOn, SwitchKept, NoticeInvariant, OnOrUntold
  <2> QED BY <1>0, <2>1, SwitchKeeps
<1>4. CASE Notices!Asked(t)
  <2>1. CASE granted' = "granted"
    <3>1. Notices!Stores(t, TRUE) /\ Notices!Shows(t, TRUE) /\ Notices!Played(t) /\ UNCHANGED unlocks
      BY <1>4, <2>1 DEF Notices!Asked
    <3> QED BY <1>0, <1>1, <3>1, SwitchKeeps
  <2>2. CASE granted' # "granted"
    <3>1. UNCHANGED <<switchOn, untold, windowOn>> /\ SoundKept
      BY <1>4, <2>2 DEF Notices!Asked, Notices!audio, SoundKept
    <3>2. SwitchKept BY <3>1 DEF SwitchKept, NoticeInvariant, OnOrUntold
    <3> QED BY <1>0, <3>1, <3>2, SwitchKeeps
  <2> QED BY <2>1, <2>2
<1>5. CASE Notices!Storage(t)
  <2>1. windowOn' = [windowOn EXCEPT ![t] = switchOn] /\ untold' = untold \ {t} /\ switchOn' = switchOn /\ SoundKept
    BY <1>5 DEF Notices!Storage, Notices!Rereads, Notices!Shows, Notices!audio, SoundKept
  <2>2. SwitchKept BY <2>1 DEF SwitchKept, NoticeInvariant, OnOrUntold
  <2> QED BY <1>0, <2>1, <2>2, SwitchKeeps
<1>6. CASE Notices!Focus(t)
  <2>1. windowOn' = [windowOn EXCEPT ![t] = switchOn] /\ UNCHANGED <<untold, switchOn>> /\ SoundKept
    BY <1>6 DEF Notices!Focus, Notices!Shows, Notices!audio, SoundKept
  <2>2. SwitchKept BY <2>1 DEF SwitchKept, NoticeInvariant, OnOrUntold
  <2> QED BY <1>0, <2>1, <2>2, SwitchKeeps
<1>7. CASE Notices!Hide(t) \/ (\E s \in EndedTurns : Notices!Open(t, s)) \/ Notices!Revoke
  <2>1. UNCHANGED <<untold, switchOn, windowOn>> /\ SoundKept
    BY <1>7 DEF Notices!Hide, Notices!Open, Notices!Revoke, Notices!switch, Notices!audio, SoundKept
  <2>2. SwitchKept BY <2>1 DEF SwitchKept, NoticeInvariant, OnOrUntold
  <2> QED BY <1>0, <2>1, <2>2, SwitchKeeps
<1>8. CASE \E l \in UnlockedBy : Notices!Press(t, l)
  <2>1. UNCHANGED <<untold, switchOn, windowOn>> /\ Notices!Unlocked(t) BY <1>8 DEF Notices!Press
  <2>2. SwitchKept BY <2>1 DEF SwitchKept, NoticeInvariant, OnOrUntold
  <2> QED BY <1>0, <2>1, <2>2, SwitchKeeps
<1> QED BY <1>2, <1>3, <1>4, <1>5, <1>6, <1>7, <1>8

LEMMA NoticeOpened ==
  ASSUME NoticeInvariant, NEW a \in alerts, Notices!OpenNotice(a) PROVE NoticeInvariant'
<1>1. windowOn' = [windowOn EXCEPT ![a.tab] = switchOn] /\ UNCHANGED <<untold, switchOn, alerts>> /\ SoundKept
  BY DEF Notices!OpenNotice, Notices!Shows, Notices!audio, SoundKept
<1>2. SwitchKept BY <1>1 DEF SwitchKept, NoticeInvariant, OnOrUntold
<1> QED BY <1>1, <1>2, SwitchKeeps

LEMMA NoticeSounds ==
  ASSUME NoticeInvariant, NEW t \in Windows, Notices!UnlockSettles(t) \/ Notices!SoundEnds(t)
  PROVE  NoticeInvariant'
<1>1. UNCHANGED <<switchOn, untold, windowOn, alerts>>
  BY DEF Notices!UnlockSettles, Notices!SoundEnds, Notices!switch
<1>2. ASSUME sound' \in [Windows -> SoundType], unlocks' \in [Windows -> SUBSET Nat], UnlocksAreOld'
      PROVE  NoticeInvariant'
  BY <1>1, <1>2 DEF NoticeInvariant, OnOrUntold, Notices!Considerate
<1>3. CASE Notices!SoundEnds(t)
  <2>1. unlocks' = unlocks /\ sound' = [sound EXCEPT ![t].plays = "no"] BY <1>3 DEF Notices!SoundEnds
  <2>2. /\ sound' \in [Windows -> SoundType] /\ \A u \in Windows \ {t} : sound'[u] = sound[u]
        /\ sound'[t].plays = "no" /\ sound'[t].muted = sound[t].muted /\ sound'[t].version = sound[t].version
    BY <2>1 DEF NoticeInvariant, SoundType
  <2> QED BY <1>2, <2>1, <2>2 DEF NoticeInvariant, UnlocksAreOld
<1>4. CASE Notices!UnlockSettles(t)
  <2>1. PICK v \in unlocks[t] :
            /\ unlocks' = [unlocks EXCEPT ![t] = @ \ {v}]
            /\ sound' = IF v = sound[t].version THEN [sound EXCEPT ![t].plays = "no", ![t].muted = FALSE] ELSE sound
    BY <1>4 DEF Notices!UnlockSettles, Notices!Current
  <2>2. unlocks' \in [Windows -> SUBSET Nat] /\ unlocks'[t] = unlocks[t] \ {v}
        /\ \A u \in Windows \ {t} : unlocks'[u] = unlocks[u]
    BY <2>1 DEF NoticeInvariant
  <2>3. CASE v # sound[t].version BY <1>2, <2>1, <2>2, <2>3 DEF NoticeInvariant, UnlocksAreOld
  <2>4. CASE v = sound[t].version
    <3> DEFINE half == [sound EXCEPT ![t].plays = "no"]
    <3>1. /\ half \in [Windows -> SoundType] /\ \A u \in Windows \ {t} : half[u] = sound[u]
          /\ half[t].plays = "no" /\ half[t].version = sound[t].version
      BY DEF NoticeInvariant, SoundType
    <3>2. sound' = [half EXCEPT ![t].muted = FALSE] BY <2>1, <2>4
    <3> HIDE DEF half
    <3>3. /\ sound' \in [Windows -> SoundType] /\ \A u \in Windows \ {t} : sound'[u] = sound[u]
          /\ sound'[t].plays = "no" /\ ~sound'[t].muted /\ sound'[t].version = sound[t].version
      BY <3>1, <3>2 DEF SoundType
    <3> QED BY <1>2, <2>2, <3>3 DEF NoticeInvariant, UnlocksAreOld
  <2> QED BY <2>3, <2>4
<1> QED BY <1>3, <1>4

LEMMA NoticeGiven ==
  ASSUME NoticeInvariant, NEW t \in Windows, Notices!Completed(t) PROVE NoticeInvariant'
<1>1. PICK ended \in inbox[t] :
          /\ IF Notices!ShouldNotify(t, ended) /\ Notices!ShowsNotice
             THEN Notices!Played(t) /\ alerts' = alerts \cup {Notices!Alert(t, ended)}
             ELSE UNCHANGED <<sound, alerts>>
          /\ UNCHANGED <<Notices!switch, unlocks>>
  BY DEF Notices!Completed
<1>2. UNCHANGED <<switchOn, untold, windowOn, unlocks>> BY <1>1 DEF Notices!switch
<1>3. SwitchKept BY <1>2 DEF SwitchKept, NoticeInvariant, OnOrUntold
<1>4. CASE Notices!ShouldNotify(t, ended) /\ Notices!ShowsNotice
  <2>1. sound' \in [Windows -> SoundType] /\ unlocks' \in [Windows -> SUBSET Nat] /\ UnlocksAreOld'
    BY <1>1, <1>2, <1>4, PlayingKeepsSound
  <2>2. switchOn \/ t \in untold BY <1>4 DEF Notices!ShouldNotify, NoticeInvariant, OnOrUntold
  <2>3. Notices!Alert(t, ended).permitted /\ Notices!Alert(t, ended).wanted /\ ~Notices!Alert(t, ended).watched
    BY <1>4, <2>2 DEF Notices!Alert, Notices!ShouldNotify, Notices!ShowsNotice
  <2>4. Notices!Considerate' BY <1>1, <1>4, <2>3 DEF NoticeInvariant, Notices!Considerate
  <2> QED BY <1>3, <2>1, <2>4 DEF NoticeInvariant, SwitchKept, OnOrUntold
<1>5. CASE ~(Notices!ShouldNotify(t, ended) /\ Notices!ShowsNotice)
  BY <1>1, <1>2, <1>3, <1>5, SwitchKeeps DEF SoundKept
<1> QED BY <1>4, <1>5

\* CompletionNotices, for every set of tabs and Turns: a notice comes only while the browser
\* permits it, for a session the user does not look at, and not in a tab that has been told
\* that the switch is off; and the answer to an unlock cuts no sound short.
THEOREM NoticesAreConsiderate ==
  Notices!Spec => [](Notices!Considerate) /\ Notices!SoundIsHeard
<1>1. Notices!Init => NoticeInvariant BY NoticeInit
<1>2. NoticeInvariant /\ [Notices!Next]_(Notices!vars) => NoticeInvariant'
  <2> SUFFICES ASSUME NoticeInvariant, [Notices!Next]_(Notices!vars) PROVE NoticeInvariant' OBVIOUS
  <2>1. CASE UNCHANGED Notices!vars
    BY <2>1 DEF Notices!vars, Notices!switch, Notices!audio, NoticeInvariant, OnOrUntold, UnlocksAreOld,
      Notices!Considerate
  <2>2. CASE Notices!Revoke
    <3>1. UNCHANGED <<switchOn, untold, windowOn, alerts>> /\ SoundKept
      BY <2>2 DEF Notices!Revoke, Notices!audio, SoundKept
    <3>2. SwitchKept BY <3>1 DEF SwitchKept, NoticeInvariant, OnOrUntold
    <3> QED BY <3>1, <3>2, SwitchKeeps
  <2>3. CASE Notices!Next
    BY <2>2, <2>3, NoticeSwitch, NoticeOpened, NoticeSounds, NoticeGiven DEF Notices!Next
  <2> QED BY <2>1, <2>3
<1>3. NoticeInvariant => Notices!Considerate BY DEF NoticeInvariant
<1>4. NoticeInvariant /\ NoticeInvariant' /\ [Notices!Next]_(Notices!vars) => Notices!SoundIsHeardStep
  <2> SUFFICES ASSUME NoticeInvariant, NoticeInvariant', [Notices!Next]_(Notices!vars), NEW t \in Windows,
                      unlocks'[t] # unlocks[t], unlocks'[t] \subseteq unlocks[t]
               PROVE  /\ sound[t].plays = "aloud" => sound'[t].plays = "aloud"
                      /\ unlocks'[t] = {} => ~sound'[t].muted
    BY DEF Notices!SoundIsHeardStep
  <2>1. unlocks'[t] = {} => ~sound'[t].muted BY DEF NoticeInvariant, UnlocksAreOld
  <2>2. ASSUME NEW u \in Windows, Notices!Unlocked(u) PROVE FALSE
    <3>1. unlocks' = unlocks \/ (u = t /\ unlocks'[t] = unlocks[t] \cup {sound'[t].version})
      BY <2>2 DEF Notices!Unlocked, Notices!audio, NoticeInvariant
    <3> QED BY <3>1
  <2>3. unlocks' # unlocks OBVIOUS
  <2>4. Notices!Next BY <2>3 DEF Notices!vars, Notices!audio
  <2>5. \E u \in Windows : Notices!UnlockSettles(u) \/ Notices!Unlocked(u)
    BY <2>3, <2>4 DEF Notices!Next, Notices!SoundEnds, Notices!TurnOff, Notices!TurnOn, Notices!Asked,
      Notices!Storage, Notices!Focus, Notices!Hide, Notices!Completed, Notices!Press, Notices!Open,
      Notices!Revoke, Notices!OpenNotice, Notices!audio
  <2>6. PICK u \in Windows : Notices!UnlockSettles(u) BY <2>2, <2>5
  <2>7. u = t BY <2>6 DEF Notices!UnlockSettles, NoticeInvariant
  <2>8. sound[t].plays = "aloud" => sound' = sound
    BY <2>6, <2>7 DEF Notices!UnlockSettles, Notices!Current, NoticeInvariant, UnlocksAreOld
  <2> QED BY <2>1, <2>8
<1> QED BY <1>1, <1>2, <1>3, <1>4, PTL DEF Notices!Spec, Notices!SoundIsHeard

----
(* Readings of the machine (MachineMetrics). *)

CONSTANTS MetricPages, CacheFor, Window, QueryLimit, StaleLimit, LastTime
VARIABLES clock, samples, kept, lastGpu, waitsFor, given

Metrics == INSTANCE MachineMetrics WITH
    Pages <- MetricPages, MaxTime <- LastTime, now <- clock, waiting <- waitsFor, answer <- given,
    cached <- kept

MetricConstants ==
  /\ CacheFor \in Nat \ {0} /\ Window \in Nat
  /\ StaleLimit \in Nat

GpuType == [status : {"none", "available", "stale", "unavailable"}, read : Int]
SampleType == [id : Nat \ {0}, began : Nat, try : 1..2, since : Nat, at : {"querying", "pauses", "read"},
               gpu : GpuType]

\* How old a reading may be when so much time was allowed for it to go on.
Within(gpu, from, time) ==
  /\ gpu.status = "available" => from - gpu.read <= time
  /\ gpu.status = "stale" => from - gpu.read < StaleLimit + time

MetricTypes ==
  /\ clock \in Nat /\ lastGpu \in Int /\ lastGpu <= clock
  /\ samples \in SUBSET SampleType
  /\ waitsFor \in [MetricPages -> Nat]
  /\ given \in [MetricPages -> [gpu : GpuType, given : Int]]
  /\ kept \in [at : Int, gpu : GpuType]

OneSample == \A s, t \in samples : s = t
WaitsAreServed == \A p \in MetricPages : waitsFor[p] # 0 => \E s \in samples : s.id = waitsFor[p]

\* A reading is of the time since its sample began, and the sample is over within a window
\* of it; what is kept was a window old when it was made.
SamplesAreYoung ==
  \A s \in samples :
      /\ s.began <= clock
      /\ s.at = "read" => Within(s.gpu, s.began, 0) /\ Within(s.gpu, clock, Window)
CachedIsYoung == Within(kept.gpu, kept.at, Window)
GivenIsYoung ==
  \A p \in MetricPages :
      /\ given[p].gpu.status = "available" => given[p].given - given[p].gpu.read < Window + CacheFor
      /\ given[p].gpu.status = "stale" => given[p].given - given[p].gpu.read < StaleLimit + Window + CacheFor

MetricInvariant ==
  /\ MetricTypes /\ OneSample /\ WaitsAreServed
  /\ SamplesAreYoung /\ CachedIsYoung /\ GivenIsYoung

LEMMA MetricCardinality == \A S : Metrics!Cardinality(S) = Cardinality(S)
BY DEF Metrics!Cardinality, Cardinality

LEMMA MetricInit ==
  ASSUME Metrics!Init PROVE MetricInvariant
<1>1. Metrics!None \in GpuType BY DEF Metrics!None, Metrics!Never, GpuType
<1>2. MetricTypes BY <1>1 DEF Metrics!Init, MetricTypes, Metrics!Idle, Metrics!Never
<1> QED
  BY <1>2 DEF Metrics!Init, MetricInvariant, OneSample, WaitsAreServed, SamplesAreYoung, CachedIsYoung,
    GivenIsYoung, Within, Metrics!Idle, Metrics!None

LEMMA MetricTick ==
  ASSUME MetricConstants, MetricInvariant, Metrics!Tick PROVE MetricInvariant'
<1> USE DEF MetricInvariant
<1>1. UNCHANGED <<samples, kept, lastGpu, waitsFor, given>> /\ clock' = clock + 1 /\ clock \in Nat
      /\ \A s \in samples : ~Metrics!Measured(s)
  BY DEF Metrics!Tick, Metrics!Due, MetricTypes
<1>2. MetricTypes' BY <1>1 DEF MetricTypes
<1>3. SamplesAreYoung'
  <2> SUFFICES ASSUME NEW s \in samples
               PROVE  s.began <= clock + 1 /\ (s.at = "read" => Within(s.gpu, s.began, 0) /\ Within(s.gpu, clock + 1, Window))
    BY <1>1 DEF SamplesAreYoung, Within
  <2>1. s \in SampleType /\ s.gpu \in GpuType /\ s.began \in Nat /\ s.gpu.read \in Int
    BY DEF MetricTypes, SampleType, GpuType
  <2>2. s.at = "read" => clock + 1 - s.began <= Window BY <1>1, <2>1 DEF Metrics!Measured, MetricConstants
  <2> QED BY <1>1, <2>1, <2>2 DEF SamplesAreYoung, Within, MetricConstants
<1>4. (OneSample /\ WaitsAreServed /\ CachedIsYoung /\ GivenIsYoung)'
  BY <1>1 DEF OneSample, WaitsAreServed, CachedIsYoung, GivenIsYoung, Within
<1> QED BY <1>2, <1>3, <1>4

LEMMA MetricRead ==
  ASSUME MetricConstants, MetricInvariant, NEW p \in MetricPages, Metrics!Read(p) PROVE MetricInvariant'
<1> USE DEF MetricInvariant
<1>1. UNCHANGED <<clock, kept, lastGpu>> /\ waitsFor[p] = 0 BY DEF Metrics!Read
<1>2. CASE /\ Metrics!Fresh /\ Metrics!Given(p, kept.gpu) /\ UNCHANGED <<samples, waitsFor>>
  <2>1. kept.gpu \in GpuType /\ kept.at \in Int /\ kept.gpu.read \in Int /\ clock \in Nat
        /\ [gpu |-> kept.gpu, given |-> clock] \in [gpu : GpuType, given : Int]
    BY DEF MetricTypes, GpuType
  <2>2. given' = [given EXCEPT ![p] = [gpu |-> kept.gpu, given |-> clock]] /\ clock - kept.at < CacheFor
    BY <1>2 DEF Metrics!Given, Metrics!Fresh
  <2>3. MetricTypes' BY <1>1, <1>2, <2>1, <2>2 DEF MetricTypes
  <2>4. GivenIsYoung' BY <2>1, <2>2 DEF MetricTypes, GivenIsYoung, CachedIsYoung, Within, MetricConstants
  <2> QED BY <1>1, <1>2, <2>3, <2>4 DEF OneSample, WaitsAreServed, SamplesAreYoung, CachedIsYoung, Within
<1>3. CASE \E s \in samples : waitsFor' = [waitsFor EXCEPT ![p] = s.id] /\ UNCHANGED <<samples, given>>
  <2>1. PICK s \in samples : waitsFor' = [waitsFor EXCEPT ![p] = s.id] /\ UNCHANGED <<samples, given>> BY <1>3
  <2>2. s.id \in Nat BY DEF MetricTypes, SampleType
  <2> QED
    BY <1>1, <2>1, <2>2 DEF MetricTypes, OneSample, WaitsAreServed, SamplesAreYoung, CachedIsYoung,
      GivenIsYoung, Within
<1>4. CASE samples = {} /\ UNCHANGED given
           /\ samples' = samples \cup {Metrics!Begun(1 + Cardinality(samples))}
           /\ waitsFor' = [waitsFor EXCEPT ![p] = 1 + Cardinality(samples)]
  <2> DEFINE s == Metrics!Begun(1)
  <2>1. Cardinality(samples) = 0 BY <1>4, FS_EmptySet
  <2>0. 1 + Cardinality(samples) = 1 BY <2>1
  <2>2. samples' = {s} /\ waitsFor' = [waitsFor EXCEPT ![p] = 1] BY <1>4, <2>0
  <2>3. Metrics!None \in GpuType /\ clock \in Nat BY DEF Metrics!None, Metrics!Never, GpuType, MetricTypes
  <2>4. s \in SampleType /\ s.id = 1 /\ s.began = clock /\ s.at = "querying"
    BY <2>3 DEF Metrics!Begun, SampleType
  <2>5. MetricTypes' BY <1>1, <1>4, <2>2, <2>4 DEF MetricTypes
  <2>6. WaitsAreServed' BY <1>4, <2>2, <2>4 DEF WaitsAreServed, MetricTypes
  <2>7. OneSample' /\ SamplesAreYoung' BY <1>1, <2>2, <2>3, <2>4 DEF OneSample, SamplesAreYoung
  <2> QED BY <1>1, <1>4, <2>5, <2>6, <2>7 DEF CachedIsYoung, GivenIsYoung, Within
<1>5. \/ Metrics!Fresh /\ Metrics!Given(p, kept.gpu) /\ UNCHANGED <<samples, waitsFor>>
      \/ (\E s \in samples : waitsFor' = [waitsFor EXCEPT ![p] = s.id]) /\ UNCHANGED <<samples, given>>
      \/ /\ samples = {} /\ UNCHANGED given
         /\ samples' = samples \cup {Metrics!Begun(1 + Cardinality(samples))}
         /\ waitsFor' = [waitsFor EXCEPT ![p] = 1 + Cardinality(samples)]
  BY MetricCardinality DEF Metrics!Read, Metrics!Shared
<1> QED BY <1>2, <1>3, <1>4, <1>5

\* One step of the sample that is under way.
LEMMA MetricGoes ==
  ASSUME MetricConstants, MetricInvariant, NEW s \in samples, NEW t \in SampleType,
         samples' = (samples \ {s}) \cup {t}, t.id = s.id, t.began = s.began,
         t.at = "read" => Within(t.gpu, s.began, 0) /\ Within(t.gpu, clock, 0),
         UNCHANGED <<clock, kept, waitsFor, given>>, lastGpu' \in Int, lastGpu' <= clock
  PROVE  MetricInvariant'
<1> USE DEF MetricInvariant
<1>1. samples' = {t} BY DEF OneSample
<1>2. MetricTypes' BY <1>1 DEF MetricTypes
<1>3. OneSample' /\ WaitsAreServed' BY <1>1 DEF OneSample, WaitsAreServed
<1>4. SamplesAreYoung'
  <2>1. t.gpu.read \in Int /\ clock \in Nat /\ s.began <= clock
    BY DEF SampleType, GpuType, MetricTypes, SamplesAreYoung
  <2> QED BY <1>1, <2>1 DEF SamplesAreYoung, Within, MetricConstants
<1> QED BY <1>2, <1>3, <1>4 DEF CachedIsYoung, GivenIsYoung, Within

LEMMA MetricQuery ==
  ASSUME MetricConstants, MetricInvariant, NEW s \in samples,
         Metrics!Queried(s) \/ Metrics!QueryFails(s) \/ Metrics!Retry(s)
  PROVE  MetricInvariant'
<1>1. s \in SampleType /\ clock \in Nat /\ s.began \in Nat /\ s.began <= clock /\ lastGpu \in Int /\ lastGpu <= clock
  BY DEF MetricInvariant, MetricTypes, SampleType, SamplesAreYoung
<1>2. CASE Metrics!Queried(s)
  <2> DEFINE gpu == [status |-> "available", read |-> clock]
             t == [s EXCEPT !.at = "read", !.gpu = gpu]
  <2>1. gpu \in GpuType BY <1>1 DEF GpuType
  <2>2. t \in SampleType /\ t.id = s.id /\ t.began = s.began /\ t.gpu = gpu BY <1>1, <2>1 DEF SampleType
  <2>3. Within(gpu, s.began, 0) /\ Within(gpu, clock, 0) BY <1>1 DEF Within
  <2>4. samples' = (samples \ {s}) \cup {t} /\ UNCHANGED <<clock, kept, waitsFor, given>> /\ lastGpu' = clock
    BY <1>2 DEF Metrics!Queried, Metrics!Replace
  <2> HIDE DEF t, gpu
  <2> QED BY <1>1, <2>2, <2>3, <2>4, MetricGoes
<1>3. CASE Metrics!QueryFails(s) /\ samples' = (samples \ {s}) \cup {[s EXCEPT !.at = "read", !.gpu = Metrics!Unread]}
  <2> DEFINE gpu == Metrics!Unread
             t == [s EXCEPT !.at = "read", !.gpu = gpu]
  <2>1. gpu \in GpuType BY <1>1 DEF GpuType, Metrics!Unread, Metrics!Never
  <2>2. t \in SampleType /\ t.id = s.id /\ t.began = s.began /\ t.gpu = gpu BY <1>1, <2>1 DEF SampleType
  <2>3. Within(gpu, s.began, 0) /\ Within(gpu, clock, 0)
    BY <1>1 DEF Within, Metrics!Unread, Metrics!Recent, MetricConstants
  <2>4. UNCHANGED <<clock, kept, waitsFor, given, lastGpu>> BY <1>3 DEF Metrics!QueryFails
  <2> HIDE DEF t, gpu
  <2> QED BY <1>1, <1>3, <2>2, <2>3, <2>4, MetricGoes DEF t, gpu
<1>4. CASE Metrics!QueryFails(s) /\ samples' = (samples \ {s}) \cup {[s EXCEPT !.at = "pauses", !.since = clock]}
  <2> DEFINE t == [s EXCEPT !.at = "pauses", !.since = clock]
  <2>1. t \in SampleType /\ t.id = s.id /\ t.began = s.began /\ t.at = "pauses" BY <1>1 DEF SampleType
  <2>2. UNCHANGED <<clock, kept, waitsFor, given, lastGpu>> BY <1>4 DEF Metrics!QueryFails
  <2> QED BY <1>1, <1>4, <2>1, <2>2, MetricGoes
<1>5. CASE Metrics!Retry(s)
  <2> DEFINE t == [s EXCEPT !.at = "querying", !.try = 2, !.since = clock]
  <2> DEFINE half == [s EXCEPT !.at = "querying"]
             most == [half EXCEPT !.try = 2]
  <2>3. half \in SampleType /\ half.id = s.id /\ half.began = s.began /\ half.at = "querying"
    BY <1>1 DEF SampleType
  <2>4. t = [most EXCEPT !.since = clock] OBVIOUS
  <2> HIDE DEF half
  <2>5. most \in SampleType /\ most.id = s.id /\ most.began = s.began /\ most.at = "querying"
    BY <2>3 DEF SampleType
  <2> HIDE DEF most
  <2>6. [most EXCEPT !.since = clock] \in SampleType /\ [most EXCEPT !.since = clock].id = s.id
        /\ [most EXCEPT !.since = clock].began = s.began /\ [most EXCEPT !.since = clock].at = "querying"
    BY <1>1, <2>5 DEF SampleType
  <2> HIDE DEF t
  <2>1. t \in SampleType /\ t.id = s.id /\ t.began = s.began /\ t.at = "querying" BY <2>4, <2>6
  <2>2. samples' = (samples \ {s}) \cup {t} /\ UNCHANGED <<clock, kept, waitsFor, given, lastGpu>>
    BY <1>5 DEF Metrics!Retry, Metrics!Replace, t, most, half
  <2> QED BY <1>1, <2>1, <2>2, MetricGoes
<1> QED BY <1>2, <1>3, <1>4, <1>5 DEF Metrics!QueryFails, Metrics!Replace

LEMMA MetricSampled ==
  ASSUME MetricConstants, MetricInvariant, NEW s \in samples, Metrics!Sampled(s) PROVE MetricInvariant'
<1> USE DEF MetricInvariant
<1>1. /\ samples' = {} /\ UNCHANGED <<clock, lastGpu>> /\ kept' = [at |-> clock, gpu |-> s.gpu] /\ s.at = "read"
      /\ given' = [p \in MetricPages |-> IF waitsFor[p] = s.id THEN [gpu |-> s.gpu, given |-> clock] ELSE given[p]]
      /\ waitsFor' = [p \in MetricPages |-> IF waitsFor[p] = s.id THEN 0 ELSE waitsFor[p]]
  BY DEF Metrics!Sampled, Metrics!Measured, OneSample
<1>2. s.gpu \in GpuType /\ clock \in Nat /\ s.gpu.read \in Int
      /\ [gpu |-> s.gpu, given |-> clock] \in [gpu : GpuType, given : Int] /\ kept' \in [at : Int, gpu : GpuType]
  BY <1>1 DEF MetricTypes, SampleType, GpuType
<1>3. given' \in [MetricPages -> [gpu : GpuType, given : Int]] BY <1>1, <1>2 DEF MetricTypes
<1>4. MetricTypes' BY <1>1, <1>2, <1>3 DEF MetricTypes
<1>5. WaitsAreServed' BY <1>1 DEF WaitsAreServed, OneSample, MetricTypes
<1>6. CachedIsYoung' /\ GivenIsYoung'
  <2>1. Within(s.gpu, clock, Window) BY <1>1 DEF SamplesAreYoung
  <2>2. CachedIsYoung' BY <1>1, <2>1 DEF CachedIsYoung, Within
  <2>3. GivenIsYoung' BY <1>1, <1>2, <2>1 DEF GivenIsYoung, Within, MetricConstants
  <2> QED BY <2>2, <2>3
<1> QED BY <1>1, <1>4, <1>5, <1>6 DEF OneSample, SamplesAreYoung

\* MachineMetrics, for every set of pages and all times: nvidia-smi runs for one sample that all
\* the pages share, no page waits for one that is not under way, and no old reading is given
\* as a new one, nor an older one than may be shown at all.
THEOREM ReadingsAreFresh ==
  ASSUME MetricConstants
  PROVE  Metrics!Spec => [](Metrics!OneSampleForAll /\ Metrics!OldIsNotLive)
<1>1. Metrics!Init => MetricInvariant BY MetricInit
<1>2. MetricInvariant /\ [Metrics!Next]_(Metrics!vars) => MetricInvariant'
  <2> SUFFICES ASSUME MetricInvariant, [Metrics!Next]_(Metrics!vars) PROVE MetricInvariant' OBVIOUS
  <2>1. CASE UNCHANGED Metrics!vars
    BY <2>1 DEF Metrics!vars, MetricInvariant, MetricTypes, OneSample, WaitsAreServed, SamplesAreYoung,
      CachedIsYoung, GivenIsYoung, Within
  <2>2. CASE Metrics!Next BY <2>2, MetricTick, MetricRead, MetricQuery, MetricSampled DEF Metrics!Next
  <2> QED BY <2>1, <2>2
<1>3. MetricInvariant => Metrics!OneSampleForAll /\ Metrics!OldIsNotLive
  <2> SUFFICES ASSUME MetricInvariant PROVE Metrics!OneSampleForAll /\ Metrics!OldIsNotLive OBVIOUS
  <2>1. Cardinality(samples) <= 1
    <3>1. CASE samples = {} BY <3>1, FS_EmptySet
    <3>2. CASE samples # {}
      <4>1. PICK s \in samples : samples = {s} BY <3>2 DEF MetricInvariant, OneSample
      <4>2. Cardinality({s}) = 1 BY FS_Singleton
      <4> QED BY <4>1, <4>2
    <3> QED BY <3>1, <3>2
  <2>2. Metrics!OldIsNotLive BY DEF MetricInvariant, GivenIsYoung, Metrics!OldIsNotLive
  <2>3. \A p \in MetricPages : waitsFor[p] # 0 => \E s \in samples : s.id = waitsFor[p]
    BY DEF MetricInvariant, WaitsAreServed
  <2>4. Metrics!OneSampleForAll BY <2>1, <2>3, MetricCardinality DEF Metrics!OneSampleForAll
  <2> QED BY <2>2, <2>4
<1> QED BY <1>1, <1>2, <1>3, PTL DEF Metrics!Spec
====
