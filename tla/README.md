# Verification of my-codex-web

TLA+ models, model-checking runs and machine-checked proofs of my-codex-web: the
web server that puts browsers in front of a Codex App Server, and the state its
pages keep. Paths are relative to the repository; SS, RR, TR, SUP, AD, CR and LOCK
stand for `session-service.ts`, `runtime-registry.ts`, `json-rpc-transport.ts`,
`supervisor.ts`, `codex-adapter.ts`, `connection-recovery.ts` and
`keyed-operation-lock.ts`, SU for `self-update.ts`.

1. The system - 2. The modules - 3. The runs - 4. Findings - 5. Proofs -
6. What is next - 7. Not modelled

## 1. The system

Browsers talk HTTP and WebSocket to one Node process (`apps/server`). That
process runs, or connects to, a Codex App Server (`packages/codex-adapter`) over
JSON-RPC lines. The App Server owns the threads (sessions) and their Turns; the
web server caches snapshots, decides which operations may run, and publishes a
runtime state per thread. Everything in the web server runs on one event loop:
there are no data races, but every `await` is a place where another operation, a
notification, a timer or a disconnection may come in between.

| component | state it keeps | operations | hard behaviour | what makes it correct |
| --- | --- | --- | --- | --- |
| SessionService: turns (SS) | `sessionSnapshots`, `settings`, `uncertainTurn*`, `uncertainSteers`, `userMessageResults` | startTurn, steer, interrupt, readSession, resolveUncertainTurn, reconcileAfterReconnect, handleEvent | results lost with the connection, late Turns, retries, stale snapshots | a prompt is applied at most once; what browsers are told of it is true; unknown results block until settled |
| RuntimeRegistry (RR) | runtimes, interrupted Turns, uncertain baselines, pending requests, waiters | handleConnection, reconcileSnapshot, handleEvent, mark/confirm | order of events, snapshots and responses | the state shown can end, and at rest is that of the App Server |
| JsonRpcTransport (TR) | pending requests, child or socket | request, stop, handleLine, timeouts | watchdog against late answers, output of a dying child | every promise settles, an answer reaches its request |
| Supervisor, adapter start, ConnectionRecovery (SUP, AD, CR) | transport, restart timer, generation, gate | spawn, exit, initialize, handle, run | old generations, failing initialisation | the gate opens only for a reconciled connection, and does open |
| Locks (LOCK, `SS.withLock`) | promise per key | withKey, withKeys | continuations in any order, nesting | exclusion, order, no leak, no deadlock |
| Prompt scheduler (`prompt-scheduler.ts`) | schedules in SQLite, running jobs | set, tick, send, handleTurnCompleted | crash between claim and send, stop race | one prompt per interval, automatic stop is not lost |
| Sessions of a project (SS, `project-indexer.ts`) | mappings, tombstones, uncertain and observed children, uncertain archives | create, fork, scan, recover, archive, move, remove | a child is found while its creation is unknown | origin, project and archive state are what was asked for |
| Side chats (SS, RR) | runtimes, waiters, threads to remove | create, close, recoverTimedOut | bounded waits, restart of the App Server | closing ends, and never cuts another Turn |
| Attachments (`attachment-store.ts`) | metadata files, claims, copies | upload, claim, release, remove, prune, decorate | claim against removal, a copy of a file being written | a sent attachment is not deleted |
| Self update, restart (SU, `service-restart.ts`) | persisted status, child process | start, resume, restart | stop in any phase | no update is stuck, success is that of the new build |
| pi and agy backends | a process per session or Turn | prompt, interrupt, archive, kill timers | a process that dies or hangs at any step | a running Turn has its process, every Turn ends |
| Titles, costs, settings, details (SS, AD, `database.ts`) | title queue, ledger, overrides, Goals | generate, record, persist, load | late answers, returns of removed threads | counted once, hidden, chosen values stay |
| Web client: queue and drafts (`Composer.tsx`, `store.ts`) | queue, barrier, drafts, pending submissions | enqueue, send, resolve, retry | runtime, timeline and answers in any order | nothing typed is lost or sent twice |
| Web client: data (`App.tsx`, `api.ts`, query caches) | snapshot, timeline, history cache, lists, CSRF context | bootstrap, events, reads, one refresh | a snapshot older than the events | the page shows one moment of the server, caches are true |
| Web client: the rest | questions, cards, notices, code tabs, update monitor | - | shared storage of tabs, late answers | section 2 |

Interactions: a route calls SessionService, which takes the thread's lock, calls
the adapter, and updates RuntimeRegistry. A notification goes adapter ->
`SessionService.handleEvent` -> `RuntimeRegistry.handleEvent` -> scheduler, in one
synchronous step (`server.ts:169-173`), and from there to the event gateway with a
number. A disconnection goes transport -> supervisor -> adapter ->
ConnectionRecovery -> `handleConnection`, and only then rejects the pending
requests; the continuations that see the rejections run after that.
`ConnectionRecovery` calls `reconcileAfterReconnect` for the new connection. A page
gets a bootstrap snapshot and then the numbered events; its requests are answered
beside them, in no order with them.

The hazards of each part, with the line where they bite and the properties that
would show them, are in `PROJECT.json`, "hazards".

## 2. The modules

Every module says in its first comment what it models and what it leaves out;
`PROJECT.json`, "map", names the lines of each definition.

| module | code |
| --- | --- |
| `TurnLifecycle` | one persistent session: SS, RR, TR and (external) App Server |
| `AppServerLink` | SUP, adapter initialisation, CR and the gate of `server.ts` |
| `KeyQueues`, `KeyedLock`, `SessionLocks` | a queue per key (abstract), the promise chain of LOCK and `withLock`, the keys each operation takes |
| `PromptScheduler` | `prompt-scheduler.ts` and its rows |
| `RuntimeEvents` | every handler of RR over sessions, side chats and subagents; the adapter's requests |
| `SessionFamilies` | creation, Fork, archive, move, removal, recovery (SS) against `project-indexer.ts` |
| `SideChats` | side chats and their removal (SS, AD, RR) |
| `ComposerQueue` | the queue of `Composer.tsx`, `queued-turn-barrier.ts`, `store.ts` against `userMessageResults` |
| `Drafts` | drafts, submissions and optimistic messages |
| `LiveEvents` | `event-gateway.ts`, bootstrap, the page's socket and buffered events, reads of the open session |
| `StreamedText` | the buffers and merges of a streaming Turn in SS, RR and `live-session.ts` |
| `AttachmentFiles`, `LocalFiles` | `attachment-store.ts`: claims and drafts on disk; copied pictures, links, attachments put back |
| `SelfUpdate`, `CommandRuns`, `UpdatePage` | SU and `service-restart.ts`; the commands it runs; the page that waits for it |
| `PiBackend`, `AgyBackend` | `pi-adapter.ts`, `pi-rpc.ts`; `agy-adapter.ts`, `agy-process.ts` |
| `StoredSettings`, `SessionDetails`, `TokenLedger` | settings and references; titles, Goals and fork roots; `token-cost.ts` and its ledger |
| `TitleWorker`, `Interrupts`, `BackendSwitch` | internal title threads (AD); stopping a Turn; `switchBackend` |
| `PendingAnswers`, `AsyncQuestions`, `AgentMessages`, `ForkTrees` | cards of server requests and their responses; questions left in the history; the text of agents; the tree of forks and whose message is whose |
| `ClientRequests`, `HistoryCache`, `SessionLists`, `CodeTabs`, `CompletionNotices`, `MachineMetrics` | `api.ts` with the hooks of `server.ts` and `request-deduplicator.ts`; `session-history-cache.ts`; the session lists of the query cache; the Code View; notices and sounds; `machine-metrics.ts` |
| `MCServiceParts`, `MCSmallParts` | the parts above that have no run of their own, with small constants |
| `KeyedLockProofs`, `TurnLifecycleProofs`, `TurnResultsProofs`, `PromptSchedulerProofs`, `RuntimeEventsProofs`, `SessionFamiliesProofs`, `ComposerQueueProofs`, `ServicePartsProofs` | theorems (section 5) |

The largest modules in more detail:

### TurnLifecycle

The state, and what it stands for:

| variable | code |
| --- | --- |
| `turns`, `alive`, `subscribed`, `req`, `strays` | the App Server (external): Turns of the thread, process alive, thread loaded for this connection, request it has yet to serve, requests of replaced connections that it may still serve |
| `link`, `wire` | the transport: connected, closing (SIGTERM sent, `close` not yet), down; lines not yet handled |
| `op` | the call inside `withLock(threadId)`, what it awaits (`phase`) and the settled answer it has not yet gone on with (`reply`) |
| `cache`, `loaded` | `sessionSnapshots`; absent, only resumed, or read |
| `uTurn`, `uSteer` | `uncertainTurnBaselines` with `uncertainTurnMessageIds`; `uncertainSteers` |
| `submitted`, `waiting` | `userMessageResults`; accepted calls not yet inside the lock |
| `reg` | RuntimeRegistry: `state`, `activeTurnId`, `connectionInterruptedTurns`, `uncertainTurnBaselines`, `uncertainTurnStart` |
| `recovery`, `queued` | ConnectionRecovery's gate; reconciliations that wait for the lock |
| `verdict`, `lateMsgs`, `overtaken`, `losses`, `timeouts` | history: what browsers were told, messages served out of `strays`, Turns that ended before `startTurn` went on |

A step of the web server is what runs between two awaits: `Begin*` takes the lock
and runs to the first request; `Resumed`, `ReadDone`, `ResolveRead`,
`ResolveNotApplied`, `Send`, `Responded` run when what was awaited has settled;
`Handle*` is one line of the App Server; `Disconnect` is the synchronous chain of
a lost connection together with the rejected mutation's continuation, which runs
before any other event. A resolved answer and its continuation are two steps
(`HandleReply`, then one of the above), because lines of the same chunk of output
may be handled in between; the constant `BatchedLines` says whether they are.
Only `readSession` awaits two requests at once, so only there may other events
come in after the snapshot is known (`ReadsTwice`).

The environment is a set of constants, so that every assumption has a name:
`Paginated` (resume omits Turns), `SharedServer` (a socket: the server outlives
the connection), `SlowServer` (mutations may hit their watchdog), `ColdSend` (a
prompt before any read), `BatchedLines`, `Announces` (resume announces a status).

Abstractions. A Turn is its number, its items the client messages in it. Terminal
statuses are one. `running` stands for `running` and `waitingForInput`,
`finished` for `justFinished`, `interrupted` and `failed`. Skills, attachments,
settings and titles are left out, but the await on `releaseClaims` inside
`resolveUncertainTurn` is kept, since what follows it uses the older snapshot. The
retries of a read by the transport are one request. The lock is `op`, with any
waiting call next: `KeyedLock` shows that the real one serves in order.

The App Server, as `src/` uses it: it has at most one Turn in progress per
thread; a Turn it announced is in its history; a crash leaves no Turn in progress
and truncates output at a line; a request that was written may be served after
the connection is gone; reads are atomic; this web server is its only client. It
is *not* assumed to drop a repeated `clientUserMessageId`
(`docs/V1_ACCEPTANCE.md:44` relies on that for Turns that come late). A shared server
keeps the request of a connection that was replaced (`Reconnect` moves it to `strays`)
and may serve it at any later time (`ServeStray`): the service has forgotten it when its
operation was resolved. What is applied in that way is in `lateMsgs`, its Turn is marked
`late`, and the properties on messages and starts except it by that name.

### AppServerLink

Transports are numbered as they are spawned. `conn` is a transport's life: `open`,
`closed` (it accepts nothing any more, its child or socket still exists), `gone`
after its `exit` event. `told` is `disconnectedReported`, `current` is
`transportValue`, `timer` is `restartTimer`; `init` is the one `initialize` each
transport gets; `gen`, `runs`, `retry` are ConnectionRecovery's generation, its
`run` promises and its retry timer; `gate` is the `connectionState` that
`server.ts` asks before a mutation (line 221).

A transport is lost in four ways, and each has its own order of events:
`Watchdog` (reported at once, exit later), `Failing` (closed silently, reported by
its exit), `Exit`, and `RetryCurrent` after a failed initialisation or for a side
chat that could not be closed. Report, adapter, recovery and gate follow
synchronously and are one action. `reconcileAfterReconnect` is one promise per
run that is fulfilled (`ReconcileDone`) or rejected (`ReconcileFails`) at any
later time, whether or not its connection still exists.

Abstractions: delays are not counted, but the restart timer is at least 500 ms,
while an initialisation whose transport is lost is rejected in the same chain of
microtasks (TR:298): `Spawn` waits for it. A socket that is still being opened
counts as open. The last transport of a run (`MaxSpawns`) does not fail.

### PromptScheduler

`row` is the session's row in `prompt_schedules` (id for `scheduleId`, `pending`
for `pendingAutoStopTurnId`, `next` for whether `nextRunAt` is null, to come or
past), `jobs` the calls of `send` that have not ended, with what they await
(`phase`) and the schedule they were called with. A job's phases are
`readSession`, `startTurn` before and after the App Server started the Turn.
`news` are completed Turns whose notification is still to be handled; it is lost
with the connection or the process. `Record` reads the row again, as the code
does, which is what `NoStaleWrite` is about.

`Set` is a save of the settings, `Remove` the cascade when the session is archived
or its project removed: nothing in the repository sets `hidden`, and the branches
of `tick` and `set` that ask for it are left out (a removed session has no row).
`Stop` is `close()` up to the awaited jobs, `Crash` the end at any point.
`startTurn` is external here (`TurnLifecycle` has it), and a Turn starts before
its connection is lost, not after. `lost` remembers Turns whose start had an
unknown result: without that exemption `ConfirmedIsLast` fails (section 4).

### KeyedLock, KeyQueues, SessionLocks

`WithKey`, `Enter`, `Settle`, `Clear` are: the synchronous part of `withKey`, the
start of the action, the settling of `next`, and the `finally` of `tracked`. An
operation is a sequence of keys, outermost first; the call on a key is made from
inside the action of the one before. Promise continuations of different
operations interleave freely. `SessionLocks` gives the sequences of
`moveToProject`, `removeProject`, `archive` and `performScanAll`, and the instance
that is checked.

### RuntimeEvents

`runtime` is what `get(threadId)` returns, `known` the keys of the registry's map,
`agent` what parents report of subagents, `cards` and `owner` the requests shown and
whose they are, `fading` the finish timers, `awaits` what an operation in the
thread's lock waits for (`waitForTerminal`, `waitForActiveTurnId`), `gone` the removed
threads. `answerable` is the adapter's map of requests, which decides whether an
answer can be sent; the two are cleared at different times. Handlers run without an
await, so each is one action. What a snapshot tells a reconciliation is
`TurnLifecycle`'s business; here its outcome is a choice.

### SessionFamilies

A child is the creation that asks for it together with the thread the App Server
makes for its thread source. Rows, tombstones, uncertain and observed children and
uncertain archives are variables; a scan reads pages first and writes rows later,
in between any step of the others. Locks are free or held: `KeyedLock` has their
queues. An operation that does not wait inside its lock is one action. `dead` are the
archives carried out here, `unwritten` those of them that the App Server refused because
the thread has no rollout (SS:584-590, in two steps: `unsubscribe` is awaited), `raised`
those that the end of their own recovery has brought back or whose tombstone it has taken
away (findings 8 and 9). `SlowCreations` says whether a creation may outlast the deadline of
its recovery; it may in the run.

### AttachmentFiles

`dir` is what is on the disk of each file, `saving` and `removing` are uploads and removals
between their two steps, `message` where each message is and which of its files it has
still to read (`todo`) or to write (`seen`). Anything may be removed at any time, as in the
page and the store. A claim that is overtaken by a removal or by the release of another
message is remembered in `unkept` (findings 14 and 15); `pending` are messages whose answer
was lost and that may still be taken, `doubtful` those of them that were resolved as not
applied.

### ComposerQueue

The page has the stored `queue` and `barrier`, and in memory `page`; the
runtime and the timeline are separate events of `wire`, answers (`answer`) come
beside them. Each commit of the page runs its effects before the next event:
`Effects` is a step of its own that must be taken first. `srv`, `op`, `asked` and
`results` are the server's runtime, the start that holds the lock, the requests not
yet handled and the remembered answers; `turns` is what became of the messages.
`Outlives` says whether a Turn goes on when its App Server's connection is lost; with
it a barrier may wait for ever (section 4), so `QueueMoves` is checked without it,
and the proofs hold with either.

### LiveEvents, StreamedText

`LiveEvents` counts text in chunks and numbers events as the gateway does; the page
buffers events until its snapshot has come, drops what the snapshot contains and
replays the rest. `StreamedText` has the letters: nothing numbers deltas, so every
merge guesses the overlap of two texts, and the module has the merge as it is.

## 3. The runs

| run | what it shows | distinct states | bounds |
| --- | --- | --- | --- |
| `session_locks` | exclusion, order of service, refinement of `KeyQueues`, no deadlock, all keys come free | 95 114 | 4 operations over 2 projects, a thread, a side chat |
| `turn_stdio` | what browsers are told and shown of prompts and Turns is true, with batched lines | 156 426 | 2 messages, 2 Turns, 1 crash, 1 read timeout |
| `turn_slow` | the lock and the gate are always released again | 140 566 | 2 messages, 2 Turns, 1 loss, a watchdog |
| `turn_socket` | one start at a time, each prompt once, refutations true | 2 917 745 | 2 messages, 2 Turns, 2 losses, requests of replaced connections, symmetric messages |
| `prompt_scheduler` | one prompt per interval, confirmations end a schedule, no late write | 362 428 | 3 Turns, 2 saves, 1 stop or crash, 1 loss |
| `runtime_events` | shown states can end, no vain wait, removed threads stay removed | 688 617 | a session, a side chat, a subagent, 2 requests, 2 Turns, 1 trouble |
| `session_families` | origin, project and archive state are what was asked for; recoveries end | 575 820 | 2 projects, 1 session, 1 child (slow), 1 loss, fault, move and scan each |
| `composer_queue` | each queued message once and in order, none over its predecessor, the queue moves | 350 868 | 3 items (one a compaction), 2 other Turns, 1 loss, 1 reload |
| `service_parts` | eight parts keep what they promise and get back to work | 231 768 | below |
| `small_parts` | twenty-three instances of the smaller parts, safety | 1.5 million | below |
| `queue_dropped` | finding 1 | first violation | 2 items, 1 loss |
| `question_hidden` | finding 2 | first violation | 2 titles, 4 items |

**Why the last two passing runs are sums.** `MCServiceParts` and `MCSmallParts` check
parts that share neither state nor calls: at the start one is chosen and the others
rest, so that the states are the sum of the parts' and not their product. What each
property collects is in the comment before it. `service_parts` has the App Server link
(4 transports, 2 failed reconciliations), the page, attachments (2 files, 2 messages),
side chats (2, beside 2 sessions), the update (3 commits), pi (3 processes), agy (2
Turns) and streamed text (2 letters). In `MCSmallParts` the parts take turns in
variables `v1`, `v2`, ...; the instance says which is which.

**Bounds.** Two Turns let an old Turn be mistaken for a new one; two messages let one
be uncertain while the other is sent; one loss leaves an uncertain operation and a
reconciliation, two let a reconciliation be cut short. `Attempts` is 2 for 3: the
loop's first, later and last pass differ. Four transports and two failed
reconciliations let a reconciliation of the first connection end under the third while
a retry waits. Three Turns let a job of an old schedule end under a new one that has
run already; two saves are an old and a new schedule. Four operations contain every
pair of nested orders in the code. Two requests of a thread are one that is answered
while another still blocks. Three items are a head, one that becomes head while the
first is unanswered, and one behind. The proofs of section 5 have none of these bounds.

Deadlock is checked except where inputs are bounded and used up: `composer_queue`,
`session_families`, `service_parts`, `small_parts` and the two violations. Whether these
systems stop too early is what `QueueMoves`, `RecoveryEnds`, `PageGetsInStep` and
`PartsRecover` ask.

**What holds in which environment.** The constants of `TurnLifecycle` name what the App
Server and the connection may do. `NoConcurrentStart`, `AtMostOnce` and
`NotAppliedIsTrue` hold in every environment (proved). `AppliedIsTrue` needs `ColdSend =
FALSE` or unpaginated history, and no output of a closed transport (`SlowServer =
FALSE`). `QuiescentTruth` needs no such output and a server that ends with
its connection: a shared one keeps the Turn, and if the resume of the reconciliation times
out, a browser's resolution of a lost steer, which reads without resuming, shows that Turn
as running and no line ends it (section 4). `StaysDisconnected` needs
a resume that announces nothing; with three messages its failure lets a steer that was
lost be told as applied when another start succeeds. `BlockedIsOffered` needs a server
that ends with its connection. So `turn_stdio` checks those in the environment of a
child process with browsers that read a session before they prompt, whose lines come in
batches (`BatchedLines = TRUE`: readline emits all lines of a chunk before the continuation
that waits for one of them runs, TR:125-126).

**What properties except.** Some statements of the repository fail in a way that is
understood. The property then names what it excepts by a history variable that one action
sets, and says that nothing else goes wrong: `overtaken` (finding 6) in `QuiescentTruth` and
`EndedTurnIsShown`; `lateMsgs` and `late` (finding 16) in `NoConcurrentStart`, `AtMostOnce`
and `NotAppliedIsTrue`; `raised` (findings 8, 9) in `ScansUndoNothing` and `unwritten` in
`NothingIsMistaken`; `unkept` and `doubtful` (findings 14, 15) in `SentStays`; `lost` (finding
7) in `ConfirmedIsLast`.

**Fairness.** Nothing is assumed of users, of losses, or of how long a Turn takes.
- `TurnLifecycle`: weak fairness of `Continue`, `Handle`, `Serve` (the event loop runs
  what is ready, the App Server answers, every request has a timeout); strong fairness
  of `BeginReconcile` and `ListDisconnected` (the lock is first come first served,
  proved in `KeyedLockProofs`); weak fairness of `TransportClosed`, `Reconnect` (an exit
  is reported, the supervisor restarts with bounded back-off), and of a `Crash` of a
  terminated child (SIGKILL follows SIGTERM after two seconds, TR:288).
- `AppServerLink`: requests of an initialisation settle, a closed transport exits,
  timers fire, a reconciliation ends.
- `PromptScheduler`: time passes, the interval timer ticks, calls of the session service
  end, a read does not fail for ever, notifications are handled, connection and web
  server come back.
- `KeyedLock`: an action settles and some continuation runs while one can.
- `SessionFamilies`, `ComposerQueue`, `LiveEvents`, `SideChats`, `SelfUpdate`, `PiBackend`,
  `AgyBackend`: stated before `Spec` or `Fairness` of the module; the same kinds: the
  event loop runs, requests are answered or time out, timers fire, killed processes
  die, a started server comes up. Strong fairness of the end of a run of pi: pi ends a
  run that it works on again and again.

## 4. Findings

Two are runs that TLC ends with a counterexample against a statement of the
repository; the others were met in earlier forms of the runs or are shown by the
changed constants named here, and are listed, with the statements they contradict, in
`PROJECT.json`, "findings".

1. `queue_dropped`: resolving a steer removes the head of the queue (`Composer.tsx:396`).
2. `question_hidden`: a question asked again under an answered title is not shown
   (`AsyncQuestionDock.tsx:12`).
3. A cold, paginated session has no baseline (SS:788; `turn_stdio` with `ColdSend = TRUE`
   violates `AppliedIsTrue`).
4. An idle status lifts `disconnected` while a result is unknown (RR:335; `Announces =
   TRUE`, `StaysDisconnected`).
5. Refused prompts without the button that resolves them (RR:391; `SharedServer = TRUE`,
   `BlockedIsOffered`).
6. A completed Turn is made active again by its own response (SS:820; `QuiescentTruth`
   without its exemption of `overtaken`; `docs/V1_PLAN.md:74`).
7. A confirmation nobody looks at after a restart (`prompt-scheduler.ts:113`;
   `ConfirmedIsLast` without its exemption of `lost`).
8. An archive undone by a late recovery (SS:1072; `ArchivedStaysGone` of `SessionFamilies`
   with `Kinds = {"fork"}`; `raised`).
9. A tombstone taken away by the late recovery of a slow Fork (SS:1067; `raised`; with
   `MaxScans = 3` a scan then brings the session back).
10. Text twice after a lost connection (SS:1985; `StreamedText` with `MaxOutages = 1`,
   `NothingTwice`; also with `LateOutput = TRUE`).
11. A ghost runtime of a title thread (`codex-adapter.ts:857`; `NoGhostRuntime`).
12. A prompt twice after a retry that became a steer (`Composer.tsx:339`; `SubmittedOnce`
    of `Drafts`).
13. A Fork's first Turn without its parent's access mode (SS:910; `ForkKeepsItsMode`).
14. A file removed beside the claim of its message (`attachment-store.ts:214`; the page offers
    it while it sends, `Composer.tsx:583`; `server.ts:410`; `SentStays` without `unkept`).
15. A refused message releases the file that an earlier message took to the App Server
    (SS:801; `SentStays` without `unkept`).
16. A request of a timed-out connection is applied by a shared App Server after its prompt
    was told as not applied (TR:285; `NotAppliedIsTrue` without `lateMsgs`;
    `docs/V1_ACCEPTANCE.md:44` leaves it to the server's deduplication, `:52` says that every
    timeout ends the App Server).

**Shown by other definitions of the modules**, which say what a document or comment says
and which TLC refutes: `UpToDateIsBuilt` (SU:261-275, 296-306), `RestartSparesTurns`
(`server.ts:147`; `README.md:160`), `RunsAreShown` (`pi-adapter.ts:190-194`; `README.md:98`),
`BlockedShowsWaiting` (`docs/V1_PLAN.md:74`), `LastModelStays` (SS:532-549;
`README.md:280`), `EditsNeverLost` (`CodeView.tsx:53`; `README.md:74`), `GoalIsShown` (SS:520;
`docs/V1_PLAN.md:108`), `EachReplyCounts` (`async-question-reply.ts:13`).

**Shown by other values of the constants:** `PiBackend` with `Early = TRUE` (a prompt
stored before its process works, `pi-adapter.ts:133`); `LiveEvents` with `Opening = TRUE`
(`session-query.ts:40-42`); `AgyBackend` with `MaxCrashes = 1` (two processes of one
session after a crash of the server); `BackendSwitch` with `PinsMeanwhile = TRUE` (SS:652,
668) and `Hasty = TRUE` (`Composer.tsx:578`); `ComposerQueue` with `Outlives = TRUE` (a
barrier that waits for ever).

**Observations** made while reading and modelling, each kept in the model as the code
has it:
- Turns. A resolved steer or prompt that is found applied stays in the queue; a refused
  queued send is answered from memory for five minutes (SS:1815-1825). A message that a
  resolution took for settled or applied while its re-send was unanswered is entered
  again behind others: order is promised only for messages left to the queue, which is
  what `FirstInFirstOut` says. A resolution reads without resuming (SS:1312): of a Turn that
  it shows as running the end is not heard, if the reconciliation's resume had timed out
  (SS:1249; `SharedServer = TRUE`, `QuiescentTruth`). A stop names no Turn (`server.ts:598`, SS:862), and one
  during a lost connection is answered as a success (SS:1507).
- Sessions. A rolled-back creation leaves no tombstone (SS:1725); a background recovery
  whose project is gone drops its entry without `restoreSessionDiscovery`
  (SS:1003-1010, 1121-1126); a recovery of a finished creation overwrites newer
  snapshot, settings and Goal (SS:741-744, 957-968); a late fork snapshot does too
  (SS:2055). Overlapping failed renames leave a refused name
  (`session-summary-cache.ts:24`).
- Side chats. An unsubscribe or injection that times out ends the connection for all
  (TR:172; `README.md:254-255`); the recovery ignores running subagents and counts Turns
  of pi and agy.
- Update. What a command started and what closed its pipes goes on after the command has
  ended, and nobody ends it (SU:87-90, 127-128). A restart command that fails silently leaves
  "restarting" and answer 503 for ever; a late poll of the page is answered by the new process (`server.ts:217`).
- Files. A crash between claim and `turn/start` leaves the claim; one while a link's
  record is written leaves it without its picture (`attachment-store.ts:394`).
- Pages. A second tab overwrites the stored queue; a lost HTTP answer gives a draft a
  new id; a fetch under way writes back a removed history; `handleArchived` releases its
  suppression after a failed reload; each tab sounds for a Turn, and none while its
  socket is down.
- Requests. `docs/V1_ACCEPTANCE.md:52` says which requests are idempotent; the routes at
  `server.ts:358`, `387`, `406` and `510` are not deduplicated.
- Messages. Nested `$$` and a bracket that spans a fence are read as
  `tests/unit/agent-message-format.test.ts:34` has them not
  (`agent-message-format.ts:204`, `254-258`).

## 5. Proofs

Every theorem holds for all values of the constants that satisfy the module's named
assumption (`PlanAssumption`, `ConstantsAssumption`, `BoundsAssumption`,
`ScheduleBounds`, `RuntimeConstants`, `QueueConstants`, `FamilyConstants`,
`PartsAssumption`): the constants are of their types,
sets of requests or threads are disjoint where they are different things. Each is
evaluated by a run. Nothing else is assumed, except in `TurnResultsProofs`, which names the
environment it is about, and in the theorems about single small parts, whose premises are
given with them below. What a property excepts (section 3) its theorem excepts too. TLC checked every inductive
invariant on an instance of its module before it was proved.

| module | theorem | says |
| --- | --- | --- |
| `KeyedLockProofs` | `Exclusion`, `Fifo`, `NoLostEntry` | `MutualExclusion`, `FirstComeFirstServed`, `EntryWhileInUse` |
| | `ServesQueues` | the promise chain implements `KeyQueues` (`ServedFromQueues`) |
| `ServicePartsProofs` | `NeverTwoServers`, `AlwaysAWayBack`, `GateOpensForServing`, `LinkKeptSafe` | `LinkIsSafe` and its parts |
| | `DiskStaysTrue`, `TurnsKeepTheirProcess` | `TheDiskIsTrue`, `TurnsHaveTheirProcess` |
| | `ChatsAreAlive`, `RecoverySparesOthers` | side chats: `ListedAreAlive`, `RecoveryCostsNothing` |
| | `RequestsCarriedOutOnce` | `ClientRequests`: `CarriedOutOnce`, `RetryIsSafe` |
| | `AnswersAreTrue` | `PendingAnswers`: `AnsweredOnce`, `StaysAnswerable`, `SaysWhatWasMeant` |
| | `CommandsEnd` | `CommandRuns`: `LateIsOver`, `DoneIsDone` |
| | `TextsAreKept` | `CodeTabs`: `SavedIsStored`, `NothingOverwritten`, `EditsAreKept` |
| | `NoticesAreConsiderate` | `CompletionNotices`: `Considerate`, `SoundIsHeard` |
| | `ReadingsAreFresh` | `MachineMetrics`: `OneSampleForAll`, `OldIsNotLive` |
| `PromptSchedulerProofs` | `ClaimSendsOnce`, `ConfirmedSendsNoMore`, `LateJobsRespectPauses` | `OncePerInterval`, `ConfirmedIsLast`, `NoStaleWrite` |
| `TurnLifecycleProofs` | `TypeCorrect`, `AnswerBelongs` | types; an answer reaches who asked |
| | `SentOnce`, `TruthfulRefusal` | `AtMostOnce`, `NotAppliedIsTrue` |
| | `OneStart` | `NoConcurrentStart` |
| `TurnResultsProofs` | `PendingKeepsDisconnected`, `PendingIsOffered` | `StaysDisconnected`, `BlockedIsOffered`, if `QuietChild` |
| | `TruthfulAcceptance` | `AppliedIsTrue`, if `QuietChild` and `HistoryKnown` |
| | `ShownAtRest` | `QuiescentTruth`, if `OrderlyChild` |
| `RuntimeEventsProofs` | `StatesCanEnd`, `NoVainWait`, `LateNewsRevivesNothing` | `ShownStatesCanEnd`, `NobodyWaitsForNothing`, `GoneStaysGone` |
| | `StopsAreHonest` | `Interrupts`: `StopIsHonest`, `NamesNoEndedTurn` |
| `SessionFamiliesProofs` | `NothingMistaken` | `NothingIsMistaken` |
| | `MovedStay`, `ScansRespectUsers` | `MovedStaysMoved`, `ScansUndoNothing` |
| | `TitlesStayHidden` | `TitleWorker`: `GhostsComeLate`, `WaitsAreTimed`, `NothingLeftBehind` |
| | `DetailsStayTrue` | `SessionDetails`: `LateLoadsReviveNothing`, `UserNameStays` |
| `ComposerQueueProofs` | `OneTurnEach`, `OneTurnEachInOrder` | `QueuedOnce`, `EachOnceInOrder` |
| | `QueueWaitsForItsTurns` | `OneAfterAnother` |

The inductive invariants, which are theorems of their own (`ChainInvariant`,
`LinkInductive`, `ScheduleInductive`, `MessagesInductive`, `StartsInductive`,
`PendingInductive`, `ResultsInductive`, `RestInductive`,
`RegistryInductive`, `FamilyInductive`, `BurialInductive`, `QueueInductive`, `OrderInductive`,
`TellInductive`, `FilesInductive`, `UpdateInductive`, `PiInductive`, `AgyInductive`,
`ChatsInductive`):

**The lock.** `IInv` adds to exclusion that tickets of a key are distinct numbers up to
`issued`, that a call is chained on the one with the ticket before its own or on nothing
if that had left, and that the map's entry is the newest call unless it has left.
Exclusion alone is not inductive: that the predecessor has cleared says nothing of older
calls without the chain. For the refinement, `NumbersHeld` says that the numbers in use
are a run without gaps, so that the calls sorted by number are the abstract queue: a
call appends, `Clear` removes the head, every other step stutters.

**The link.** `Linked`: until the server closes, the living transport is `current` and the
restart timer is set exactly while there is none. `Reconciling`: a run, retry or open
gate of the newest generation is about the transport that serves. The central lemma is
that a report leaves nothing of the newest generation under way.

**The scheduler.** `Watched`: a Turn that was started with automatic stop, whose result
was not lost and that has not ended without the marker, is either the one the row names
or the one a job is about to name, and a job that sends has found every older one
without it. `Identified`: what carries the id of the row agrees with it. `Fresh`: a prompt
is sent only by the job of the interval that was claimed.

**Messages of a session.** `AtMostOnce` and `NotAppliedIsTrue` say where messages ended,
the invariant where they may be. A message goes from a waiting call to the holder of
the lock, to the App Server and, if its result is lost, to what is uncertain
(`OneCarrier`, `UnsentIsNowhere`); what the App Server was asked agrees with what its
sender or the uncertain operation stands for (`AskedAsSent`, `AppliedWhereSent`); caches,
answers and lines name Turns that exist (`KnownTurns`); and a resolution decides on what
it found uncertain, by a snapshot that no outstanding request can make out of date
(`ResolvesWhatItFound`, `ResolvesByTheTruth`). The last one carries `TruthfulRefusal`:
while the resolution reads, the connection has one outstanding request, and it is the
read. What waits in `strays` is of an earlier connection, and only a shared server has
any; when it is served, its message leaves the invariant for `lateMsgs` (`TimelyMsgs`).

**One start at a time.** `startTurn` asks after `assertNoActiveTurn`, which sees only the
runtime; a Turn it does not see may be in progress, its start still in the wire, or its
news about to be handled. `StartsAreGuarded` says of every place `e` in the wire where
such news is, or of its end while a Turn is in progress that nothing tells of: until
the line at `e` is handled, the guard refuses by the runtime (and no line before `e`
clears it), by the uncertain start, or because the response of the start that made the
Turn comes first. To keep it one needs that one line tells of a start and no end of the
Turn follows it while it goes on (`OneAtATime`), that past the guard nothing runs
(`NothingRuns`), that a snapshot which may clear the runtime was read after all news of
starts and shows a Turn that is in progress (`ReadsAreFresh`), that a start whose
asker is gone is uncertain (`OrphansAreUncertain`), and what a lost connection leaves
(`LostIsSilent`). All of it is said of Turns that are not `late`
(`IsLive`, `IsNews`). One lemma per action, under it one step per conjunct; lines are removed
from the front and appended at the end of the wire, and each has a lemma that moves the
conjuncts over it.

**Unknown results.** `QuietChild` says that the App Server is a child that ends with its
connection, answers mutations before their watchdog and announces nothing on resume:
`SharedServer`, `SlowServer` and `Announces` are all `FALSE`, as in `turn_stdio`; how its
output is cut into chunks (`BatchedLines`) is left open, here and below. Findings 4 and 5 are why it is
there. `StaysDisconnected` by itself is not inductive: an announcement, the end of a Turn
or a late start would change the runtime. `PendingInvariant` excludes them: while a result
is unknown, no Turn goes on, no request that makes one is out, no line but a response is
in the wire, and the runtime has the baseline of the service.

**What is told as applied.** A resolution calls an uncertain start applied when a snapshot
shows a Turn after its baseline. That is true if the baseline was the last Turn and
nothing else made one since (`BaselinesAreLast`), and the baseline was the last if the
snapshot under it was complete (`CacheIsComplete`), which a start of a session nobody has
read cannot know: `HistoryKnown` (`~ColdSend \/ ~Paginated`) is the negation of finding
3. Snapshots are complete because a response that has the history was made by the server
while nothing else could be started (`ReadsAreWhole`), and an answered start enters its
own Turn (`Unanswered` until then). The output of a transport that a watchdog closed
breaks the property (section 3), and the argument builds on `PendingInvariant`: so
`QuietChild` is assumed as well.

**What is shown at rest.** `QuiescentTruth` speaks of a wire without lines; to reach one,
lines must have been handled that change what the runtime shows. `RestInvariant` says it of
every place in the wire: whatever makes the runtime show a Turn - its own state, the
response of a start that waits to be continued, a line on its way - is followed by the line
of an end once no Turn is in progress (`EndsAreTold`), or is about a Turn that ended before
`startTurn` went on: the response of a start whose end comes in the same chunk is followed
by that end until it is handled, and then the Turn is in `overtaken` (`StartsEnd`). New lines go to the end of the wire,
so an end that is told last covers everything before it, and removing the first line moves
every place by one. What the connection cannot hear (the thread is not subscribed, or the
connection is down) it does not show, and nothing on its way would (`UnheardIsNotShown`);
a Turn in progress is subscribed to (`ChildEnds`). The third way to show a Turn is a
settled steer, whose Turn the snapshot has as running: here the steer was lost with the
process, so its Turn has ended, and the response that settles it says so (`SteersAreOver`).
`OrderlyChild` (`~SharedServer /\ ~SlowServer`) leaves batches, announcements,
pagination and cold prompts open; TLC has a counterexample against each of its two parts
(section 3).

**The registry.** A thread without an entry is as if it never ran, what waits for a
request is live and hints at a Turn (`WaitingIsLive`), a request has one owner and its card
is answerable (`OneOwner`), only sessions and registered side chats are waited on
(`AwaitsOwned`), and a removed thread waits for what it was asked after its removal
(`GoneWaitRevived`).

**The sessions of a project.** That an entry has no row while its outcome is open
(`OpenIsUnmapped`) and that an archive carried out here is one there, or is of a thread
without a rollout (`DeadIsOver`), need each other and three facts: before the answer of a
creation nobody but its operation knows the thread (`BeginsUnknown`), what a scan or a
recovery has found was written by the App Server and so survives it (`FoundIsWritten`), and
without a connection nobody waits for one (`LostIsOver`). `ScansUndoNothing` adds that no
step but the end of a session's own recovery takes the tombstone of an archive away
(`Buried`): a creation under way has the lock of its project and no row (`BusyIsUnmapped`),
so nobody archives its thread; a recovery that is at work met a creation that is over
(`RecoversWhatIsOver`); and an archive is at one of its stages (`OneStage`), also while the
refusal of one without a rollout waits for `unsubscribe`. How slow a creation is does not
matter.

**The queue.** A message the server remembers nothing of, or begins with, is in no Turn;
neither is an uncertain one without a new Turn (`OnceInvariant`). For the order: the queue
has each item once and the untouched in order, what is asked for, begun or answered is
the head or was touched, an answer ends its request, and no Turn is of an item after one
that is still queued (`OrderInvariant`). That the page asks for nothing while a Turn goes on
which it was told its queue had started (`OneAfterAnother`) depends on what it has still to
hear. `TellInvariant` has the wire in the order of what happened: the last event of a kind
says what is so now, and what the page will believe after each prefix of the wire is what
it believes folded over it. An answer that names a Turn reaches the page when it has seen
the Turn or while it still takes the session for idle. In the second case, between the
answer and the event that shows the Turn, the barrier keeps the queue; and it is released
only by a Turn that has come and gone, or by the end of what it waits for. The page asks
alone, so no other request of the queue can come between.

**The parts of the service.** A behaviour of `MCServiceParts` is one of each of its parts, since
the others rest; the invariants are then those of the parts.
- Attachments (`FilesInvariant`): a message on its way has claimed each of its files or has
  it in `todo` or `seen`, unless the claim was overtaken (`Claimed`); nobody writes over an
  upload (`WritersApart`); and no claim or release goes on of a message that the App Server has
  or may have (`CountsAtRest`). `SentStays` alone says nothing of a prompt between claim and answer.
- Update (`UpdateInvariant`): each place of the task has its status in memory and on disk, and a
  file that says "restarting" or "succeeded" is true of the build, so that a start after any
  crash, which has only the file, reports what is so.
- pi (`PiInvariant`): who lives is who the two maps name, never both; an operation that got
  beyond the opening is not about a process that is being opened, so that what fails in
  between takes no Turn along; and the dead have nothing left.
- agy (`AgyInvariant`): types and `OneAtATime`, which is inductive, with a lemma for each way in
  which a process and its helper end.
- Side chats (`ChatsInvariant`): every ephemeral thread is a side chat, or of one creation, or to
  be cleaned up, and one of them only; a session has one chat or one creation; what is
  registered is loaded while the connection is up, and while it is being cleared all of it is
  doomed. A restart is asked for with the lock of the project and looks at the whole registry,
  but not at threads: that nobody is responsible for a thread outside of it is what
  `RecoverySparesOthers` needs.

**Small parts, for all constants.** `small_parts` checks these for one instance; the theorems are
about any that satisfies the premise.
- Requests (`RequestConstants`: every call has its routes and is not the one that loads the page). A key that was carried out has
  its result, or one call that is carrying it out; a call is repeated only after its first
  request was turned away before a route, and then nothing of it is under way.
- Answers (`AnswerKinds` are kinds of requests). What a tab submits was entered into the card it
  shows, and a submission that reached the App Server was the first, because the request is
  looked up and closed in one step.
- Stopping a Turn (`TurnLimit \in Nat`). When the end of a Turn is among the lines, all that is
  known or comes before it is of Turns that are over; who was shown a Turn sees one that runs
  or is over; and what says that a Turn is in progress is followed by its end.
- Commands. A signal is sent to the group, and the result is given when the command has ended
  and nobody holds a pipe; a process may close its own and go on.
- Files in the code view (`Texts # {}`). Who writes holds the file's lock, and what is about to
  be renamed was compared with the disk; only another program can come between.
- Titles. What a title thread says comes after the line of its start, or the thread is known;
  a thread that is live is known or its start is under way.
- Notices. A tab whose switch is still on was not told yet, and the answer to an unlock of an
  older version stops nothing.
- Metrics (`MetricConstants`: times are natural numbers). A reading was made since its sample
  began, and a sample ends within a window of its beginning.
- Titles and Goals in the list (`DetailConstants`: the slots of loads are disjoint). What a load
  was told is of a life of the session since it began (`WorkFits`), and each request it sent
  has one answer at most (`AnsweredOnce`); so one that is of the present life when it ends has
  read only that. A read under the lock is not compared with the life when it ends: it is of
  the present one because a session that goes meanwhile is archived at the App Server, which
  refuses what is left (`ReadIsOfTheLiving`). A title that may go out is of a session without
  a user's name: who has the lock read the name after the last rename (`TitleIsWanted`).

**Only model-checked.**
- Liveness (`AllKeysComeFree`, `NothingIsHeldForEver`, `EndedTurnIsShown`, `ConfirmationPauses`,
  `RecoveryEnds`, `QueueMoves`, `PageGetsInStep`, `ChatsCostNothing`, `PartsRecover`) and the
  absence of deadlock: the prover has no rules for fairness and ENABLED.
- That `StaysDisconnected`, `BlockedIsOffered` and `AppliedIsTrue` hold in some
  environments beyond `QuietChild` (section 3).
- `ShownIsTrue`, whose definitions fold and merge texts and events (its conjunct on side chats
  is proved); the action property `OverIsOver` within `PageGetsInStep`; and the other parts of
  `small_parts`. Of these, `HistoryCache`, `AgentMessages`, `LocalFiles`, `AsyncQuestions` and
  `ForkTrees` filter or fold sequences, of which the prover knows too little.
- What recursive definitions compute for every input (texts in `StreamedText` and
  `AgentMessages`): induction over data is beyond the prover here.

The type invariants of `KeyedLock`, `AppServerLink`, `PromptScheduler`, `TurnLifecycle`,
`RuntimeEvents` and, as far as the argument needs them, `ComposerQueue` are proved and
therefore not among the runs; the others are conjuncts of checked properties.

## 6. What is next

1. `StaysDisconnected` and `BlockedIsOffered` each in its own environment: both follow now
   from one invariant that assumes `QuietChild`.
2. The remaining parts of `small_parts` that need no filters or folds: `Drafts`,
   `SessionLists`, `TokenLedger`, `StoredSettings`, `BackendSwitch`, `UpdatePage`.
3. `OverIsOver` inside `PageGetsInStep`, and `ShowsOneMoment` of `LiveEvents`, whose replay is a
   fold.

## 7. Not modelled, and why

- Generated types of the protocol (`packages/codex-schema`): no behaviour.
- Rendering, layout, panes, search, the settings page, projections of items: stateless or
  without state that others depend on.
- Projects in the page and the internals of the indexer's pagination
  (`project-indexer.ts:37-160`): scans are modelled by the pages they return.
- Preferences, authentication, static files, path checks, image conversion: I/O.
- The database beyond its rows: statements are synchronous.
- Two things of the web server that are forgotten: the timer that forgets a message
  after five minutes and runs on after a resolution (SS:1821), and the uncertain
  operations of sessions, which are in memory only (SS:376). A restart of the web server
  is modelled for the scheduler, the update, the backends and the attachments.
