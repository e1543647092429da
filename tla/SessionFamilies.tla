---- MODULE SessionFamilies ----
(*
Which sessions a project has: their creation and Fork, whose outcome a
lost connection leaves unknown, the recovery that settles it, archives,
moves, removal of projects, and the scans of the ProjectIndexer that
write the same rows of the database at any time.

A child is the creation that asks for it and the thread the App Server
makes for that thread source.  The locks of a project and of a thread
are free or held (KeyedLock has their queues); an operation that does
not wait inside its lock is one action.  Responses come in the order
the App Server decides them, so that a read and what is done with it
are one action, unless another wait comes between.
*)
EXTENDS Naturals, FiniteSets

CONSTANTS
    Projects, First, Existing, Children, NoProject, NoThread,
    Kinds,       \* kinds of creation: "session", "emptyFork", "fork"
    SlowCreations,  \* a creation may outlast the deadline of its recovery
    MaxLosses, MaxFaults,  \* bounds: connections lost, other failures
    MaxMoves,    \* bound: moves of sessions and removals of projects
    MaxScans     \* bound: scans of all sessions

Threads == Existing \cup Children

ASSUME FamilyConstants ==
    /\ First \in Projects /\ Existing \cap Children = {} /\ NoProject \notin Projects /\ NoThread \notin Threads
    /\ Kinds \subseteq {"session", "emptyFork", "fork"}
    /\ SlowCreations \in BOOLEAN
    /\ MaxLosses \in Nat /\ MaxFaults \in Nat /\ MaxMoves \in Nat /\ MaxScans \in Nat

VARIABLES
    srv,        \* App Server: what it has of a thread
    row,        \* the thread's row of project_sessions
    projects,   \* the rows of projects
    adding,     \* projects whose first scan is not done
    home,       \* the project whose directory is the thread's cwd
    tombs,      \* archivedSessions of the indexer
    unsure,     \* uncertainArchives
    archiving,  \* threads whose archive waits for the App Server, in their lock
    dropping,   \* those of them it has refused as not materialized: unsubscribe is awaited
    entry,      \* uncertainSessions and uncertainForks, with the thread source
                \* marked pending in the indexer for as long
    creating,   \* where the operation that creates is
    rec,        \* the childRecovery pass under way
    scan,       \* the performScanAll under way
    link,       \* "down", the steps of a reconciliation, "up" with the gate open
    losses, faults, moves, scans,  \* history: bounded events
    dead,       \* history: threads whose archive was carried out, or taken for it
    unwritten,  \* history: those of them that were refused as not materialized
    raised      \* history: those that the end of their own recovery wrote again, or whose
                \* tombstone it took away

server == <<srv, link, losses>>
table == <<row, projects, adding, home>>
hidden == <<tombs, unsure, archiving, dropping>>
fates == <<dead, unwritten, raised>>
marks == <<hidden, fates>>
counts == <<faults, moves, scans>>
vars == <<server, table, marks, entry, creating, rec, scan, counts>>

NoRow == [project |-> NoProject, origin |-> "none"]
NoEntry == [in |-> FALSE, kind |-> "session", project |-> NoProject, parent |-> NoThread,
            deadline |-> "none", background |-> FALSE, due |-> FALSE, seen |-> FALSE]
NoPass == [visited |-> {}, on |-> FALSE, child |-> NoThread, at |-> "idle", final |-> FALSE, pending |-> FALSE]
NoScan == [on |-> FALSE, page |-> {}, roots |-> {}, thread |-> NoThread, target |-> NoProject]

Init ==
    /\ projects = {First}
    /\ home = [t \in Threads |-> IF t \in Existing THEN First ELSE NoProject]
    /\ row = [t \in Threads |-> IF t \in Existing THEN [project |-> First, origin |-> "discovered"] ELSE NoRow]
    /\ srv = [t \in Threads |-> IF t \in Existing THEN "listed" ELSE "none"]
    /\ adding = {} /\ tombs = {} /\ unsure = {} /\ archiving = {} /\ dropping = {}
    /\ dead = {} /\ unwritten = {} /\ raised = {}
    /\ entry = [c \in Children |-> NoEntry]
    /\ creating = [c \in Children |-> "no"]
    /\ rec = NoPass /\ scan = NoScan /\ link = "up"
    /\ losses = 0 /\ faults = 0 /\ moves = 0 /\ scans = 0

----
(* Locks and rows *)

Connected == link # "down"
Mapped(t) == row[t] # NoRow
Busy(c) == creating[c] \in {"asked", "goal", "rolling"}

HeldProjects == {entry[c].project : c \in {d \in Children : Busy(d)}}
                \cup (IF rec.at = "goal" THEN {entry[rec.child].project} ELSE {})
HeldByArchive == archiving \cup dropping
HeldThreads == HeldByArchive
               \cup {entry[c].parent : c \in {d \in Children : Busy(d)}}
               \cup (IF rec.at = "goal" THEN {entry[rec.child].parent} ELSE {})

\* upsertProjectSession: a row the user moved keeps its project, a row with an
\* origin of its own keeps that.
ExcludedProject(t, p) == p                                           \* mutant
UpsertedProject(t, p) == IF row[t].origin = "manual" THEN row[t].project ELSE p
Upsert(t, p, origin) ==
    row' = [row EXCEPT ![t] = [project |-> UpsertedProject(t, p),
                               origin |-> IF @.origin \in {"created", "forked", "manual"} THEN @.origin ELSE origin]]

\* discoveryBlocked
BlockedByTombstone(t) == t \in tombs                                  \* mutant
DiscoveryBlocked(t) == t \in tombs \/ (t \in Children /\ entry[t].in)

Fail == faults < MaxFaults /\ faults' = faults + 1

----
(* createSession and fork *)

\* The operation has its locks; the entry and the mark on the thread source are
\* there before the request is.
Create(c, kind, p, parent) ==
    /\ link = "up" /\ creating[c] = "no" /\ p \in projects \ HeldProjects
    /\ IF kind = "session" THEN parent = NoThread
       ELSE parent \in Existing \ HeldThreads /\ row[parent].project = p
    /\ entry' = [entry EXCEPT ![c] = [NoEntry EXCEPT !.in = TRUE, !.kind = kind, !.project = p, !.parent = parent]]
    /\ creating' = [creating EXCEPT ![c] = "asked"]
    /\ home' = [home EXCEPT ![c] = p]
    /\ UNCHANGED <<server, row, projects, adding, marks, rec, scan, counts>>

\* The App Server makes the thread; an empty one is listed only later, if at all.
ServerCreates(c) ==
    /\ Connected /\ creating[c] = "asked" /\ srv[c] = "none"
    /\ \E s \in {"listed", "unlisted"} : srv' = [srv EXCEPT ![c] = s]
    /\ UNCHANGED <<link, losses, table, marks, entry, creating, rec, scan, counts>>
Materialize(t) ==
    /\ Connected /\ srv[t] = "unlisted" /\ srv' = [srv EXCEPT ![t] = "listed"]
    /\ UNCHANGED <<link, losses, table, marks, entry, creating, rec, scan, counts>>

\* handleEvent of thread/started with the source of an entry.
ThreadStarted(c) ==
    /\ Connected /\ srv[c] # "none" /\ entry[c].in /\ ~entry[c].seen
    /\ entry' = [entry EXCEPT ![c].seen = TRUE]
    /\ UNCHANGED <<server, table, marks, creating, rec, scan, counts>>

Settled(c) == entry' = [entry EXCEPT ![c] = [@ EXCEPT !.in = FALSE, !.seen = FALSE]]
OriginOf(c) == IF entry[c].kind = "session" THEN "created" ELSE "forked"

\* rollbackCreatedThread: the row goes and the thread is archived.
Rollback(c) ==
    /\ creating' = [creating EXCEPT ![c] = "rolling"]
    /\ row' = [row EXCEPT ![c] = NoRow]

\* finalizeCreatedSession and finalizeFork for the operation itself: the database
\* refuses the row of a project that is gone.
Finalize(c) ==
    \/ /\ entry[c].project \in projects
       /\ Upsert(c, entry[c].project, OriginOf(c)) /\ Settled(c)
       /\ creating' = [creating EXCEPT ![c] = "done"] /\ UNCHANGED faults
    \/ /\ \/ entry[c].project \notin projects /\ UNCHANGED faults
          \/ Fail
       /\ Rollback(c) /\ entry' = [entry EXCEPT ![c].seen = TRUE]

CreateAnswered(c) ==
    /\ Connected /\ creating[c] = "asked"
    /\ \/ /\ srv[c] # "none" /\ entry[c].kind = "session" /\ Finalize(c)
       \/ /\ srv[c] # "none" /\ entry[c].kind # "session"
          /\ creating' = [creating EXCEPT ![c] = "goal"]
          /\ entry' = [entry EXCEPT ![c].seen = TRUE] /\ UNCHANGED <<row, faults>>
       \/ /\ srv[c] = "none" /\ Fail /\ Settled(c)
          /\ creating' = [creating EXCEPT ![c] = "failed"] /\ UNCHANGED row
    /\ UNCHANGED <<server, projects, adding, home, marks, rec, scan, moves, scans>>

\* The Goal of a Fork is set or cleared before its row is written.
GoalSet(c) ==
    /\ Connected /\ creating[c] = "goal" /\ Finalize(c)
    /\ UNCHANGED <<server, projects, adding, home, marks, rec, scan, moves, scans>>

\* retainUncertainChild
Retained(c) ==
    /\ entry' = [entry EXCEPT ![c] = [@ EXCEPT !.background = TRUE, !.deadline = "set", !.due = FALSE]]
    /\ creating' = [creating EXCEPT ![c] = "unknown"]

RolledBack(c) ==
    /\ Connected /\ creating[c] = "rolling"
    /\ \/ /\ srv' = [srv EXCEPT ![c] = "archived"] /\ Settled(c)
          /\ creating' = [creating EXCEPT ![c] = "failed"] /\ UNCHANGED <<tombs, faults>>
       \/ /\ Fail /\ Retained(c) /\ tombs' = tombs \cup {c} /\ UNCHANGED srv
    /\ UNCHANGED <<link, losses, table, unsure, archiving, dropping, fates, rec, scan, moves, scans>>

----
(* archive, moveToProject, removeProject, addProject *)

\* The tombstone is there before the request is.  What became of an earlier archive
\* of the thread no longer matters.
Archive(t) ==
    /\ link = "up" /\ Mapped(t) /\ t \notin HeldThreads /\ srv[t] # "archived"
    /\ archiving' = archiving \cup {t} /\ tombs' = tombs \cup {t}
    /\ dead' = dead \ {t} /\ unwritten' = unwritten \ {t} /\ raised' = raised \ {t}
    /\ UNCHANGED <<server, table, unsure, dropping, entry, creating, rec, scan, counts>>
ServerArchives(t) ==
    /\ Connected /\ t \in archiving /\ srv[t] \in {"unlisted", "listed"}
    /\ srv' = [srv EXCEPT ![t] = "archived"]
    /\ UNCHANGED <<link, losses, table, marks, entry, creating, rec, scan, counts>>

\* removeProjectSession and clearSessionCaches
CarriedOut(ts) ==
    /\ row' = [t \in Threads |-> IF t \in ts THEN NoRow ELSE row[t]]
    /\ dead' = dead \cup ts
ArchiveAnswered(t) ==
    /\ Connected /\ t \in archiving /\ archiving' = archiving \ {t}
    /\ \/ srv[t] = "archived" /\ CarriedOut({t}) /\ UNCHANGED <<tombs, dropping, unwritten, faults>>
       \/ srv[t] # "archived" /\ Fail /\ tombs' = tombs \ {t} /\ UNCHANGED <<row, dropping, dead, unwritten>>
       \/ /\ srv[t] \in {"none", "unlisted"} /\ dropping' = dropping \cup {t}
          /\ UNCHANGED <<row, tombs, dead, unwritten, faults>>
    /\ UNCHANGED <<server, projects, adding, home, unsure, raised, entry, creating, rec, scan, moves, scans>>

\* A thread without a rollout cannot be archived: it is unsubscribed from, whatever
\* comes of that, and goes as if it had been archived.
ArchiveUnwritten(t) ==
    /\ t \in dropping /\ dropping' = dropping \ {t}
    /\ CarriedOut({t}) /\ unwritten' = unwritten \cup {t}
    /\ UNCHANGED <<server, projects, adding, home, tombs, unsure, archiving, raised, entry, creating, rec, scan, counts>>

MoveToProject(t, p) ==
    /\ link = "up" /\ Mapped(t) /\ t \notin HeldThreads
    /\ p \in projects /\ {p, row[t].project} \cap HeldProjects = {}
    /\ moves < MaxMoves /\ moves' = moves + 1
    /\ row' = [row EXCEPT ![t] = [project |-> p, origin |-> "manual"]]
    /\ UNCHANGED <<server, projects, adding, home, marks, entry, creating, rec, scan, faults, scans>>

\* deleteProject; the threads' caches go with it, and with them uncertain archives.
Delete(p) ==
    LET ts == {t \in Threads : row[t].project = p}
    IN  /\ projects' = projects \ {p} /\ adding' = adding \ {p}
        /\ row' = [t \in Threads |-> IF t \in ts THEN NoRow ELSE row[t]]
RemoveProject(p) ==
    LET ts == {t \in Threads : row[t].project = p}
    IN  /\ link = "up" /\ p \in projects \ HeldProjects /\ ts \cap HeldThreads = {}
        /\ moves < MaxMoves /\ moves' = moves + 1
        /\ Delete(p) /\ unsure' = unsure \ ts
        /\ UNCHANGED <<server, home, tombs, archiving, dropping, fates, entry, creating, rec, scan, faults, scans>>

\* addProject inserts the row, then scans; what fails deletes it, in nobody's lock.
AddProject(p) ==
    /\ link = "up" /\ p \notin projects /\ \A t \in Threads : home[t] # p
    /\ projects' = projects \cup {p} /\ adding' = adding \cup {p}
    /\ UNCHANGED <<server, row, home, marks, entry, creating, rec, scan, counts>>
AddProjectFails(p) ==
    /\ p \in adding /\ ~Connected /\ Delete(p)
    /\ UNCHANGED <<server, home, marks, entry, creating, rec, scan, counts>>

----
(* ProjectIndexer *)

Discovered(t) == IF Mapped(t) THEN row[t].origin ELSE "discovered"

\* scanRoot: the sessions whose cwd is the project's root, in the project's lock.
ScanRoot(p) ==
    LET found == {t \in Threads : srv[t] = "listed" /\ home[t] = p /\ ~DiscoveryBlocked(t)
                                  /\ ~(row[t].origin = "manual" /\ row[t].project # p)}
    IN  /\ Connected /\ p \in projects \ HeldProjects
        /\ \E t \in found : row[t].project # p
        /\ row' = [t \in Threads |-> IF t \in found THEN [project |-> p, origin |-> Discovered(t)] ELSE row[t]]
        /\ adding' = adding \ {p}
        /\ UNCHANGED <<server, projects, home, marks, entry, creating, rec, scan, counts>>

\* performScanAll: the projects and a page of sessions, ...
ScanAll ==
    /\ Connected /\ ~scan.on /\ scans < MaxScans /\ scans' = scans + 1
    /\ scan' = [NoScan EXCEPT !.on = TRUE, !.roots = projects, !.page = {t \in Threads : srv[t] = "listed"}]
    /\ UNCHANGED <<server, table, marks, entry, creating, rec, faults, moves>>

\* ... then for each the mapping it has, ...
ScanThread(t) ==
    /\ scan.on /\ scan.thread = NoThread /\ t \in scan.page
    /\ scan' = IF DiscoveryBlocked(t) \/ home[t] \notin scan.roots THEN [scan EXCEPT !.page = @ \ {t}]
               ELSE [scan EXCEPT !.page = @ \ {t}, !.thread = t,
                                 !.target = IF row[t].origin = "manual" THEN row[t].project ELSE home[t]]
    /\ UNCHANGED <<server, table, marks, entry, creating, rec, counts>>

\* ... and, in the locks of its projects, all of it once more and the row.
ScanDrops(t) ==
    LET target == IF row[t].origin = "manual" THEN row[t].project ELSE home[t]
    IN  DiscoveryBlocked(t) \/ home[t] \notin projects
        \/ target \notin {home[t], scan.target} \/ target \notin projects
ScanUpsert ==
    LET t == scan.thread
    IN  /\ t # NoThread /\ {home[t], scan.target} \cap HeldProjects = {}
        /\ IF ScanDrops(t) THEN UNCHANGED row
           ELSE Upsert(t, IF row[t].origin = "manual" THEN row[t].project ELSE home[t], Discovered(t))
        /\ scan' = [scan EXCEPT !.thread = NoThread, !.target = NoProject]
        /\ UNCHANGED <<server, projects, adding, home, marks, entry, creating, rec, counts>>

----
(* recoverChildren *)

Entries == {c \in Children : entry[c].in}
ToVisit == Entries \ rec.visited    \* entries that are added meanwhile are visited, too
PassOver == IF rec.on THEN rec ELSE [NoPass EXCEPT !.on = TRUE]

\* scanComplete starts a pass, or joins the one under way; a scan that has more
\* pages to read when the connection is lost ends without.
ScanComplete ==
    /\ scan.on /\ scan.thread = NoThread /\ scan.page = {}
    /\ scan' = NoScan
    /\ rec' = IF Connected THEN PassOver ELSE rec
    /\ UNCHANGED <<server, table, marks, entry, creating, counts>>

\* The timer of a second, as long as an entry is in the background.
HasBackgroundChildRecovery == \E c \in Entries : entry[c].background
RecoverDeferred ==
    /\ Connected /\ ~rec.on /\ HasBackgroundChildRecovery
    /\ rec' = PassOver
    /\ UNCHANGED <<server, table, marks, entry, creating, scan, counts>>

\* restoreSessionDiscovery at the end of a recovery.
Raises ==
    raised' = raised \cup {t \in dead : row'[t] # row[t]} \cup ((dead \cup unsure \cup HeldByArchive) \cap (tombs \ tombs'))

Abandoned(c) ==
    \/ entry[c].project \notin projects
    \/ entry[c].parent # NoThread /\ row[entry[c].parent].project # entry[c].project

NextChild(pending) == rec' = [rec EXCEPT !.visited = @ \cup {rec.child}, !.child = NoThread, !.at = "idle",
                                         !.final = FALSE, !.pending = @ \/ pending]

\* An entry whose family is gone, or whose time in the background is over.
Abandon(c) ==
    /\ rec.on /\ rec.at = "idle" /\ c \in ToVisit
    /\ \/ Abandoned(c) /\ Settled(c) /\ UNCHANGED tombs
       \/ /\ ~Abandoned(c) /\ entry[c].background /\ entry[c].due
          /\ Settled(c) /\ tombs' = IF entry[c].seen THEN tombs \ {c} ELSE tombs
    /\ rec' = [rec EXCEPT !.visited = @ \cup {c}]
    /\ UNCHANGED <<server, table, unsure, archiving, dropping, dead, unwritten, creating, scan, counts>>
    /\ Raises

\* A thread nobody has told of is looked for by its source; one that is not
\* found in time never was, or, of a Fork with history, may still come.
Find(c) ==
    LET e == entry[c]
        timed == IF e.deadline = "none" THEN "set" ELSE e.deadline
    IN  /\ Connected /\ rec.on /\ rec.at = "idle" /\ c \in ToVisit
        /\ ~Abandoned(c) /\ ~(e.background /\ e.due)
        /\ IF e.seen \/ srv[c] = "listed"
           THEN /\ entry' = [entry EXCEPT ![c] = [@ EXCEPT !.seen = TRUE, !.deadline = timed]]
                /\ rec' = [rec EXCEPT !.child = c, !.at = "lock", !.final = e.background \/ timed = "over"]
           ELSE IF timed # "over"
           THEN /\ entry' = [entry EXCEPT ![c].deadline = timed]
                /\ rec' = [rec EXCEPT !.visited = @ \cup {c}, !.pending = TRUE]
           ELSE /\ IF e.kind = "fork" THEN entry' = [entry EXCEPT ![c].background = TRUE] ELSE Settled(c)
                /\ rec' = [rec EXCEPT !.visited = @ \cup {c}]
        /\ UNCHANGED <<server, table, marks, creating, scan, counts>>

\* How tryRecoverObservedSession and tryRecoverObservedFork end: finalized or
\* discarded, or to be tried again.
Recovered(c) ==
    /\ Settled(c) /\ NextChild(FALSE)
    /\ tombs' = IF entry[c].background THEN tombs \ {c} ELSE tombs
NeverFinal == FALSE                                                   \* mutant
FinalAttempt == rec.final
TryAgain(c) ==
    IF FinalAttempt
    THEN /\ NextChild(FALSE)
         /\ IF entry[c].background THEN UNCHANGED <<entry, tombs>>
            ELSE /\ entry' = [entry EXCEPT ![c] = [@ EXCEPT !.background = TRUE, !.due = FALSE]]
                 /\ tombs' = tombs \cup {c}
    ELSE NextChild(TRUE) /\ UNCHANGED <<entry, tombs>>

\* In the locks of the project and of the parent.  A child with more Turns than the
\* Fork had is not recognised, and a thread that is archived may be read or not.
TryRecover ==
    LET c == rec.child
        e == entry[c]
    IN  /\ Connected /\ rec.at = "lock" /\ e.project \notin HeldProjects /\ e.parent \notin HeldThreads
        /\ \/ Abandoned(c) /\ Recovered(c) /\ UNCHANGED row
           \/ /\ ~Abandoned(c) /\ e.kind # "fork" /\ srv[c] = "listed"
              /\ Upsert(c, e.project, OriginOf(c)) /\ Recovered(c)
           \/ /\ ~Abandoned(c) /\ e.kind # "fork" /\ srv[c] # "listed" /\ TryAgain(c) /\ UNCHANGED row
           \/ /\ ~Abandoned(c) /\ e.kind = "fork" /\ (srv[c] \in {"none", "unlisted"} \/ Mapped(c))
              /\ TryAgain(c) /\ UNCHANGED row
           \/ /\ ~Abandoned(c) /\ e.kind = "fork" /\ srv[c] \in {"listed", "archived"}
              /\ rec' = [rec EXCEPT !.at = "goal"] /\ UNCHANGED <<row, entry, tombs>>
        /\ UNCHANGED <<server, projects, adding, home, unsure, archiving, dropping, dead, unwritten, creating, scan, counts>>
        /\ Raises

RecoverGoalSet ==
    LET c == rec.child
    IN  /\ Connected /\ rec.at = "goal"
        /\ IF entry[c].project \in projects THEN Upsert(c, entry[c].project, OriginOf(c)) /\ Recovered(c)
           ELSE rec' = NoPass /\ UNCHANGED <<row, entry, tombs>>
        /\ UNCHANGED <<server, projects, adding, home, unsure, archiving, dropping, dead, unwritten, creating, scan, counts>>
        /\ Raises

\* A request of the pass fails, and the pass with it.
PassFails ==
    /\ rec.on /\ rec' = NoPass
    /\ Fail \/ (~Connected /\ UNCHANGED faults)
    /\ UNCHANGED <<server, table, marks, entry, creating, scan, moves, scans>>

\* The end of the pass opens the gate, or asks the connection's recovery for a retry.
PassEnds ==
    /\ rec.on /\ rec.at = "idle" /\ ToVisit = {}
    /\ rec' = NoPass
    /\ link' = IF link = "children" THEN IF rec.pending THEN "archives" ELSE "up" ELSE link
    /\ UNCHANGED <<srv, losses, table, marks, entry, creating, scan, counts>>

----
(* The connection *)

\* The App Server is gone, and with it threads it never wrote: whoever waits for
\* it gets an error, the requests that change something one of unknown outcome.
Lose ==
    /\ Connected /\ losses < MaxLosses /\ losses' = losses + 1 /\ link' = "down"
    /\ srv' = [t \in Threads |-> IF srv[t] = "unlisted" THEN "none" ELSE srv[t]]
    /\ unsure' = unsure \cup archiving /\ archiving' = {}
    /\ LET kept == {c \in Children : creating[c] \in {"goal", "rolling"}}
       IN  /\ entry' = [c \in Children |->
                  IF ~Busy(c) THEN entry[c]
                  ELSE IF c \in kept THEN [entry[c] EXCEPT !.background = TRUE, !.deadline = "set", !.due = FALSE]
                  ELSE [entry[c] EXCEPT !.deadline = "set"]]
           /\ creating' = [c \in Children |-> IF Busy(c) THEN "unknown" ELSE creating[c]]
           /\ tombs' = tombs \cup kept
           /\ row' = [t \in Threads |-> IF t \in kept THEN NoRow ELSE row[t]]
    /\ rec' = IF rec.at = "goal" THEN NoPass ELSE rec
    /\ UNCHANGED <<projects, adding, home, dropping, fates, scan, counts>>

Reconnect ==
    /\ link = "down" /\ link' = "archives"
    /\ UNCHANGED <<srv, losses, table, marks, entry, creating, rec, scan, counts>>

\* recoverUncertainArchives, and the pass the reconciliation waits for.
NotListed == {t \in unsure : srv[t] # "listed"}
RecoverUncertainArchives ==
    /\ link = "archives" /\ link' = "children"
    /\ CarriedOut(NotListed) /\ tombs' = tombs \ (unsure \ NotListed) /\ unsure' = {}
    /\ rec' = PassOver
    /\ UNCHANGED <<srv, losses, projects, adding, home, archiving, dropping, unwritten, raised, entry, creating, scan, counts>>
\* The pass it waited for has failed.
Retry ==
    /\ link = "children" /\ ~rec.on /\ link' = "archives"
    /\ UNCHANGED <<srv, losses, table, marks, entry, creating, rec, scan, counts>>

\* The deadline of a recovery, and the end of its time in the background.  The
\* deadline is half a minute after a pass first met the entry; the requests of a
\* creation may take a minute each.
Deadline(c) ==
    /\ entry[c].in /\ entry[c].deadline = "set" /\ (Busy(c) => SlowCreations)
    /\ entry' = [entry EXCEPT ![c].deadline = "over"]
    /\ UNCHANGED <<server, table, marks, creating, rec, scan, counts>>
AbandonAt(c) ==
    /\ entry[c].in /\ entry[c].background /\ ~entry[c].due
    /\ entry' = [entry EXCEPT ![c].due = TRUE]
    /\ UNCHANGED <<server, table, marks, creating, rec, scan, counts>>

Creation(c) ==
    \/ \E kind \in Kinds, p \in Projects, parent \in Existing \cup {NoThread} : Create(c, kind, p, parent)
    \/ ServerCreates(c) \/ ThreadStarted(c) \/ CreateAnswered(c) \/ GoalSet(c) \/ RolledBack(c)
Recovery(c) == Abandon(c) \/ Find(c) \/ Deadline(c) \/ AbandonAt(c)
Passes == RecoverDeferred \/ TryRecover \/ RecoverGoalSet \/ PassFails \/ PassEnds
Session(t) ==
    \/ Materialize(t) \/ Archive(t) \/ ServerArchives(t) \/ ArchiveAnswered(t) \/ ArchiveUnwritten(t)
    \/ ScanThread(t)
    \/ \E p \in Projects : MoveToProject(t, p)
Project(p) == RemoveProject(p) \/ AddProject(p) \/ AddProjectFails(p) \/ ScanRoot(p)
Connection == Lose \/ Reconnect \/ RecoverUncertainArchives \/ Retry
Scan == ScanAll \/ ScanUpsert \/ ScanComplete

Next ==
    \/ \E c \in Children : Creation(c) \/ Recovery(c)
    \/ \E t \in Threads : Session(t)
    \/ \E p \in Projects : Project(p)
    \/ Passes \/ Connection \/ Scan

\* What the event loop, the App Server's answers and the timers bring about;
\* users, losses and failures come or do not.
Fairness ==
    /\ \A c \in Children :
          /\ WF_vars(ServerCreates(c) \/ CreateAnswered(c) \/ GoalSet(c) \/ RolledBack(c)) /\ WF_vars(Abandon(c) \/ Find(c))
          /\ WF_vars(Deadline(c)) /\ WF_vars(AbandonAt(c))
    /\ \A t \in Threads : WF_vars(ArchiveAnswered(t)) /\ WF_vars(ArchiveUnwritten(t))
          /\ WF_vars(ServerArchives(t)) /\ WF_vars(ScanThread(t))
    /\ WF_vars(ScanUpsert \/ ScanComplete) /\ WF_vars(RecoverDeferred)
    /\ WF_vars(TryRecover \/ RecoverGoalSet) /\ WF_vars(PassEnds) /\ WF_vars(rec.on /\ ~Connected /\ PassFails)
    /\ WF_vars(Reconnect) /\ WF_vars(RecoverUncertainArchives \/ Retry)

Spec == Init /\ [][Next]_vars /\ Fairness

----
TypeOK ==
    /\ srv \in [Threads -> {"none", "unlisted", "listed", "archived"}]
    /\ row \in [Threads -> [project : Projects \cup {NoProject},
                            origin : {"none", "discovered", "created", "forked", "manual"}]]
    /\ projects \subseteq Projects /\ adding \subseteq projects
    /\ tombs \cup unsure \cup archiving \cup dropping \cup dead \cup unwritten \cup raised \subseteq Threads
    /\ link \in {"down", "archives", "children", "up"}
    /\ creating \in [Children -> {"no", "asked", "goal", "rolling", "done", "failed", "unknown"}]

\* An archive is carried out here only if the App Server has carried it out, or has
\* refused it because the thread has no rollout: that one is only hidden, by its tombstone.
ArchivedHereIsArchived == \A t \in dead \ unwritten : srv[t] # "listed"

\* Whatever page of sessions a scan still holds, an archived session comes back
\* by none, unless the end of the session's own recovery has written its row once more
\* or taken its tombstone away (docs/V1_ACCEPTANCE.md:55 knows of no exception).
ScansRespectArchives ==
    [][\A t \in dead : ~Mapped(t) /\ row'[t] # NoRow => t \in raised']_vars

\* docs/V1_ACCEPTANCE.md:55: an archived session does not come back.
ArchivedStaysGone == \A t \in dead : ~Mapped(t)

\* A session the user has moved leaves its project by another move, or with its row.
MovedStaysMoved ==
    [][\A t \in Threads :
          row[t].origin = "manual" /\ row'[t] # NoRow /\ row'[t].project # row[t].project => moves' = moves + 1]_vars

\* Whatever the order of scans, recoveries and the user's own archives and moves, no
\* scan undoes what the user did last, but for the sessions in raised, and no move is
\* undone at all (project-indexer.ts 128-162, database.ts 138-168).
ScansUndoNothing == ScansRespectArchives /\ MovedStaysMoved

\* While the outcome of a creation is open, no scan takes its thread for a session
\* from elsewhere.
CreationKeepsOrigin == \A c \in Children : entry[c].in => row[c].origin # "discovered"

\* What a scan or a notification finds is taken for nothing else: neither an archive
\* that the App Server refused for one it carried out, nor a creation that is under way
\* for a session from elsewhere.
NothingIsMistaken == ArchivedHereIsArchived /\ CreationKeepsOrigin

\* Every recovery comes to an end.
RecoveriesEnd == \A c \in Children : entry[c].in ~> ~entry[c].in

\* Whatever is left to recover, the gate opens again.
GateOpensAgain == (link # "up") ~> (link = "up")

\* Recovery ends, of each creation and as a whole.
RecoveryEnds == RecoveriesEnd /\ GateOpensAgain

====
