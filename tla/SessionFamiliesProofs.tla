---- MODULE SessionFamiliesProofs ----
(*
Proofs about SessionFamilies.
  FamilyInvariant  what the rows, the entries of uncertain creations,
                   archives and finds of scans have to do with what the
                   App Server has; it carries NothingIsMistaken and
                   MovedStaysMoved in every environment
  BurialInvariant  an archive keeps its tombstone, unless the end of
                   the session's own recovery takes it away; with it
                   follows ScansUndoNothing, in every environment
and about what else a session is known by:
  TitleInvariant   threads that make titles stay hidden and are removed
                   (TitleWorker)
  DetailInvariant  late loads show nothing of an earlier life of a
                   session, and a user's name stays (SessionDetails)
*)
EXTENDS SessionFamilies, Sequences, TLAPS

Entry == [in : BOOLEAN, kind : {"session", "emptyFork", "fork"}, project : Projects \cup {NoProject},
          parent : Existing \cup {NoThread}, deadline : {"none", "set", "over"},
          background : BOOLEAN, due : BOOLEAN, seen : BOOLEAN]
Pass == [visited : SUBSET Children, on : BOOLEAN, child : Children \cup {NoThread},
         at : {"idle", "lock", "goal"}, final : BOOLEAN, pending : BOOLEAN]

FamilyTypes ==
  /\ TypeOK
  /\ home \in [Threads -> Projects \cup {NoProject}]
  /\ entry \in [Children -> Entry]
  /\ rec \in Pass /\ (rec.at # "idle" => rec.child \in Children)
  /\ DOMAIN scan = {"on", "page", "roots", "thread", "target"}
  /\ scan.page \subseteq Threads /\ scan.thread \in Threads \cup {NoThread}

\* Nobody waits for an App Server that is gone; what it never wrote is gone, too.
LostIsOver ==
  /\ link # "up" => archiving = {} /\ (\A c \in Children : ~Busy(c)) /\ \A t \in Threads : srv[t] # "unlisted"
  /\ link \in {"children", "up"} => unsure = {}

\* As long as a creation was not answered, nobody archives what does not exist.
BeginsUnknown ==
  \A c \in Children :
      /\ creating[c] = "no" => srv[c] = "none" /\ ~entry[c].in
      /\ creating[c] \in {"no", "asked"} /\ srv[c] = "none" =>
             c \notin archiving \cup dropping \cup unsure \cup dead /\ ~Mapped(c)
      /\ creating[c] = "goal" => srv[c] # "none"

\* The outcome of a creation is open until there is a row.
OpenIsUnmapped == \A c \in Children : entry[c].in => c \notin archiving \cup dropping \cup unsure \cup dead /\ ~Mapped(c)

\* What scans and recoveries have found was written by the App Server.
Written(t) == srv[t] \in {"listed", "archived"}
FoundIsWritten ==
  /\ \A t \in scan.page : Written(t)
  /\ scan.thread # NoThread => Written(scan.thread)
  /\ rec.at = "goal" => Written(rec.child)

DeadIsOver == \A t \in dead \ unwritten : srv[t] = "archived" \/ (srv[t] = "none" /\ ~Mapped(t))

FamilyInvariant ==
  FamilyTypes /\ LostIsOver /\ BeginsUnknown /\ OpenIsUnmapped /\ FoundIsWritten /\ DeadIsOver

----

\* A creation under way has the lock of its project and no row, so that nobody else
\* writes one, and nobody archives its thread.
BusyIsUnmapped ==
  \A c \in Children :
      /\ creating[c] # "no" => entry[c].project = home[c]
      /\ Busy(c) => c \notin archiving \cup dropping \cup unsure \cup dead /\ ~Mapped(c)

\* A recovery at work is of a creation that is over.
RecoversWhatIsOver ==
  rec.at # "idle" => creating[rec.child] # "no" /\ (rec.at = "goal" => ~Busy(rec.child))

\* An archive is at one of its stages.
OneStage ==
  /\ archiving \cap dropping = {} /\ archiving \cap unsure = {} /\ archiving \cap dead = {}
  /\ dropping \cap unsure = {} /\ dropping \cap dead = {} /\ unsure \cap dead = {}

\* An archive keeps its tombstone, but for what its own recovery does.
Buried == archiving \cup dropping \cup unsure \cup dead \subseteq tombs \cup raised

BurialInvariant == BusyIsUnmapped /\ RecoversWhatIsOver /\ OneStage /\ Buried

\* What a step makes of the entry of c; what it was asked for stays.
EntryBecomes(c, in, background, deadline) ==
  /\ entry' \in [Children -> Entry]
  /\ \A d \in Children \ {c} : entry'[d] = entry[d]
  /\ entry'[c].in = in /\ entry'[c].background = background /\ entry'[c].deadline = deadline
  /\ entry'[c].kind = entry[c].kind /\ entry'[c].project = entry[c].project /\ entry'[c].parent = entry[c].parent

LEMMA EntryChanges ==
  ASSUME FamilyTypes, NEW c \in Children, NEW deadline \in {"none", "set", "over"}
  PROVE  LET e == entry[c] IN
         /\ e \in Entry
         /\ Settled(c) => EntryBecomes(c, FALSE, e.background, e.deadline)
         /\ Retained(c) => EntryBecomes(c, e.in, TRUE, "set")
         /\ entry' = [entry EXCEPT ![c].seen = TRUE] => EntryBecomes(c, e.in, e.background, e.deadline)
         /\ entry' = [entry EXCEPT ![c].due = TRUE] => EntryBecomes(c, e.in, e.background, e.deadline)
         /\ entry' = [entry EXCEPT ![c].background = TRUE] => EntryBecomes(c, e.in, TRUE, e.deadline)
         /\ entry' = [entry EXCEPT ![c].deadline = deadline] => EntryBecomes(c, e.in, e.background, deadline)
         /\ entry' = [entry EXCEPT ![c] = [@ EXCEPT !.seen = TRUE, !.deadline = deadline]] =>
                EntryBecomes(c, e.in, e.background, deadline)
         /\ entry' = [entry EXCEPT ![c] = [@ EXCEPT !.background = TRUE, !.due = FALSE]] =>
                EntryBecomes(c, e.in, TRUE, e.deadline)
<1> DEFINE e == entry[c]
           Asked(f) == f \in Entry /\ f.kind = e.kind /\ f.project = e.project /\ f.parent = e.parent
           settled == [e EXCEPT !.in = FALSE, !.seen = FALSE]
           retained == [e EXCEPT !.background = TRUE, !.deadline = "set", !.due = FALSE]
           seen == [e EXCEPT !.seen = TRUE]
           due == [e EXCEPT !.due = TRUE]
           background == [e EXCEPT !.background = TRUE]
           timed == [e EXCEPT !.deadline = deadline]
           found == [e EXCEPT !.seen = TRUE, !.deadline = deadline]
           later == [e EXCEPT !.background = TRUE, !.due = FALSE]
<1>1. e \in Entry /\ entry \in [Children -> Entry] BY DEF FamilyTypes
<1>2. ASSUME NEW f, Asked(f), entry' = [entry EXCEPT ![c] = f]
      PROVE  EntryBecomes(c, f.in, f.background, f.deadline)
  BY <1>1, <1>2 DEF EntryBecomes
<1>3. /\ Asked(settled) /\ settled.in = FALSE /\ settled.background = e.background /\ settled.deadline = e.deadline
      /\ Asked(retained) /\ retained.in = e.in /\ retained.background = TRUE /\ retained.deadline = "set"
  BY <1>1 DEF Entry
<1>4. /\ Asked(seen) /\ seen.in = e.in /\ seen.background = e.background /\ seen.deadline = e.deadline
      /\ Asked(due) /\ due.in = e.in /\ due.background = e.background /\ due.deadline = e.deadline
      /\ Asked(background) /\ background.in = e.in /\ background.background = TRUE /\ background.deadline = e.deadline
  BY <1>1 DEF Entry
<1>5. /\ Asked(timed) /\ timed.in = e.in /\ timed.background = e.background /\ timed.deadline = deadline
      /\ Asked(found) /\ found.in = e.in /\ found.background = e.background /\ found.deadline = deadline
      /\ Asked(later) /\ later.in = e.in /\ later.background = TRUE /\ later.deadline = e.deadline
  BY <1>1 DEF Entry
<1>6. /\ Settled(c) => entry' = [entry EXCEPT ![c] = settled]
      /\ Retained(c) => entry' = [entry EXCEPT ![c] = retained]
      /\ [entry EXCEPT ![c].seen = TRUE] = [entry EXCEPT ![c] = seen]
      /\ [entry EXCEPT ![c].due = TRUE] = [entry EXCEPT ![c] = due]
      /\ [entry EXCEPT ![c].background = TRUE] = [entry EXCEPT ![c] = background]
      /\ [entry EXCEPT ![c].deadline = deadline] = [entry EXCEPT ![c] = timed]
      /\ [entry EXCEPT ![c] = [@ EXCEPT !.seen = TRUE, !.deadline = deadline]] = [entry EXCEPT ![c] = found]
      /\ [entry EXCEPT ![c] = [@ EXCEPT !.background = TRUE, !.due = FALSE]] = [entry EXCEPT ![c] = later]
  BY DEF Settled, Retained
<1> HIDE DEF settled, retained, seen, due, background, timed, found, later
<1>7. \A f \in {settled, retained, seen, due, background, timed, found, later} :
          Asked(f) /\ entry' = [entry EXCEPT ![c] = f] => EntryBecomes(c, f.in, f.background, f.deadline)
  BY <1>2
<1> HIDE DEF e, Asked
<1>8. /\ Settled(c) => EntryBecomes(c, FALSE, e.background, e.deadline)
      /\ Retained(c) => EntryBecomes(c, e.in, TRUE, "set")
  BY <1>3, <1>6, <1>7
<1>9. /\ entry' = [entry EXCEPT ![c].seen = TRUE] => EntryBecomes(c, e.in, e.background, e.deadline)
      /\ entry' = [entry EXCEPT ![c].due = TRUE] => EntryBecomes(c, e.in, e.background, e.deadline)
      /\ entry' = [entry EXCEPT ![c].background = TRUE] => EntryBecomes(c, e.in, TRUE, e.deadline)
  BY <1>4, <1>6, <1>7
<1>10. /\ entry' = [entry EXCEPT ![c].deadline = deadline] => EntryBecomes(c, e.in, e.background, deadline)
       /\ entry' = [entry EXCEPT ![c] = [@ EXCEPT !.seen = TRUE, !.deadline = deadline]] =>
              EntryBecomes(c, e.in, e.background, deadline)
       /\ entry' = [entry EXCEPT ![c] = [@ EXCEPT !.background = TRUE, !.due = FALSE]] =>
              EntryBecomes(c, e.in, TRUE, e.deadline)
  BY <1>5, <1>6, <1>7
<1> QED BY <1>1, <1>8, <1>9, <1>10 DEF e

Row == [project : Projects \cup {NoProject}, origin : {"none", "discovered", "created", "forked", "manual"}]

\* Only the rows of ts change.
RowsStay(ts) == row' \in [Threads -> Row] /\ \A t \in Threads \ ts : row'[t] = row[t]

LEMMA UpsertMeans ==
  ASSUME FamilyTypes, NEW t \in Threads, NEW p \in Projects,
         NEW origin \in {"none", "discovered", "created", "forked", "manual"}, Upsert(t, p, origin)
  PROVE  /\ RowsStay({t}) /\ (origin # "none" => row'[t].origin # "none")
         /\ row[t].origin = "manual" => row'[t] = row[t]
         /\ row[t].origin # "manual" => row'[t].origin # "manual" \/ origin = "manual"
         /\ row[t].origin # "manual" => row'[t].project = p
BY DEF FamilyTypes, TypeOK, Upsert, UpsertedProject, RowsStay, Row

\* A creation is finalized, or its row removed.
LEMMA FinalizeMeans ==
  ASSUME FamilyTypes, NEW c \in Children, Finalize(c)
  PROVE  /\ RowsStay({c})
         /\ \/ /\ EntryBecomes(c, FALSE, entry[c].background, entry[c].deadline)
               /\ creating' = [creating EXCEPT ![c] = "done"]
               /\ row'[c].origin # "none" /\ entry[c].project \in projects
               /\ row[c].origin = "manual" => row'[c] = row[c]
               /\ row[c].origin # "manual" => row'[c].origin # "manual" /\ row'[c].project = entry[c].project
            \/ /\ EntryBecomes(c, entry[c].in, entry[c].background, entry[c].deadline)
               /\ creating' = [creating EXCEPT ![c] = "rolling"] /\ row'[c] = NoRow
<1>1. OriginOf(c) \in {"created", "forked"} /\ entry[c].deadline \in {"none", "set", "over"} /\ projects \subseteq Projects
      /\ c \in Threads /\ row \in [Threads -> Row] /\ NoRow \in Row
  BY EntryChanges DEF OriginOf, FamilyTypes, TypeOK, Entry, Threads, Row, NoRow
<1>2. CASE entry[c].project \in projects /\ Upsert(c, entry[c].project, OriginOf(c)) /\ Settled(c)
           /\ creating' = [creating EXCEPT ![c] = "done"]
  <2> HIDE DEF RowsStay
  <2>1. entry[c].project \in Projects BY <1>1, <1>2
  <2> QED BY <1>1, <1>2, <2>1, EntryChanges, UpsertMeans
<1>3. CASE Rollback(c) /\ entry' = [entry EXCEPT ![c].seen = TRUE]
  <2>1. EntryBecomes(c, entry[c].in, entry[c].background, entry[c].deadline) BY <1>1, <1>3, EntryChanges
  <2> QED BY <1>1, <1>3, <2>1 DEF Rollback, RowsStay
<1> QED BY <1>2, <1>3 DEF Finalize

\* What an answer makes of a creation, its entry and its row.
CreationMoves(c, at) ==
  /\ creating[c] \in {"asked", "goal"} /\ creating' = [creating EXCEPT ![c] = at]
  /\ at = "goal" => srv[c] # "none"
  /\ EntryBecomes(c, entry[c].in /\ at \in {"goal", "rolling"}, entry[c].background, entry[c].deadline)
  /\ RowsStay({c})
  /\ \/ at = "done" /\ row'[c].origin # "none" /\ srv[c] # "none" /\ entry[c].project \in projects
        /\ (row[c].origin = "manual" => row'[c] = row[c])
        /\ (row[c].origin # "manual" => row'[c].origin # "manual" /\ row'[c].project = entry[c].project)
     \/ at = "rolling" /\ row'[c] = NoRow
     \/ at \in {"goal", "failed"} /\ UNCHANGED row

LEMMA AnswerMoves ==
  ASSUME FamilyTypes, BeginsUnknown, NEW c \in Children, CreateAnswered(c) \/ GoalSet(c)
  PROVE  /\ link # "down" /\ \E at \in {"goal", "rolling", "done", "failed"} : CreationMoves(c, at)
         /\ UNCHANGED <<srv, link, projects, adding, home, tombs, unsure, archiving, dropping, dead, unwritten, raised, rec, scan>>
<1>1. /\ link # "down" /\ creating[c] \in {"asked", "goal"}
      /\ UNCHANGED <<srv, link, projects, adding, home, tombs, unsure, archiving, dropping, dead, unwritten, raised, rec, scan>>
  BY DEF CreateAnswered, GoalSet, Connected, server, marks, hidden, fates
<1>2. row \in [Threads -> Row] BY DEF FamilyTypes, TypeOK, Row
<1>6. entry[c].in \in BOOLEAN /\ creating \in [Children -> {"no", "asked", "goal", "rolling", "done", "failed", "unknown"}]
  BY DEF FamilyTypes, TypeOK, Entry
<1>3. CASE Finalize(c) /\ srv[c] # "none"
  <2> HIDE DEF RowsStay, EntryBecomes
  <2>1. CASE creating' = [creating EXCEPT ![c] = "done"]
    <3>1. CreationMoves(c, "done") BY <1>1, <1>3, <1>6, <2>1, FinalizeMeans DEF CreationMoves
    <3> QED BY <1>1, <3>1
  <2>2. CASE creating' = [creating EXCEPT ![c] = "rolling"]
    <3>1. CreationMoves(c, "rolling") BY <1>1, <1>3, <1>6, <2>2, FinalizeMeans DEF CreationMoves
    <3> QED BY <1>1, <3>1
  <2> QED BY <1>3, <2>1, <2>2, FinalizeMeans
<1>4. CASE /\ srv[c] # "none" /\ creating' = [creating EXCEPT ![c] = "goal"]
           /\ entry' = [entry EXCEPT ![c].seen = TRUE] /\ UNCHANGED row
  <2>1. EntryBecomes(c, entry[c].in, entry[c].background, entry[c].deadline)
    BY <1>4, EntryChanges DEF FamilyTypes, Entry
  <2>2. CreationMoves(c, "goal") BY <1>1, <1>2, <1>4, <2>1, EntryChanges DEF CreationMoves, RowsStay, Entry
  <2> QED BY <1>1, <2>2
<1>5. CASE Settled(c) /\ creating' = [creating EXCEPT ![c] = "failed"] /\ UNCHANGED row
  <2>1. EntryBecomes(c, FALSE, entry[c].background, entry[c].deadline)
    BY <1>5, EntryChanges DEF FamilyTypes, Entry
  <2>2. CreationMoves(c, "failed") BY <1>1, <1>2, <1>5, <2>1 DEF CreationMoves, RowsStay
  <2> QED BY <1>1, <2>2
<1> QED BY <1>3, <1>4, <1>5 DEF CreateAnswered, GoalSet, BeginsUnknown

LEMMA AnswerKeepsFamily ==
  ASSUME FamilyInvariant, NEW c \in Children, CreateAnswered(c) \/ GoalSet(c)
  PROVE  FamilyInvariant'
<1>1. PICK at \in {"goal", "rolling", "done", "failed"} : CreationMoves(c, at)
  BY AnswerMoves DEF FamilyInvariant
<1>2. /\ link # "down"
      /\ UNCHANGED <<srv, link, projects, adding, home, tombs, unsure, archiving, dropping, dead, unwritten, raised, rec, scan>>
  BY AnswerMoves DEF FamilyInvariant
<1>3. FamilyTypes'
  BY <1>1, <1>2 DEF FamilyInvariant, FamilyTypes, TypeOK, CreationMoves, EntryBecomes, RowsStay, Row
<1>4. LostIsOver' BY <1>1, <1>2 DEF FamilyInvariant, FamilyTypes, TypeOK, LostIsOver, Busy, CreationMoves
<1>5. BeginsUnknown'
  BY <1>1, <1>2 DEF FamilyInvariant, FamilyTypes, TypeOK, BeginsUnknown, CreationMoves, EntryBecomes, RowsStay,
    Mapped, Threads
<1>6. OpenIsUnmapped'
  BY <1>1, <1>2 DEF FamilyInvariant, FamilyTypes, TypeOK, OpenIsUnmapped, CreationMoves, EntryBecomes, RowsStay,
    Mapped, Threads
<1>7. FoundIsWritten' BY <1>2 DEF FamilyInvariant, FoundIsWritten, Written
<1>8. DeadIsOver'
  BY <1>1, <1>2 DEF FamilyInvariant, FamilyTypes, TypeOK, DeadIsOver, CreationMoves, RowsStay, Mapped
<1> QED BY <1>3, <1>4, <1>5, <1>6, <1>7, <1>8 DEF FamilyInvariant

LEMMA RolledBackKeepsFamily ==
  ASSUME FamilyInvariant, NEW c \in Children, RolledBack(c)
  PROVE  FamilyInvariant'
<1>1. /\ link # "down" /\ creating[c] = "rolling"
      /\ UNCHANGED <<link, row, projects, adding, home, unsure, archiving, dropping, dead, unwritten, raised, rec, scan>>
      /\ tombs \subseteq tombs' /\ tombs' \subseteq tombs \cup {c}
      /\ srv' = [srv EXCEPT ![c] = "archived"] \/ UNCHANGED srv
      /\ \E at \in {"failed", "unknown"} : creating' = [creating EXCEPT ![c] = at]
  BY DEF RolledBack, Connected, table, fates, Retained
<1>2. EntryBecomes(c, FALSE, entry[c].background, entry[c].deadline) \/ EntryBecomes(c, entry[c].in, TRUE, "set")
  BY EntryChanges DEF RolledBack, FamilyInvariant, FamilyTypes, Entry
<1>3. FamilyTypes' BY <1>1, <1>2 DEF FamilyInvariant, FamilyTypes, TypeOK, EntryBecomes, Threads
<1>4. LostIsOver' BY <1>1 DEF FamilyInvariant, FamilyTypes, TypeOK, LostIsOver, Busy, Threads
<1>5. BeginsUnknown'
  BY <1>1, <1>2 DEF FamilyInvariant, FamilyTypes, TypeOK, BeginsUnknown, EntryBecomes, Mapped, Threads
<1>6. OpenIsUnmapped' BY <1>1, <1>2 DEF FamilyInvariant, OpenIsUnmapped, EntryBecomes, Mapped
<1>7. FoundIsWritten' BY <1>1 DEF FamilyInvariant, FamilyTypes, TypeOK, FoundIsWritten, Written, Threads
<1>8. DeadIsOver' BY <1>1 DEF FamilyInvariant, FamilyTypes, TypeOK, DeadIsOver, Mapped, Threads
<1> QED BY <1>3, <1>4, <1>5, <1>6, <1>7, <1>8 DEF FamilyInvariant

\* A step that concerns the entry of c only: what opened it is over, or goes on.
LEMMA EntryKeepsFamily ==
  ASSUME FamilyInvariant, NEW c \in Children, NEW in \in BOOLEAN, NEW background \in BOOLEAN,
         NEW deadline \in {"none", "set", "over"}, EntryBecomes(c, in, background, deadline), in => entry[c].in,
         tombs' \subseteq Threads, raised' \subseteq Threads,
         rec' \in Pass, rec'.at = "idle" \/ (rec'.at = "lock" /\ rec'.child \in Children),
         UNCHANGED <<srv, link, row, projects, adding, home, unsure, archiving, dropping, dead, unwritten, creating, scan>>
  PROVE  FamilyInvariant'
<1>1. FamilyTypes' BY DEF FamilyInvariant, FamilyTypes, TypeOK, EntryBecomes
<1>2. LostIsOver' /\ FoundIsWritten' /\ DeadIsOver'
  BY DEF FamilyInvariant, LostIsOver, Busy, FoundIsWritten, Written, DeadIsOver, Mapped
<1>3. BeginsUnknown' /\ OpenIsUnmapped'
  BY DEF FamilyInvariant, BeginsUnknown, OpenIsUnmapped, EntryBecomes, Mapped
<1> QED BY <1>1, <1>2, <1>3 DEF FamilyInvariant

\* The same, while a pass may be at work.
LEMMA EntryOnlyKeepsFamily ==
  ASSUME FamilyInvariant, NEW c \in Children, EntryBecomes(c, entry[c].in, entry'[c].background, entry'[c].deadline),
         UNCHANGED <<srv, link, row, projects, adding, home, tombs, unsure, archiving, dropping, dead, unwritten, raised, creating, rec, scan>>
  PROVE  FamilyInvariant'
<1>1. FamilyTypes' BY DEF FamilyInvariant, FamilyTypes, TypeOK, EntryBecomes
<1>2. LostIsOver' /\ FoundIsWritten' /\ DeadIsOver'
  BY DEF FamilyInvariant, LostIsOver, Busy, FoundIsWritten, Written, DeadIsOver, Mapped
<1>3. BeginsUnknown' /\ OpenIsUnmapped'
  BY DEF FamilyInvariant, BeginsUnknown, OpenIsUnmapped, EntryBecomes, Mapped
<1> QED BY <1>1, <1>2, <1>3 DEF FamilyInvariant

LEMMA TimesKeepFamily ==
  ASSUME FamilyInvariant, NEW c \in Children, ThreadStarted(c) \/ Deadline(c) \/ AbandonAt(c)
  PROVE  FamilyInvariant'
<1>1. UNCHANGED <<srv, link, row, projects, adding, home, tombs, unsure, archiving, dropping, dead, unwritten, raised, creating, rec, scan>>
  BY DEF ThreadStarted, Deadline, AbandonAt, server, table, marks, hidden, fates
<1>2. EntryBecomes(c, entry[c].in, entry'[c].background, entry'[c].deadline)
  BY EntryChanges DEF FamilyInvariant, ThreadStarted, Deadline, AbandonAt, EntryBecomes, Entry
<1> QED BY <1>1, <1>2, EntryOnlyKeepsFamily

\* What opens a creation: its entry, while the App Server has nothing of it yet.
LEMMA CreateKeepsFamily ==
  ASSUME FamilyInvariant, NEW c \in Children, NEW kind \in Kinds, NEW p \in Projects,
         NEW parent \in Existing \cup {NoThread}, Create(c, kind, p, parent)
  PROVE  FamilyInvariant'
<1>1. /\ link = "up" /\ creating[c] = "no" /\ creating' = [creating EXCEPT ![c] = "asked"]
      /\ home' = [home EXCEPT ![c] = p]
      /\ UNCHANGED <<srv, link, row, projects, adding, tombs, unsure, archiving, dropping, dead, unwritten, raised, rec, scan>>
  BY DEF Create, server, marks, hidden, fates
<1>2. /\ entry' \in [Children -> Entry] /\ \A d \in Children \ {c} : entry'[d] = entry[d]
  BY FamilyConstants DEF FamilyInvariant, FamilyTypes, Create, NoEntry, Entry
<1>3. FamilyTypes' BY <1>1, <1>2 DEF FamilyInvariant, FamilyTypes, TypeOK
<1>4. LostIsOver' /\ FoundIsWritten' /\ DeadIsOver'
  BY <1>1 DEF FamilyInvariant, FamilyTypes, TypeOK, LostIsOver, Busy, FoundIsWritten, Written, DeadIsOver, Mapped
<1>5. BeginsUnknown' /\ OpenIsUnmapped'
  BY <1>1, <1>2 DEF FamilyInvariant, FamilyTypes, TypeOK, BeginsUnknown, OpenIsUnmapped, Mapped
<1> QED BY <1>3, <1>4, <1>5 DEF FamilyInvariant

LEMMA SessionKeepsFamily ==
  ASSUME FamilyInvariant, NEW t \in Threads,
         \/ t \in Children /\ ServerCreates(t)
         \/ Session(t)
  PROVE  FamilyInvariant'
<1> USE FamilyConstants DEF FamilyInvariant, FamilyTypes, TypeOK, Entry, Pass, LostIsOver, BeginsUnknown, OpenIsUnmapped,
        FoundIsWritten, DeadIsOver, Written, Mapped, Busy, NoRow, Threads
<1>1. CASE t \in Children /\ ServerCreates(t)
  BY <1>1 DEF ServerCreates, Connected, table, marks, hidden, fates, counts
<1>2. CASE Materialize(t) BY <1>2 DEF Materialize, Connected, table, marks, hidden, fates, counts
<1>3. CASE Archive(t) BY <1>3 DEF Archive, HeldThreads, HeldByArchive, server, table, counts
<1>4. CASE ServerArchives(t) BY <1>4 DEF ServerArchives, Connected, table, marks, hidden, fates, counts
<1>5. CASE ArchiveAnswered(t) BY <1>5 DEF ArchiveAnswered, CarriedOut, Connected, Fail, server, fates
<1>8. CASE ArchiveUnwritten(t) BY <1>8 DEF ArchiveUnwritten, CarriedOut, server, counts
<1>6. CASE ScanThread(t) BY <1>6 DEF ScanThread, server, table, marks, hidden, fates, counts
<1>7. CASE \E p \in Projects : MoveToProject(t, p) BY <1>7 DEF MoveToProject, server, marks, hidden, fates
<1> QED BY <1>1, <1>2, <1>3, <1>4, <1>5, <1>6, <1>7, <1>8 DEF Session

LEMMA ProjectKeepsFamily ==
  ASSUME FamilyInvariant, NEW p \in Projects, Project(p)
  PROVE  FamilyInvariant'
<1> USE FamilyConstants DEF FamilyInvariant, FamilyTypes, TypeOK, Entry, Pass, LostIsOver, BeginsUnknown, OpenIsUnmapped,
        FoundIsWritten, DeadIsOver, Written, Mapped, Busy, NoRow, Threads
<1>1. CASE RemoveProject(p) BY <1>1 DEF RemoveProject, Delete, server, fates
<1>2. CASE AddProject(p) BY <1>2 DEF AddProject, server, marks, hidden, fates, counts
<1>3. CASE AddProjectFails(p)
  BY <1>3 DEF AddProjectFails, Delete, Connected, server, marks, hidden, fates, counts
<1>4. CASE ScanRoot(p)
  BY <1>4 DEF ScanRoot, DiscoveryBlocked, Discovered, Connected, server, marks, hidden, fates, counts
<1> QED BY <1>1, <1>2, <1>3, <1>4 DEF Project

LEMMA PassOverIsPass ==
  ASSUME FamilyTypes
  PROVE  PassOver \in Pass /\ (PassOver.at # "idle" => PassOver = rec) /\ NoPass \in Pass /\ NoPass.at = "idle"
BY DEF FamilyTypes, Pass, PassOver, NoPass

\* A scan writes the row of a thread that is not archived, in the project it is in.
LEMMA ScanUpsertMeans ==
  ASSUME FamilyTypes, NEW t \in Threads, t = scan.thread, ScanUpsert
  PROVE  /\ UNCHANGED <<server, projects, adding, home, marks, entry, creating, rec, counts>>
         /\ \/ UNCHANGED row
            \/ /\ RowsStay({t}) /\ ~DiscoveryBlocked(t)
               /\ IF row[t].origin = "manual" THEN row'[t] = row[t]
                  ELSE row'[t].origin # "manual" /\ row'[t].project = home[t]
<1>1. /\ row[t].origin \in {"none", "discovered", "created", "forked", "manual"}
      /\ UNCHANGED <<server, projects, adding, home, marks, entry, creating, rec, counts>>
  BY DEF FamilyTypes, TypeOK, ScanUpsert
<1>2. CASE UNCHANGED row BY <1>1, <1>2
<1>3. CASE ~ScanDrops(t) /\ Upsert(t, IF row[t].origin = "manual" THEN row[t].project ELSE home[t], Discovered(t))
  <2>1. ~DiscoveryBlocked(t) /\ (IF row[t].origin = "manual" THEN row[t].project ELSE home[t]) \in Projects
    BY <1>3 DEF ScanDrops, FamilyTypes, TypeOK
  <2>2. Discovered(t) \in {"none", "discovered", "created", "forked", "manual"}
        /\ (row[t].origin # "manual" => Discovered(t) # "manual")
    BY <1>1 DEF Discovered, Mapped, FamilyTypes, TypeOK, NoRow
  <2> HIDE DEF RowsStay
  <2>3. CASE row[t].origin = "manual"
    <3>1. row[t].project \in Projects /\ Upsert(t, row[t].project, Discovered(t)) BY <1>3, <2>1, <2>3
    <3> QED BY <1>1, <2>1, <2>2, <2>3, <3>1, UpsertMeans
  <2>4. CASE row[t].origin # "manual" BY <1>1, <1>3, <2>1, <2>2, <2>4, UpsertMeans
  <2> QED BY <2>3, <2>4
<1> QED BY <1>2, <1>3 DEF ScanUpsert

\* A step of a pass, a scan or a reconciliation that changes no session.
LEMMA WatchKeepsFamily ==
  ASSUME FamilyInvariant,
         ScanAll \/ ScanUpsert \/ ScanComplete \/ RecoverDeferred \/ PassFails \/ PassEnds \/ Reconnect \/ Retry
  PROVE  FamilyInvariant'
<1> USE FamilyConstants DEF FamilyInvariant, FamilyTypes, TypeOK, Entry, Pass, LostIsOver, BeginsUnknown, OpenIsUnmapped,
        FoundIsWritten, DeadIsOver, Written, Mapped, Busy, NoRow, Threads
<1>1. CASE ScanAll BY <1>1 DEF ScanAll, NoScan, Connected, server, table, marks, hidden, fates
<1>2. CASE ScanUpsert
  <2>1. PICK t \in Threads : t = scan.thread /\ t # NoThread BY <1>2 DEF ScanUpsert
  <2>2. /\ UNCHANGED <<srv, link, projects, adding, home, tombs, unsure, archiving, dropping, dead, unwritten, raised,
                       entry, creating, rec>>
        /\ scan' = [scan EXCEPT !.thread = NoThread, !.target = NoProject]
    BY <1>2 DEF ScanUpsert, server, marks, hidden, fates
  <2>3. CASE UNCHANGED row BY <2>2, <2>3
  <2>4. CASE RowsStay({t}) /\ ~DiscoveryBlocked(t)
    <3>1. /\ \A u \in Threads \ {t} : row'[u] = row[u]
          /\ row' \in [Threads -> Row] /\ Written(t) /\ (t \in Children => ~entry[t].in)
      BY <2>1, <2>4 DEF RowsStay, DiscoveryBlocked
    <3>2. FamilyTypes' BY <2>2, <3>1 DEF Row
    <3>3. LostIsOver' /\ FoundIsWritten' BY <2>2, <3>1
    <3> HIDE DEF FamilyTypes, TypeOK, Entry, Pass, Threads, LostIsOver, FoundIsWritten
    <3>5. Children \subseteq Threads BY DEF Threads
    <3>4. BeginsUnknown' BY <2>2, <3>1, <3>5
    <3>6. OpenIsUnmapped' BY <2>2, <3>1, <3>5
    <3>7. dead \subseteq Threads BY DEF FamilyTypes, TypeOK
    <3>8. DeadIsOver' BY <2>2, <3>1, <3>7
    <3> QED BY <3>2, <3>3, <3>4, <3>6, <3>8
  <2> QED BY <1>2, <2>1, <2>3, <2>4, ScanUpsertMeans
<1>3. CASE ScanComplete
  <2>1. /\ scan' = NoScan /\ rec' \in Pass /\ (rec'.at # "idle" => rec' = rec)
        /\ UNCHANGED <<server, table, marks, entry, creating, counts>>
    BY <1>3, PassOverIsPass DEF ScanComplete
  <2> QED BY <2>1 DEF NoScan, server, table, marks, hidden, fates
<1>4. CASE RecoverDeferred
  BY <1>4 DEF RecoverDeferred, PassOver, NoPass, Connected, server, table, marks, hidden, fates, counts
<1>5. CASE PassFails BY <1>5 DEF PassFails, NoPass, Fail, server, table, marks, hidden, fates
<1>6. CASE PassEnds BY <1>6 DEF PassEnds, NoPass, table, marks, hidden, fates, counts
<1>7. CASE Reconnect \/ Retry BY <1>7 DEF Reconnect, Retry, table, marks, hidden, fates, counts
<1> QED BY <1>1, <1>2, <1>3, <1>4, <1>5, <1>6, <1>7

LEMMA ArchivesRecoveredKeepsFamily ==
  ASSUME FamilyInvariant, RecoverUncertainArchives
  PROVE  FamilyInvariant'
<1>1. /\ rec' \in Pass /\ (rec'.at # "idle" => rec' = rec)
      /\ link = "archives" /\ link' = "children" /\ unsure' = {} /\ dead' = dead \cup NotListed
      /\ row' = [t \in Threads |-> IF t \in NotListed THEN NoRow ELSE row[t]] /\ tombs' = tombs \ (unsure \ NotListed)
      /\ UNCHANGED <<srv, projects, adding, home, archiving, dropping, unwritten, raised, entry, creating, scan>>
  BY PassOverIsPass DEF RecoverUncertainArchives, CarriedOut, FamilyInvariant, counts
<1>2. \A t \in NotListed : t \in unsure /\ srv[t] \in {"archived", "none"} /\ t \in Threads
  BY <1>1 DEF NotListed, FamilyInvariant, FamilyTypes, TypeOK, LostIsOver
<1>3. FamilyTypes' BY <1>1, <1>2 DEF FamilyInvariant, FamilyTypes, TypeOK, NoRow
<1>4. LostIsOver' /\ FoundIsWritten' /\ DeadIsOver'
  BY <1>1, <1>2 DEF FamilyInvariant, FamilyTypes, TypeOK, LostIsOver, Busy, FoundIsWritten, Written, DeadIsOver, Mapped
<1>5. BeginsUnknown' /\ OpenIsUnmapped'
  BY <1>1, <1>2 DEF FamilyInvariant, FamilyTypes, TypeOK, BeginsUnknown, OpenIsUnmapped, Mapped, Threads
<1> QED BY <1>3, <1>4, <1>5 DEF FamilyInvariant

\* What the end of a recovery adds to raised is what it does to archives.
LEMMA Raised ==
  ASSUME FamilyTypes, Raises
  PROVE  /\ raised \subseteq raised' /\ raised' \subseteq Threads
         /\ (archiving \cup dropping \cup unsure \cup dead) \cap (tombs \cup raised) \subseteq tombs' \cup raised'
         /\ \A t \in dead : row'[t] # row[t] => t \in raised'
BY DEF FamilyTypes, TypeOK, Raises, HeldByArchive

\* What a pass does with an entry: nothing but its times, or it is over.
LEMMA AbandonKeepsFamily ==
  ASSUME FamilyInvariant, NEW c \in Children, Abandon(c)
  PROVE  FamilyInvariant'
<1>1. /\ UNCHANGED <<srv, link, row, projects, adding, home, unsure, archiving, dropping, dead, unwritten, creating, scan>>
      /\ EntryBecomes(c, FALSE, entry[c].background, entry[c].deadline)
      /\ tombs' \subseteq tombs /\ Raises /\ rec.at = "idle" /\ rec' = [rec EXCEPT !.visited = @ \cup {c}]
  BY EntryChanges DEF Abandon, server, table, FamilyInvariant, FamilyTypes, Entry
<1>2. rec' \in Pass /\ rec'.at = "idle" /\ tombs' \subseteq Threads /\ raised' \subseteq Threads /\ entry[c] \in Entry
  BY <1>1, Raised DEF FamilyInvariant, FamilyTypes, TypeOK, Pass
<1> QED BY <1>1, <1>2, EntryKeepsFamily DEF Entry

LEMMA FindMeans ==
  ASSUME FamilyTypes, NEW c \in Children, Find(c)
  PROVE  /\ link # "down" /\ rec.on /\ rec.at = "idle" /\ c \in ToVisit /\ rec' \in Pass /\ raised' = raised
         /\ UNCHANGED <<srv, link, row, projects, adding, home, tombs, unsure, archiving, dropping, dead, unwritten, raised, creating, scan>>
         /\ \E deadline \in {"set", "over"} :
               /\ deadline = "over" => entry[c].deadline = "over"
               /\ \/ rec'.at = "lock" /\ rec'.child = c
                     /\ EntryBecomes(c, entry[c].in, entry[c].background, deadline)
                  \/ rec'.at = "idle" /\ EntryBecomes(c, entry[c].in, entry[c].background, deadline)
                  \/ rec'.at = "idle" /\ deadline = "over" /\ EntryBecomes(c, entry[c].in, TRUE, deadline)
                  \/ rec'.at = "idle" /\ deadline = "over" /\ EntryBecomes(c, FALSE, entry[c].background, deadline)
<1> DEFINE e == entry[c]
           timed == IF e.deadline = "none" THEN "set" ELSE e.deadline
<1>1. /\ e \in Entry /\ timed \in {"set", "over"} /\ (timed = "over" => e.deadline = "over")
      /\ rec \in Pass /\ c \in Children
  BY DEF FamilyTypes, Entry
<1>2. /\ link # "down" /\ rec.on /\ rec.at = "idle" /\ c \in ToVisit
      /\ UNCHANGED <<srv, link, row, projects, adding, home, tombs, unsure, archiving, dropping, dead, unwritten, raised, creating, scan>>
  BY DEF Find, Connected, server, table, marks, hidden, fates
<1>3. CASE /\ entry' = [entry EXCEPT ![c] = [@ EXCEPT !.seen = TRUE, !.deadline = timed]]
           /\ rec' = [rec EXCEPT !.child = c, !.at = "lock", !.final = e.background \/ timed = "over"]
  <2>1. rec' \in Pass /\ rec'.at = "lock" /\ rec'.child = c BY <1>1, <1>3 DEF Pass, Entry
  <2>2. EntryBecomes(c, e.in, e.background, timed) BY <1>1, <1>3, EntryChanges
  <2> QED BY <1>1, <1>2, <2>1, <2>2
<1>4. CASE /\ entry' = [entry EXCEPT ![c].deadline = timed]
           /\ rec' = [rec EXCEPT !.visited = @ \cup {c}, !.pending = TRUE]
  <2>1. rec' \in Pass /\ rec'.at = "idle" BY <1>1, <1>2, <1>4 DEF Pass
  <2>2. EntryBecomes(c, e.in, e.background, timed) BY <1>1, <1>4, EntryChanges
  <2> QED BY <1>1, <1>2, <2>1, <2>2
<1>5. CASE /\ timed = "over" /\ rec' = [rec EXCEPT !.visited = @ \cup {c}]
           /\ (entry' = [entry EXCEPT ![c].background = TRUE] \/ Settled(c))
  <2>1. rec' \in Pass /\ rec'.at = "idle" BY <1>1, <1>2, <1>5 DEF Pass
  <2>2. EntryBecomes(c, e.in, TRUE, timed) \/ EntryBecomes(c, FALSE, e.background, timed)
    BY <1>1, <1>5, EntryChanges
  <2> QED BY <1>1, <1>2, <1>5, <2>1, <2>2
<1>6. entry[c].in BY <1>2 DEF ToVisit, Entries
<1> QED BY <1>3, <1>4, <1>5 DEF Find

LEMMA FindKeepsFamily ==
  ASSUME FamilyInvariant, NEW c \in Children, Find(c)
  PROVE  FamilyInvariant'
<1>1. entry[c].in /\ entry[c] \in Entry /\ tombs' \subseteq Threads
  BY FindMeans DEF ToVisit, Entries, FamilyInvariant, FamilyTypes, TypeOK
<1>3. raised' \subseteq Threads BY FindMeans DEF FamilyInvariant, FamilyTypes, TypeOK
<1>2. PICK in \in BOOLEAN, background \in BOOLEAN, deadline \in {"set", "over"} :
          EntryBecomes(c, in, background, deadline)
  BY <1>1, FindMeans DEF FamilyInvariant, Entry
<1> QED BY <1>1, <1>2, <1>3, FindMeans, EntryKeepsFamily DEF FamilyInvariant

\* A recovery in its locks tries again, or ends with or without a row.
LEMMA TryMeans ==
  ASSUME FamilyTypes, NEW c \in Children, c = rec.child, TryRecover
  PROVE  /\ link # "down" /\ rec.at = "lock" /\ rec' \in Pass /\ Raises
         /\ entry[c].project \notin HeldProjects /\ entry[c].parent \notin HeldThreads
         /\ UNCHANGED <<srv, link, projects, adding, home, unsure, archiving, dropping, dead, unwritten, creating, scan>>
         /\ \/ rec'.at = "idle" /\ UNCHANGED <<row, entry, tombs>>
            \/ rec'.at = "goal" /\ rec'.child = c /\ UNCHANGED <<row, entry, tombs>>
               /\ srv[c] \in {"listed", "archived"} /\ ~Abandoned(c)
            \/ rec'.at = "idle" /\ UNCHANGED row /\ ~entry[c].background /\ tombs' = tombs \cup {c} /\ FinalAttempt
               /\ EntryBecomes(c, entry[c].in, TRUE, entry[c].deadline)
            \/ rec'.at = "idle" /\ EntryBecomes(c, FALSE, entry[c].background, entry[c].deadline)
               /\ tombs' = (IF entry[c].background THEN tombs \ {c} ELSE tombs)
               /\ \/ UNCHANGED row /\ Abandoned(c)
                  \/ ~Abandoned(c) /\ srv[c] = "listed" /\ Upsert(c, entry[c].project, OriginOf(c))
<1>1. /\ link # "down" /\ rec.at = "lock" /\ rec \in Pass /\ entry[c] \in Entry /\ Raises
      /\ entry[c].project \notin HeldProjects /\ entry[c].parent \notin HeldThreads
      /\ UNCHANGED <<srv, link, projects, adding, home, unsure, archiving, dropping, dead, unwritten, creating, scan>>
  BY DEF TryRecover, Connected, server, FamilyTypes
<1>2. ASSUME NEW pending \in BOOLEAN, NextChild(pending)
      PROVE  rec' \in Pass /\ rec'.at = "idle"
  BY <1>1, <1>2 DEF NextChild, Pass
<1>3. CASE Recovered(c) /\ \/ UNCHANGED row /\ Abandoned(c)
                           \/ ~Abandoned(c) /\ srv[c] = "listed" /\ Upsert(c, entry[c].project, OriginOf(c))
  <2>1. rec' \in Pass /\ rec'.at = "idle" /\ tombs' = (IF entry[c].background THEN tombs \ {c} ELSE tombs)
    BY <1>2, <1>3 DEF Recovered
  <2>2. EntryBecomes(c, FALSE, entry[c].background, entry[c].deadline)
    BY <1>1, <1>3, EntryChanges DEF Recovered, Entry
  <2> QED BY <1>1, <1>3, <2>1, <2>2
<1>4. CASE TryAgain(c) /\ UNCHANGED row
  <2>1. rec' \in Pass /\ rec'.at = "idle" BY <1>2, <1>4 DEF TryAgain
  <2>2. \/ UNCHANGED <<entry, tombs>>
        \/ /\ FinalAttempt /\ ~entry[c].background /\ tombs' = tombs \cup {c}
           /\ EntryBecomes(c, entry[c].in, TRUE, entry[c].deadline)
    BY <1>1, <1>4, EntryChanges DEF TryAgain, Entry
  <2> QED BY <1>1, <1>4, <2>1, <2>2
<1>5. CASE /\ rec' = [rec EXCEPT !.at = "goal"] /\ UNCHANGED <<row, entry, tombs>>
           /\ srv[c] \in {"listed", "archived"} /\ ~Abandoned(c)
  BY <1>1, <1>5 DEF Pass
<1> QED BY <1>3, <1>4, <1>5 DEF TryRecover

\* A recovery that ends writes the row of a thread the App Server has.
LEMMA WrittenKeepsFamily ==
  ASSUME FamilyInvariant, NEW c \in Children, RowsStay({c}), srv[c] # "none",
         EntryBecomes(c, FALSE, entry[c].background, entry[c].deadline), rec' \in Pass, rec'.at = "idle",
         tombs' = IF entry[c].background THEN tombs \ {c} ELSE tombs, raised' \subseteq Threads,
         UNCHANGED <<srv, link, projects, adding, home, unsure, archiving, dropping, dead, unwritten, creating, scan>>
  PROVE  FamilyInvariant'
<1>1. FamilyTypes' BY DEF FamilyInvariant, FamilyTypes, TypeOK, EntryBecomes, RowsStay, Row
<1>2. LostIsOver' /\ FoundIsWritten' BY DEF FamilyInvariant, LostIsOver, Busy, FoundIsWritten, Written
<1>3. BeginsUnknown' /\ OpenIsUnmapped'
  BY DEF FamilyInvariant, BeginsUnknown, OpenIsUnmapped, EntryBecomes, RowsStay, Mapped, Threads
<1>4. DeadIsOver' BY DEF FamilyInvariant, FamilyTypes, TypeOK, DeadIsOver, RowsStay, Mapped
<1> QED BY <1>1, <1>2, <1>3, <1>4 DEF FamilyInvariant

LEMMA TryKeepsFamily ==
  ASSUME FamilyInvariant, TryRecover
  PROVE  FamilyInvariant'
<1> DEFINE c == rec.child
<1>1. c \in Children /\ c \in Threads /\ entry[c] \in Entry
  BY DEF TryRecover, FamilyInvariant, FamilyTypes, Threads
<1>2. /\ rec' \in Pass /\ tombs \subseteq Threads /\ raised' \subseteq Threads
      /\ UNCHANGED <<srv, link, projects, adding, home, unsure, archiving, dropping, dead, unwritten, creating, scan>>
  BY <1>1, TryMeans, Raised DEF FamilyInvariant, FamilyTypes, TypeOK
<1>3. CASE rec'.at = "idle" /\ UNCHANGED <<row, entry, tombs>>
  BY <1>2, <1>3 DEF FamilyInvariant, FamilyTypes, TypeOK, LostIsOver, BeginsUnknown, OpenIsUnmapped,
    FoundIsWritten, DeadIsOver, Written, Mapped, Busy
<1>4. CASE rec'.at = "goal" /\ rec'.child = c /\ UNCHANGED <<row, entry, tombs>> /\ srv[c] \in {"listed", "archived"}
  BY <1>1, <1>2, <1>4 DEF FamilyInvariant, FamilyTypes, TypeOK, LostIsOver, BeginsUnknown, OpenIsUnmapped,
    FoundIsWritten, DeadIsOver, Written, Mapped, Busy
<1>5. CASE /\ rec'.at = "idle" /\ UNCHANGED row /\ tombs' = tombs \cup {c}
           /\ EntryBecomes(c, entry[c].in, TRUE, entry[c].deadline)
  BY <1>1, <1>2, <1>5, EntryKeepsFamily DEF Entry
<1>6. CASE /\ rec'.at = "idle" /\ EntryBecomes(c, FALSE, entry[c].background, entry[c].deadline)
           /\ tombs' = (IF entry[c].background THEN tombs \ {c} ELSE tombs)
           /\ \/ UNCHANGED row
              \/ ~Abandoned(c) /\ srv[c] = "listed" /\ Upsert(c, entry[c].project, OriginOf(c))
  <2>1. CASE UNCHANGED row BY <1>1, <1>2, <1>6, <2>1, EntryKeepsFamily DEF Entry
  <2>2. CASE ~Abandoned(c) /\ srv[c] = "listed" /\ Upsert(c, entry[c].project, OriginOf(c))
    <3>1. RowsStay({c}) BY <1>1, <2>2, UpsertMeans DEF Abandoned, OriginOf, FamilyInvariant, FamilyTypes, TypeOK
    <3> QED BY <1>1, <1>2, <1>6, <2>2, <3>1, WrittenKeepsFamily
  <2> QED BY <1>6, <2>1, <2>2
<1> QED BY <1>1, <1>3, <1>4, <1>5, <1>6, TryMeans DEF FamilyInvariant

\* The Goal of a recovered Fork is set: its row is written, or the pass fails.
LEMMA RecoverGoalMeans ==
  ASSUME FamilyTypes, RecoverGoalSet
  PROVE  LET c == rec.child IN
         /\ c \in Children /\ link # "down" /\ rec.at = "goal" /\ rec' \in Pass /\ rec'.at = "idle" /\ Raises
         /\ UNCHANGED <<srv, link, projects, adding, home, unsure, archiving, dropping, dead, unwritten, creating, scan>>
         /\ \/ UNCHANGED <<row, entry, tombs>>
            \/ /\ entry[c].project \in projects /\ Upsert(c, entry[c].project, OriginOf(c)) /\ RowsStay({c})
               /\ EntryBecomes(c, FALSE, entry[c].background, entry[c].deadline)
               /\ tombs' = (IF entry[c].background THEN tombs \ {c} ELSE tombs)
<1> DEFINE c == rec.child
<1>1. /\ c \in Children /\ c \in Threads /\ link # "down" /\ rec.at = "goal" /\ rec \in Pass /\ entry[c] \in Entry
      /\ projects \subseteq Projects /\ Raises
      /\ UNCHANGED <<srv, link, projects, adding, home, unsure, archiving, dropping, dead, unwritten, creating, scan>>
  BY DEF RecoverGoalSet, Connected, server, FamilyTypes, TypeOK, Threads
<1>2. CASE rec' = NoPass /\ UNCHANGED <<row, entry, tombs>> BY <1>1, <1>2, PassOverIsPass
<1>3. CASE entry[c].project \in projects /\ Upsert(c, entry[c].project, OriginOf(c)) /\ Recovered(c)
  <2>1. rec' \in Pass /\ rec'.at = "idle" /\ tombs' = (IF entry[c].background THEN tombs \ {c} ELSE tombs)
    BY <1>1, <1>3 DEF Recovered, NextChild, Pass
  <2>2. EntryBecomes(c, FALSE, entry[c].background, entry[c].deadline)
    BY <1>1, <1>3, EntryChanges DEF Recovered, Entry
  <2>3. RowsStay({c}) BY <1>1, <1>3, UpsertMeans DEF OriginOf
  <2> QED BY <1>1, <1>3, <2>1, <2>2, <2>3
<1> QED BY <1>2, <1>3 DEF RecoverGoalSet

LEMMA RecoverGoalKeepsFamily ==
  ASSUME FamilyInvariant, RecoverGoalSet
  PROVE  FamilyInvariant'
<1> DEFINE c == rec.child
<1>1. c \in Children /\ entry[c] \in Entry /\ srv[c] # "none" /\ rec' \in Pass /\ rec'.at = "idle" /\ raised' \subseteq Threads
  BY RecoverGoalMeans, Raised DEF FamilyInvariant, FamilyTypes, FoundIsWritten, Written
<1>2. CASE UNCHANGED <<row, entry, tombs>>
  BY <1>1, <1>2, RecoverGoalMeans DEF FamilyInvariant, FamilyTypes, TypeOK, LostIsOver, BeginsUnknown,
    OpenIsUnmapped, FoundIsWritten, DeadIsOver, Written, Mapped, Busy
<1>3. CASE /\ entry[c].project \in projects /\ RowsStay({c})
           /\ EntryBecomes(c, FALSE, entry[c].background, entry[c].deadline)
           /\ tombs' = (IF entry[c].background THEN tombs \ {c} ELSE tombs)
  BY <1>1, <1>3, RecoverGoalMeans, WrittenKeepsFamily DEF FamilyInvariant, FamilyTypes, TypeOK
<1> QED BY <1>2, <1>3, RecoverGoalMeans DEF FamilyInvariant

LEMMA LoseKeepsFamily ==
  ASSUME FamilyInvariant, Lose
  PROVE  FamilyInvariant'
<1> DEFINE kept == {c \in Children : creating[c] \in {"goal", "rolling"}}
<1>1. /\ link # "down" /\ link' = "down"
      /\ srv' = [t \in Threads |-> IF srv[t] = "unlisted" THEN "none" ELSE srv[t]]
      /\ unsure' = unsure \cup archiving /\ archiving' = {}
      /\ creating' = [c \in Children |-> IF Busy(c) THEN "unknown" ELSE creating[c]]
      /\ tombs' = tombs \cup kept /\ row' = [t \in Threads |-> IF t \in kept THEN NoRow ELSE row[t]]
      /\ UNCHANGED <<projects, adding, home, dropping, dead, unwritten, raised, scan>>
  BY DEF Lose, Connected, fates
<1>2. rec' \in Pass /\ (rec'.at # "idle" => rec' = rec /\ rec.at = "lock")
  BY PassOverIsPass DEF Lose, FamilyInvariant, FamilyTypes, Pass
<1>3. /\ entry' \in [Children -> Entry] /\ \A c \in Children : entry'[c].in = entry[c].in
  <2> DEFINE late(c) == [entry[c] EXCEPT !.deadline = "set"]
             retained(c) == [entry[c] EXCEPT !.background = TRUE, !.deadline = "set", !.due = FALSE]
  <2>1. \A c \in Children : /\ entry[c] \in Entry /\ late(c) \in Entry /\ retained(c) \in Entry
                             /\ late(c).in = entry[c].in /\ retained(c).in = entry[c].in
    <3> TAKE c \in Children
    <3>1. entry[c] \in Entry BY DEF FamilyInvariant, FamilyTypes
    <3> QED BY <3>1 DEF Entry
  <2>2. entry' = [c \in Children |-> IF ~Busy(c) THEN entry[c] ELSE IF c \in kept THEN retained(c) ELSE late(c)]
    BY Zenon DEF Lose
  <2> HIDE DEF late, retained
  <2> QED BY <2>1, <2>2
<1>4. FamilyTypes' BY <1>1, <1>2, <1>3 DEF FamilyInvariant, FamilyTypes, TypeOK, Threads, NoRow, Busy
<1>5. LostIsOver' /\ FoundIsWritten' /\ DeadIsOver'
  BY <1>1, <1>2 DEF FamilyInvariant, FamilyTypes, TypeOK, LostIsOver, Busy, FoundIsWritten, Written, DeadIsOver, Mapped
<1>6. BeginsUnknown' /\ OpenIsUnmapped'
  BY <1>1, <1>3 DEF FamilyInvariant, FamilyTypes, TypeOK, BeginsUnknown, OpenIsUnmapped, Mapped, Threads, Busy, NoRow
<1> QED BY <1>4, <1>5, <1>6 DEF FamilyInvariant

LEMMA InitFamily ==
  ASSUME Init
  PROVE  FamilyInvariant
BY FamilyConstants DEF Init, FamilyInvariant, FamilyTypes, TypeOK, Entry, Pass, LostIsOver, BeginsUnknown, OpenIsUnmapped,
    FoundIsWritten, DeadIsOver, Written, Mapped, Busy, NoRow, NoEntry, NoPass, NoScan, Threads

LEMMA StepKeepsFamily ==
  ASSUME FamilyInvariant, [Next]_vars
  PROVE  FamilyInvariant'
<1>1. ASSUME NEW c \in Children, Creation(c)
      PROVE  FamilyInvariant'
  BY <1>1, CreateKeepsFamily, SessionKeepsFamily, TimesKeepFamily, AnswerKeepsFamily, RolledBackKeepsFamily DEF
    Creation, Threads
<1>2. ASSUME NEW c \in Children, Recovery(c)
      PROVE  FamilyInvariant'
  BY <1>2, AbandonKeepsFamily, FindKeepsFamily, TimesKeepFamily DEF Recovery
<1>3. ASSUME Passes \/ Connection \/ Scan
      PROVE  FamilyInvariant'
  BY <1>3, WatchKeepsFamily, TryKeepsFamily, RecoverGoalKeepsFamily, LoseKeepsFamily,
    ArchivesRecoveredKeepsFamily DEF Passes, Connection, Scan
<1>4. CASE UNCHANGED vars
  BY <1>4 DEF vars, server, table, marks, hidden, fates, FamilyInvariant, FamilyTypes, TypeOK, LostIsOver,
    BeginsUnknown, OpenIsUnmapped, FoundIsWritten, DeadIsOver, Written, Mapped, Busy
<1> QED BY <1>1, <1>2, <1>3, <1>4, SessionKeepsFamily, ProjectKeepsFamily DEF Next

\* The inductive invariant of the sessions, whatever is lost, fails or comes late.
THEOREM FamilyInductive == Spec => []FamilyInvariant
<1>1. Init => FamilyInvariant BY InitFamily
<1>2. FamilyInvariant /\ [Next]_vars => FamilyInvariant' BY StepKeepsFamily
<1> QED BY <1>1, <1>2, PTL DEF Spec

\* An archive the App Server refused is never taken for one it carried out, nor the
\* thread of a creation under way for a session from elsewhere (session-service.ts
\* 1036-1066, project-indexer.ts 128-162).
THEOREM NothingMistaken == Spec => []NothingIsMistaken
<1>1. FamilyInvariant => NothingIsMistaken
  BY DEF FamilyInvariant, DeadIsOver, OpenIsUnmapped, Mapped, NoRow, NothingIsMistaken, ArchivedHereIsArchived,
    CreationKeepsOrigin
<1> QED BY <1>1, FamilyInductive, PTL

----

LEMMA Held ==
  /\ \A c \in Children : Busy(c) => entry[c].project \in HeldProjects /\ entry[c].parent \in HeldThreads
  /\ archiving \cup dropping \subseteq HeldThreads
BY DEF HeldProjects, HeldThreads, HeldByArchive

LEMMA CreateKeepsBurial ==
  ASSUME FamilyInvariant, BurialInvariant, NEW c \in Children, NEW kind \in Kinds, NEW p \in Projects,
         NEW parent \in Existing \cup {NoThread}, Create(c, kind, p, parent)
  PROVE  BurialInvariant'
<1>1. /\ creating[c] = "no" /\ creating' = [creating EXCEPT ![c] = "asked"] /\ home' = [home EXCEPT ![c] = p]
      /\ UNCHANGED <<row, tombs, unsure, archiving, dropping, dead, raised, rec>>
  BY DEF Create, marks, hidden, fates
<1>2. (\A d \in Children \ {c} : entry'[d] = entry[d]) /\ entry'[c].project = p
  <2> DEFINE new == [NoEntry EXCEPT !.in = TRUE, !.kind = kind, !.project = p, !.parent = parent]
  <2>1. entry' = [entry EXCEPT ![c] = new] /\ entry \in [Children -> Entry]
    BY DEF Create, FamilyInvariant, FamilyTypes
  <2>2. new.project = p BY DEF NoEntry
  <2> HIDE DEF new
  <2> QED BY <2>1, <2>2
<1>3. OneStage' /\ Buried' BY <1>1 DEF BurialInvariant, OneStage, Buried
<1>4. BusyIsUnmapped' /\ RecoversWhatIsOver'
  BY <1>1, <1>2 DEF FamilyInvariant, FamilyTypes, TypeOK, BeginsUnknown, BurialInvariant, BusyIsUnmapped,
    RecoversWhatIsOver, Busy, Mapped, Threads
<1> QED BY <1>3, <1>4 DEF BurialInvariant

LEMMA SessionKeepsBurial ==
  ASSUME FamilyInvariant, BurialInvariant, NEW t \in Threads,
         \/ t \in Children /\ ServerCreates(t)
         \/ Session(t)
  PROVE  BurialInvariant'
<1> USE FamilyConstants DEF FamilyInvariant, FamilyTypes, TypeOK, BurialInvariant, BusyIsUnmapped,
        RecoversWhatIsOver, OneStage, Buried, Mapped, Busy, NoRow, Threads
<1>1. CASE t \in Children /\ ServerCreates(t) BY <1>1 DEF ServerCreates, table, marks, hidden, fates
<1>2. CASE Materialize(t) \/ ServerArchives(t)
  BY <1>2 DEF Materialize, ServerArchives, table, marks, hidden, fates
<1>3. CASE Archive(t) BY <1>3, Held DEF Archive, LostIsOver, table
<1>4. CASE ArchiveAnswered(t) BY <1>4 DEF ArchiveAnswered, CarriedOut, LostIsOver
<1>5. CASE ArchiveUnwritten(t) BY <1>5 DEF ArchiveUnwritten, CarriedOut
<1>6. CASE ScanThread(t) BY <1>6 DEF ScanThread, table, marks, hidden, fates
<1>7. CASE \E p \in Projects : MoveToProject(t, p) BY <1>7 DEF MoveToProject, marks, hidden, fates
<1> QED BY <1>1, <1>2, <1>3, <1>4, <1>5, <1>6, <1>7 DEF Session

LEMMA ProjectKeepsBurial ==
  ASSUME FamilyInvariant, BurialInvariant, NEW p \in Projects, Project(p)
  PROVE  BurialInvariant'
<1> USE FamilyConstants DEF FamilyInvariant, FamilyTypes, TypeOK, BurialInvariant, BusyIsUnmapped,
        RecoversWhatIsOver, OneStage, Buried, Mapped, Busy, NoRow, Threads
<1>1. CASE RemoveProject(p) BY <1>1 DEF RemoveProject, Delete, fates
<1>2. CASE AddProject(p) BY <1>2 DEF AddProject, marks, hidden, fates
<1>3. CASE AddProjectFails(p) BY <1>3 DEF AddProjectFails, Delete, marks, hidden, fates
<1>4. CASE ScanRoot(p)
  <2>1. \A c \in Children : Busy(c) => home[c] # p BY <1>4, Held DEF ScanRoot
  <2> QED BY <1>4, <2>1 DEF ScanRoot, marks, hidden, fates
<1> QED BY <1>1, <1>2, <1>3, <1>4 DEF Project

LEMMA WatchKeepsBurial ==
  ASSUME FamilyInvariant, BurialInvariant,
         ScanAll \/ ScanUpsert \/ ScanComplete \/ RecoverDeferred \/ PassFails \/ PassEnds \/ Reconnect \/ Retry
  PROVE  BurialInvariant'
<1> USE FamilyConstants DEF FamilyInvariant, FamilyTypes, TypeOK, Entry, Pass, BurialInvariant, BusyIsUnmapped,
        RecoversWhatIsOver, OneStage, Buried, Mapped, Busy, NoRow, Threads
<1>1. CASE ScanAll \/ Reconnect \/ Retry BY <1>1 DEF ScanAll, Reconnect, Retry, table, marks, hidden, fates
<1>2. CASE ScanUpsert
  <2>1. PICK t \in Threads : t = scan.thread BY <1>2 DEF ScanUpsert
  <2>2. /\ UNCHANGED <<home, tombs, unsure, archiving, dropping, dead, raised, entry, creating, rec>>
        /\ home[t] \notin HeldProjects
    BY <1>2, <2>1 DEF ScanUpsert, marks, hidden, fates
  <2>3. CASE UNCHANGED row BY <2>2, <2>3
  <2>4. CASE RowsStay({t})
    <3>1. \A c \in Children : Busy(c) => c # t BY <2>2, Held
    <3> QED BY <2>2, <2>4, <3>1 DEF RowsStay
  <2> QED BY <1>2, <2>1, <2>3, <2>4, ScanUpsertMeans
<1>3. CASE ScanComplete \/ RecoverDeferred
  BY <1>3, PassOverIsPass DEF ScanComplete, RecoverDeferred, table, marks, hidden, fates
<1>4. CASE PassFails \/ PassEnds BY <1>4, PassOverIsPass DEF PassFails, PassEnds, table, marks, hidden, fates
<1> QED BY <1>1, <1>2, <1>3, <1>4

LEMMA AnswerKeepsBurial ==
  ASSUME FamilyInvariant, BurialInvariant, NEW c \in Children, CreateAnswered(c) \/ GoalSet(c)
  PROVE  BurialInvariant'
<1>1. PICK at \in {"goal", "rolling", "done", "failed"} : CreationMoves(c, at)
  BY AnswerMoves DEF FamilyInvariant
<1>2. UNCHANGED <<home, tombs, unsure, archiving, dropping, dead, raised, rec>>
  BY AnswerMoves DEF FamilyInvariant
<1>3. creating \in [Children -> {"no", "asked", "goal", "rolling", "done", "failed", "unknown"}] /\ Busy(c)
      /\ Children \subseteq Threads
  BY <1>1 DEF FamilyInvariant, FamilyTypes, TypeOK, CreationMoves, Busy, Threads
<1>4. OneStage' /\ Buried' BY <1>2 DEF BurialInvariant, OneStage, Buried
<1>5. BusyIsUnmapped' /\ RecoversWhatIsOver'
  BY <1>1, <1>2, <1>3 DEF FamilyInvariant, FamilyTypes, BurialInvariant, BusyIsUnmapped, RecoversWhatIsOver,
    CreationMoves, EntryBecomes, RowsStay, Mapped, Busy
<1> QED BY <1>4, <1>5 DEF BurialInvariant

LEMMA RolledBackKeepsBurial ==
  ASSUME FamilyInvariant, BurialInvariant, NEW c \in Children, RolledBack(c)
  PROVE  BurialInvariant'
<1>1. /\ creating[c] = "rolling" /\ UNCHANGED <<row, home, unsure, archiving, dropping, dead, raised, rec>>
      /\ tombs \subseteq tombs' /\ \E at \in {"failed", "unknown"} : creating' = [creating EXCEPT ![c] = at]
  BY DEF RolledBack, table, fates, Retained
<1>2. EntryBecomes(c, FALSE, entry[c].background, entry[c].deadline) \/ EntryBecomes(c, entry[c].in, TRUE, "set")
  BY EntryChanges DEF RolledBack, FamilyInvariant, FamilyTypes, Entry
<1>3. OneStage' /\ Buried' BY <1>1 DEF BurialInvariant, OneStage, Buried
<1>4. BusyIsUnmapped' /\ RecoversWhatIsOver'
  BY <1>1, <1>2 DEF FamilyInvariant, FamilyTypes, TypeOK, BurialInvariant, BusyIsUnmapped, RecoversWhatIsOver,
    EntryBecomes, Mapped, Busy
<1> QED BY <1>3, <1>4 DEF BurialInvariant

\* A step of a recovery concerns an entry and a tombstone, and the row of a creation that is over.
LEMMA RecoveryKeepsBurial ==
  ASSUME FamilyInvariant, BurialInvariant, NEW c \in Children,
         UNCHANGED entry \/ (\E in, background, deadline : EntryBecomes(c, in, background, deadline)),
         UNCHANGED row \/ (RowsStay({c}) /\ ~Busy(c)),
         Raises \/ UNCHANGED <<tombs, raised>>,
         rec'.at # "idle" => creating[rec'.child] # "no" /\ (rec'.at = "goal" => ~Busy(rec'.child)),
         UNCHANGED <<home, unsure, archiving, dropping, dead, creating>>
  PROVE  BurialInvariant'
<1>1. Children \subseteq Threads BY DEF Threads
<1>2. OneStage' /\ Buried' BY Raised DEF FamilyInvariant, BurialInvariant, OneStage, Buried
<1>3. BusyIsUnmapped' BY <1>1 DEF BurialInvariant, BusyIsUnmapped, EntryBecomes, RowsStay, Mapped, Busy
<1>4. RecoversWhatIsOver' BY DEF RecoversWhatIsOver, Busy
<1> QED BY <1>2, <1>3, <1>4 DEF BurialInvariant

LEMMA TimesKeepBurial ==
  ASSUME FamilyInvariant, BurialInvariant, NEW c \in Children, ThreadStarted(c) \/ Deadline(c) \/ AbandonAt(c)
  PROVE  BurialInvariant'
<1>1. UNCHANGED <<row, home, tombs, unsure, archiving, dropping, dead, raised, creating, rec>>
  BY DEF ThreadStarted, Deadline, AbandonAt, table, marks, hidden, fates
<1>2. EntryBecomes(c, entry[c].in, entry[c].background, entry'[c].deadline)
  BY EntryChanges DEF FamilyInvariant, ThreadStarted, Deadline, AbandonAt, EntryBecomes, Entry
<1> QED BY <1>1, <1>2, RecoveryKeepsBurial DEF BurialInvariant, RecoversWhatIsOver

LEMMA AbandonKeepsBurial ==
  ASSUME FamilyInvariant, BurialInvariant, NEW c \in Children, Abandon(c)
  PROVE  BurialInvariant'
<1>1. /\ UNCHANGED <<row, home, unsure, archiving, dropping, dead, creating>> /\ Raises
      /\ EntryBecomes(c, FALSE, entry[c].background, entry[c].deadline)
      /\ rec' = [rec EXCEPT !.visited = @ \cup {c}] /\ rec.at = "idle"
  BY EntryChanges DEF Abandon, table, FamilyInvariant, FamilyTypes, Entry
<1>2. rec'.at = "idle" BY <1>1 DEF FamilyInvariant, FamilyTypes, Pass
<1> QED BY <1>1, <1>2, RecoveryKeepsBurial

LEMMA FindKeepsBurial ==
  ASSUME FamilyInvariant, BurialInvariant, NEW c \in Children, Find(c)
  PROVE  BurialInvariant'
<1>1. /\ UNCHANGED <<row, home, tombs, unsure, archiving, dropping, dead, raised, creating>> /\ creating[c] # "no"
      /\ rec'.at = "idle" \/ (rec'.at = "lock" /\ rec'.child = c)
      /\ \E in, background, deadline : EntryBecomes(c, in, background, deadline)
  BY FindMeans DEF ToVisit, Entries, FamilyInvariant, BeginsUnknown
<1> QED BY <1>1, RecoveryKeepsBurial

LEMMA TryKeepsBurial ==
  ASSUME FamilyInvariant, BurialInvariant, TryRecover
  PROVE  BurialInvariant'
<1> DEFINE c == rec.child
<1>1. c \in Children /\ creating[c] # "no" /\ projects \subseteq Projects
      /\ OriginOf(c) \in {"created", "forked"} /\ c \in Threads
  BY DEF TryRecover, FamilyInvariant, FamilyTypes, TypeOK, BurialInvariant, RecoversWhatIsOver, OriginOf, Threads
<1>2. ~Busy(c) /\ Raises /\ UNCHANGED <<home, unsure, archiving, dropping, dead, creating>>
      /\ (rec'.at = "idle" \/ rec'.child = c)
  BY <1>1, TryMeans, Held DEF FamilyInvariant
<1>3. UNCHANGED entry \/ (\E in, background, deadline : EntryBecomes(c, in, background, deadline))
  BY <1>1, TryMeans DEF FamilyInvariant
<1>4. UNCHANGED row \/ (entry[c].project \in projects /\ Upsert(c, entry[c].project, OriginOf(c)))
  BY <1>1, TryMeans DEF FamilyInvariant, Abandoned
<1>5. UNCHANGED row \/ RowsStay({c}) BY <1>1, <1>4, UpsertMeans DEF FamilyInvariant
<1> QED BY <1>1, <1>2, <1>3, <1>5, RecoveryKeepsBurial

LEMMA RecoverGoalKeepsBurial ==
  ASSUME FamilyInvariant, BurialInvariant, RecoverGoalSet
  PROVE  BurialInvariant'
<1> DEFINE c == rec.child
<1>1. c \in Children /\ ~Busy(c) /\ rec'.at = "idle" /\ Raises
      /\ UNCHANGED <<home, unsure, archiving, dropping, dead, creating>>
  BY RecoverGoalMeans DEF FamilyInvariant, BurialInvariant, RecoversWhatIsOver
<1>2. /\ UNCHANGED entry \/ (\E in, background, deadline : EntryBecomes(c, in, background, deadline))
      /\ UNCHANGED row \/ RowsStay({c})
  BY RecoverGoalMeans DEF FamilyInvariant
<1> QED BY <1>1, <1>2, RecoveryKeepsBurial

LEMMA ConnectionKeepsBurial ==
  ASSUME FamilyInvariant, BurialInvariant, Lose \/ RecoverUncertainArchives
  PROVE  BurialInvariant'
<1>1. CASE Lose
  <2> DEFINE kept == {c \in Children : creating[c] \in {"goal", "rolling"}}
  <2>1. /\ unsure' = unsure \cup archiving /\ archiving' = {} /\ tombs' = tombs \cup kept
        /\ creating' = [c \in Children |-> IF Busy(c) THEN "unknown" ELSE creating[c]]
        /\ UNCHANGED <<home, dropping, dead, raised>>
    BY <1>1 DEF Lose, fates
  <2>2. rec' = NoPass \/ (rec' = rec /\ rec.at # "goal") BY <1>1 DEF Lose
  <2>3. \A c \in Children : entry'[c].project = entry[c].project
    <3> DEFINE late(c) == [entry[c] EXCEPT !.deadline = "set"]
               retained(c) == [entry[c] EXCEPT !.background = TRUE, !.deadline = "set", !.due = FALSE]
    <3>1. \A c \in Children : late(c).project = entry[c].project /\ retained(c).project = entry[c].project
      <4> TAKE c \in Children
      <4>1. entry[c] \in Entry BY DEF FamilyInvariant, FamilyTypes
      <4> QED BY <4>1 DEF Entry
    <3>2. entry' = [c \in Children |-> IF ~Busy(c) THEN entry[c] ELSE IF c \in kept THEN retained(c) ELSE late(c)]
      BY <1>1, Zenon DEF Lose
    <3> HIDE DEF late, retained
    <3> QED BY <3>1, <3>2
  <2>4. OneStage' /\ Buried' BY <2>1 DEF BurialInvariant, OneStage, Buried
  <2>5. \A c \in Children : ~Busy(c)' BY <2>1 DEF Busy
  <2>6. BusyIsUnmapped' BY <2>1, <2>3, <2>5 DEF BurialInvariant, BusyIsUnmapped, Busy
  <2>7. RecoversWhatIsOver'
    <3>1. rec'.at # "idle" => rec' = rec /\ rec.at = "lock" /\ rec.child \in Children
      BY <2>2 DEF NoPass, FamilyInvariant, FamilyTypes, Pass
    <3> QED BY <2>1, <2>5, <3>1 DEF BurialInvariant, RecoversWhatIsOver, Busy
  <2> QED BY <2>4, <2>6, <2>7 DEF BurialInvariant
<1>2. CASE RecoverUncertainArchives
  <2>1. /\ rec'.at # "idle" => rec' = rec
        /\ link # "up" /\ unsure' = {} /\ dead' = dead \cup NotListed /\ NotListed \subseteq unsure
        /\ tombs' = tombs \ (unsure \ NotListed)
        /\ UNCHANGED <<home, archiving, dropping, raised, entry, creating>>
    BY <1>2, PassOverIsPass DEF RecoverUncertainArchives, CarriedOut, NotListed, FamilyInvariant
  <2>2. \A c \in Children : ~Busy(c) BY <2>1 DEF FamilyInvariant, LostIsOver
  <2>3. OneStage' /\ Buried' BY <2>1 DEF BurialInvariant, OneStage, Buried
  <2>4. BusyIsUnmapped' /\ RecoversWhatIsOver'
    BY <2>1, <2>2 DEF BurialInvariant, BusyIsUnmapped, RecoversWhatIsOver, Busy
  <2> QED BY <2>3, <2>4 DEF BurialInvariant
<1> QED BY <1>1, <1>2

LEMMA InitBurial ==
  ASSUME Init
  PROVE  BurialInvariant
BY FamilyConstants DEF Init, BurialInvariant, BusyIsUnmapped, RecoversWhatIsOver, OneStage, Buried, Busy, NoPass

LEMMA StepKeepsBurial ==
  ASSUME FamilyInvariant, BurialInvariant, [Next]_vars
  PROVE  BurialInvariant'
<1>1. ASSUME NEW c \in Children, Creation(c)
      PROVE  BurialInvariant'
  BY <1>1, CreateKeepsBurial, SessionKeepsBurial, TimesKeepBurial, AnswerKeepsBurial, RolledBackKeepsBurial DEF
    Creation, Threads
<1>2. ASSUME NEW c \in Children, Recovery(c)
      PROVE  BurialInvariant'
  BY <1>2, AbandonKeepsBurial, FindKeepsBurial, TimesKeepBurial DEF Recovery
<1>3. ASSUME Passes \/ Connection \/ Scan
      PROVE  BurialInvariant'
  BY <1>3, WatchKeepsBurial, TryKeepsBurial, RecoverGoalKeepsBurial, ConnectionKeepsBurial DEF Passes, Connection, Scan
<1>4. CASE UNCHANGED vars
  BY <1>4 DEF vars, table, marks, hidden, fates, BurialInvariant, BusyIsUnmapped, RecoversWhatIsOver, OneStage,
    Buried, Mapped, Busy
<1> QED BY <1>1, <1>2, <1>3, <1>4, SessionKeepsBurial, ProjectKeepsBurial DEF Next

\* Only the end of a session's own recovery takes the tombstone of its archive away,
\* and while a creation is under way nobody else has a row for its thread.
THEOREM BurialInductive == Spec => []BurialInvariant
<1>1. Init => BurialInvariant BY InitBurial
<1>2. FamilyInvariant /\ BurialInvariant /\ [Next]_vars => BurialInvariant' BY StepKeepsBurial
<1> QED BY <1>1, <1>2, FamilyInductive, PTL DEF Spec

----

\* A row goes, is moved by the user, or is written by who may: never what the user moved,
\* nor a row that is gone, unless there is no tombstone or its own creation writes it.
MayWrite(t) == Mapped(t) \/ t \notin tombs \/ t \in raised' \/ t \notin dead \/ (t \in Children /\ Busy(t))
RowMoves(t) ==
  \/ row'[t] \in {row[t], NoRow}
  \/ Mapped(t) /\ moves' = moves + 1
  \/ MayWrite(t) /\ (row[t].origin = "manual" => row'[t].project = row[t].project)

LEMMA StepWritesRows ==
  ASSUME FamilyInvariant, [Next]_vars, NEW t \in Threads
  PROVE  RowMoves(t)
<1> USE DEF RowMoves, MayWrite
<1>1. row \in [Threads -> Row] /\ Children \subseteq Threads /\ projects \subseteq Projects
  BY DEF FamilyInvariant, FamilyTypes, TypeOK, Row, Threads
<1>2. ASSUME NEW c \in Children, CreateAnswered(c) \/ GoalSet(c)
      PROVE  RowMoves(t)
  <2>1. RowsStay({c}) /\ Busy(c) /\ (row[c].origin = "manual" => row'[c] = row[c] \/ row'[c] = NoRow)
    BY <1>2, AnswerMoves DEF FamilyInvariant, CreationMoves, Busy
  <2> QED BY <2>1 DEF RowsStay
<1>3. ASSUME NEW u \in Threads, Session(u)
      PROVE  RowMoves(t)
  BY <1>1, <1>3 DEF Session, Materialize, Archive, ServerArchives, ArchiveAnswered, ArchiveUnwritten,
    CarriedOut, ScanThread, MoveToProject, table
<1>4. ASSUME NEW p \in Projects, Project(p)
      PROVE  RowMoves(t)
  BY <1>1, <1>4 DEF Project, RemoveProject, Delete, AddProject, AddProjectFails, ScanRoot, DiscoveryBlocked, Row
<1>5. CASE ScanUpsert
  <2>1. PICK u \in Threads : u = scan.thread BY <1>5 DEF ScanUpsert, FamilyInvariant, FamilyTypes
  <2>2. CASE RowsStay({u}) /\ ~DiscoveryBlocked(u) /\ (row[u].origin = "manual" => row'[u] = row[u])
    BY <2>2 DEF RowsStay, DiscoveryBlocked
  <2> QED BY <1>5, <2>1, <2>2, ScanUpsertMeans DEF FamilyInvariant
<1>6. CASE TryRecover \/ RecoverGoalSet
  <2> DEFINE c == rec.child
  <2>1. c \in Children /\ OriginOf(c) \in {"created", "forked"}
    BY <1>6 DEF TryRecover, RecoverGoalSet, FamilyInvariant, FamilyTypes, OriginOf
  <2>2. UNCHANGED row \/ (entry[c].project \in projects /\ Upsert(c, entry[c].project, OriginOf(c)))
    BY <1>6, <2>1, TryMeans, RecoverGoalMeans DEF Abandoned, FamilyInvariant
  <2>3. UNCHANGED row \/ (RowsStay({c}) /\ (row[c].origin = "manual" => row'[c] = row[c]))
    BY <1>1, <2>1, <2>2, UpsertMeans DEF FamilyInvariant
  <2>4. Raises BY <1>6 DEF TryRecover, RecoverGoalSet
  <2> QED BY <2>3, <2>4, Raised DEF RowsStay, FamilyInvariant
<1>7. ASSUME NEW c \in Children, Creation(c), ~(CreateAnswered(c) \/ GoalSet(c))
      PROVE  RowMoves(t)
  BY <1>7 DEF Creation, Create, ServerCreates, ThreadStarted, RolledBack, table
<1>8. ASSUME NEW c \in Children, Recovery(c)
      PROVE  RowMoves(t)
  BY <1>8 DEF Recovery, Abandon, Find, Deadline, AbandonAt, table
<1>9. CASE RecoverDeferred \/ PassFails \/ PassEnds \/ Reconnect \/ Retry \/ ScanAll \/ ScanComplete \/ UNCHANGED vars
  BY <1>9 DEF RecoverDeferred, PassFails, PassEnds, Reconnect, Retry, ScanAll, ScanComplete, vars, table
<1>10. CASE Lose \/ RecoverUncertainArchives BY <1>10 DEF Lose, RecoverUncertainArchives, CarriedOut
<1> QED BY <1>2, <1>3, <1>4, <1>5, <1>6, <1>7, <1>8, <1>9, <1>10 DEF Next, Passes, Connection, Scan

\* What was raised stays so until the user archives it once more.
LEMMA StepRaises ==
  ASSUME FamilyInvariant, [Next]_vars, NEW t \in raised
  PROVE  t \in raised' \/ row'[t] = row[t]
<1>1. ASSUME NEW u \in Threads, Session(u)
      PROVE  t \in raised' \/ row'[t] = row[t]
  BY <1>1 DEF Session, Materialize, Archive, ServerArchives, ArchiveAnswered, ArchiveUnwritten, ScanThread,
    MoveToProject, table, marks, hidden, fates
<1>2. ASSUME NEW c \in Children, Creation(c) \/ Recovery(c)
      PROVE  t \in raised'
  BY <1>2 DEF Creation, Create, ServerCreates, ThreadStarted, CreateAnswered, GoalSet, RolledBack, Recovery,
    Abandon, Find, Deadline, AbandonAt, Raises, marks, hidden, fates
<1>3. CASE Passes \/ Scan \/ Connection \/ UNCHANGED vars
  BY <1>3 DEF Passes, RecoverDeferred, TryRecover, RecoverGoalSet, PassFails, PassEnds, Raises, Scan, ScanAll,
    ScanUpsert, ScanComplete, Connection, Lose, Reconnect, RecoverUncertainArchives, Retry, vars, marks, hidden,
    fates
<1>4. ASSUME NEW p \in Projects, Project(p)
      PROVE  t \in raised'
  BY <1>4 DEF Project, RemoveProject, AddProject, AddProjectFails, ScanRoot, marks, hidden, fates
<1> QED BY <1>1, <1>2, <1>3, <1>4 DEF Next

\* A session the user has moved is moved by no scan, recovery or late answer
\* (project-indexer.ts 128-162, database.ts 138-168).
THEOREM MovedStay == Spec => MovedStaysMoved
<1>1. ASSUME FamilyInvariant, [Next]_vars, NEW t \in Threads, row[t].origin = "manual", row'[t] # NoRow,
             row'[t].project # row[t].project
      PROVE  moves' = moves + 1
  BY <1>1, StepWritesRows DEF RowMoves
<1> DEFINE Stays == \A t \in Threads :
                       row[t].origin = "manual" /\ row'[t] # NoRow /\ row'[t].project # row[t].project => moves' = moves + 1
<1>2. FamilyInvariant /\ [Next]_vars => [Stays]_vars BY <1>1
<1> QED BY <1>2, FamilyInductive, PTL DEF Spec, MovedStaysMoved

\* Whatever a scan has read, it brings no archived session back, unless the end of the
\* session's own recovery has taken its tombstone away; nor is a move of the user undone
\* (project-indexer.ts 128-162, session-service.ts 1009-1066).
THEOREM ScansRespectUsers == Spec => ScansUndoNothing
<1>1. ASSUME FamilyInvariant, BurialInvariant, [Next]_vars, NEW t \in dead, ~Mapped(t), row'[t] # NoRow
      PROVE  t \in raised'
  <2>1. t \in Threads /\ t \in tombs \cup raised /\ row[t] = NoRow
    BY <1>1 DEF FamilyInvariant, FamilyTypes, TypeOK, BurialInvariant, Buried, Mapped
  <2>2. t \in Children => ~Busy(t) BY <1>1 DEF BurialInvariant, BusyIsUnmapped
  <2>3. t \in raised => t \in raised' \/ row'[t] = row[t] BY <1>1, <2>1, StepRaises
  <2> QED BY <1>1, <2>1, <2>2, <2>3, StepWritesRows DEF RowMoves, MayWrite
<1> DEFINE Respects == \A t \in dead : ~Mapped(t) /\ row'[t] # NoRow => t \in raised'
<1>2. FamilyInvariant /\ BurialInvariant /\ [Next]_vars => [Respects]_vars BY <1>1
<1>3. Spec => ScansRespectArchives BY <1>2, FamilyInductive, BurialInductive, PTL DEF Spec, ScansRespectArchives
<1> QED BY <1>3, MovedStay DEF ScansUndoNothing

----
(* Titles (TitleWorker). *)

CONSTANTS Generations, MaxWire, MaxBreaks
VARIABLES stage, order, titleOutcome, unanswered, hiddenThreads, turnEntries, inputIds, titleLink,
          threads, wire, passedOn, passedLate, breaks

Titles == INSTANCE TitleWorker WITH
    Runs <- Generations, MaxLines <- MaxWire, MaxFaults <- MaxBreaks,
    at <- stage, tail <- order, outcome <- titleOutcome, asked <- unanswered,
    known <- hiddenThreads, turns <- turnEntries, requestIds <- inputIds, conn <- titleLink,
    server <- threads, lines <- wire, forwarded <- passedOn, late <- passedLate,
    faults <- breaks

Quiet == {"item", "request", "resolved", "completed", "silent", "failed", "status"}
WireLine == [kind : Quiet \cup Titles!Answers \cup {"threadStarted"}, run : Generations]
TitleTypes ==
  /\ stage \in [Generations -> {"new", "queued", "starts", "turns", "waits", "cleans",
                                "unsubscribes", "done"}]
  /\ turnEntries \in [Generations -> {"none", "open", "said"}]
  /\ unanswered \in [Generations -> BOOLEAN]
  /\ titleLink \in {"up", "givenUp", "down"}
  /\ threads \in [Generations -> {"none", "asked", "idle", "working", "over", "gone"}]
  /\ wire \in Seq(WireLine)

\* What a title thread says comes after its start, or the thread is known.
StartsComeFirst ==
  titleLink = "up" =>
      \A i \in 1..Len(wire) : wire[i].kind \in Quiet =>
          \/ wire[i].run \in hiddenThreads
          \/ \E j \in 1..(i - 1) : wire[j] = Titles!Line("threadStarted", wire[i].run)
LiveAreAnnounced ==
  titleLink = "up" =>
      \A r \in Generations : threads[r] \in {"idle", "working", "over"} =>
          \/ r \in hiddenThreads
          \/ \E j \in 1..Len(wire) : wire[j] = Titles!Line("threadStarted", r)

\* An App Server that has ended has no threads and says nothing more.
EndedIsSilent ==
  titleLink = "down" => /\ wire = <<>>
                   /\ \A r \in Generations : threads[r] \in {"none", "gone"}
QueuedHaveNone ==
  \A r \in Generations : stage[r] \in {"new", "queued"} => threads[r] = "none"
UnsubscribedAreGone ==
  \A i \in 1..Len(wire) : wire[i].kind = "unsubscribed" => threads[wire[i].run] = "gone"

TitleInvariant ==
  /\ TitleTypes /\ StartsComeFirst /\ LiveAreAnnounced /\ EndedIsSilent
  /\ QueuedHaveNone /\ UnsubscribedAreGone
  /\ Titles!WaitsAreTimed /\ Titles!NothingLeftBehind /\ Titles!GhostsComeLate

LEMMA WireLines ==
  ASSUME TitleTypes
  PROVE  \A i \in 1..Len(wire) : wire[i] \in WireLine /\ wire[i].run \in Generations
<1>1. \A i \in 1..Len(wire) : wire[i] \in WireLine BY DEF TitleTypes
<1>2. \A line \in WireLine : line.run \in Generations BY DEF WireLine
<1> QED BY <1>1, <1>2

LEMMA TitleInit ==
  ASSUME Titles!Init PROVE TitleInvariant
<1>1. TitleTypes BY DEF Titles!Init, TitleTypes
<1> QED
  BY <1>1 DEF Titles!Init, TitleInvariant, StartsComeFirst, LiveAreAnnounced, EndedIsSilent, QueuedHaveNone,
    UnsubscribedAreGone, Titles!WaitsAreTimed, Titles!NothingLeftBehind, Titles!GhostsComeLate

LEMMA TitleAsk ==
  ASSUME TitleInvariant, NEW r \in Generations, Titles!Ask(r) PROVE TitleInvariant'
<1> USE DEF TitleInvariant
<1>1. UNCHANGED <<unanswered, hiddenThreads, turnEntries, titleLink, threads, wire, passedOn, passedLate>>
      /\ stage[r] = "new" /\ stage' = [stage EXCEPT ![r] = "queued"]
  BY DEF Titles!Ask, Titles!ghostVars, Titles!Goes
<1>2. TitleTypes' BY <1>1 DEF TitleTypes
<1>3. (StartsComeFirst /\ LiveAreAnnounced /\ EndedIsSilent /\ UnsubscribedAreGone /\ Titles!GhostsComeLate)'
  BY <1>1 DEF StartsComeFirst, LiveAreAnnounced, EndedIsSilent, UnsubscribedAreGone, Titles!GhostsComeLate
<1>4. (QueuedHaveNone /\ Titles!WaitsAreTimed /\ Titles!NothingLeftBehind)'
  BY <1>1 DEF TitleTypes, QueuedHaveNone, Titles!WaitsAreTimed, Titles!NothingLeftBehind
<1> QED BY <1>2, <1>3, <1>4

LEMMA TitleBegin ==
  ASSUME TitleInvariant, NEW r \in Generations, Titles!Begin(r) PROVE TitleInvariant'
<1> USE DEF TitleInvariant
<1>1. UNCHANGED <<unanswered, hiddenThreads, turnEntries, titleLink, wire, passedOn, passedLate>> /\ stage[r] = "queued"
  BY DEF Titles!Begin, Titles!ghostVars
<1>2. threads[r] = "none" BY <1>1 DEF QueuedHaveNone
<1>3. \/ titleLink = "up" /\ stage' = [stage EXCEPT ![r] = "starts"] /\ threads' = [threads EXCEPT ![r] = "asked"]
      \/ titleLink # "up" /\ stage' = [stage EXCEPT ![r] = "done"] /\ threads' = threads
  BY DEF Titles!Begin, Titles!Goes
<1>4. TitleTypes' BY <1>1, <1>3 DEF TitleTypes
<1>5. (StartsComeFirst /\ Titles!GhostsComeLate)' BY <1>1 DEF StartsComeFirst, Titles!GhostsComeLate
<1>6. (LiveAreAnnounced /\ EndedIsSilent /\ UnsubscribedAreGone)'
  <2>1. \A u \in Generations : threads'[u] = threads[u] \/ (u = r /\ threads'[u] = "asked" /\ titleLink = "up")
    BY <1>3 DEF TitleTypes
  <2>2. LiveAreAnnounced' /\ EndedIsSilent' BY <1>1, <2>1 DEF LiveAreAnnounced, EndedIsSilent
  <2>3. \A i \in 1..Len(wire) : wire[i].run \in Generations BY WireLines
  <2>4. UnsubscribedAreGone' BY <1>1, <1>2, <2>1, <2>3 DEF UnsubscribedAreGone
  <2> QED BY <2>2, <2>4
<1>7. (QueuedHaveNone /\ Titles!WaitsAreTimed /\ Titles!NothingLeftBehind)'
  BY <1>1, <1>2, <1>3 DEF TitleTypes, QueuedHaveNone, Titles!WaitsAreTimed, Titles!NothingLeftBehind
<1> QED BY <1>4, <1>5, <1>6, <1>7

\* The steps by which a generation goes on without the App Server.
LEMMA TitleTimers ==
  ASSUME TitleInvariant, NEW r \in Generations,
         Titles!RequestTimesOut(r) \/ Titles!TurnTimesOut(r) \/ Titles!Clean(r)
  PROVE  TitleInvariant'
<1> USE DEF TitleInvariant
<1>1. UNCHANGED <<hiddenThreads, titleLink, threads, wire, passedOn, passedLate>>
  BY DEF Titles!RequestTimesOut, Titles!TurnTimesOut, Titles!Clean, Titles!ghostVars
<1>2. (StartsComeFirst /\ LiveAreAnnounced /\ EndedIsSilent /\ UnsubscribedAreGone /\ Titles!GhostsComeLate)'
  BY <1>1 DEF StartsComeFirst, LiveAreAnnounced, EndedIsSilent, UnsubscribedAreGone, Titles!GhostsComeLate
<1>3. CASE Titles!RequestTimesOut(r)
  <2>1. /\ unanswered' = [unanswered EXCEPT ![r] = TRUE]
        /\ turnEntries' = [turnEntries EXCEPT ![r] = "none"]
        /\ \E to \in {"done", "cleans"} : stage' = [stage EXCEPT ![r] = to]
    BY <1>3 DEF Titles!RequestTimesOut, Titles!Goes
  <2> QED BY <1>1, <1>2, <2>1 DEF TitleTypes, QueuedHaveNone, Titles!WaitsAreTimed, Titles!NothingLeftBehind
<1>4. CASE Titles!TurnTimesOut(r)
  <2>1. /\ unanswered' = unanswered
        /\ turnEntries' = [turnEntries EXCEPT ![r] = "none"]
        /\ stage' = [stage EXCEPT ![r] = IF @ = "waits" THEN "cleans" ELSE @]
    BY <1>4 DEF Titles!TurnTimesOut, Titles!Goes
  <2> QED BY <1>1, <1>2, <2>1 DEF TitleTypes, QueuedHaveNone, Titles!WaitsAreTimed, Titles!NothingLeftBehind
<1>5. CASE Titles!Clean(r)
  <2>1. /\ unanswered' = [unanswered EXCEPT ![r] = FALSE] /\ turnEntries' = turnEntries
        /\ stage' = [stage EXCEPT ![r] = IF titleLink # "up" THEN "done" ELSE "unsubscribes"]
    BY <1>5 DEF Titles!Clean, Titles!Goes, Titles!NeedsNoCleanup
  <2> QED BY <1>1, <1>2, <2>1 DEF TitleTypes, QueuedHaveNone, Titles!WaitsAreTimed, Titles!NothingLeftBehind
<1> QED BY <1>3, <1>4, <1>5

\* What the App Server writes comes after what it has written.
LEMMA WireGrows ==
  ASSUME TitleTypes, NEW ls \in Seq(WireLine), Titles!Writes(ls)
  PROVE  /\ wire' \in Seq(WireLine) /\ Len(wire') = Len(wire) + Len(ls)
         /\ \A i \in 1..Len(wire) : wire'[i] = wire[i]
         /\ \A i \in 1..Len(wire') : i > Len(wire) => wire'[i] = ls[i - Len(wire)]
BY DEF TitleTypes, Titles!Writes

\* A thread of the App Server writes; lines that are neither answers nor the start are
\* of a thread that lives.
LEMMA ServerWrites ==
  ASSUME TitleInvariant, NEW r \in Generations, NEW ls \in Seq(WireLine), Titles!Writes(ls),
         NEW to \in {"idle", "working", "over", "gone"},
         threads' = [threads EXCEPT ![r] = to], threads[r] \notin {"none", "gone"},
         \A k \in 1..Len(ls) : ls[k].run = r,
         threads[r] = "asked" =>
             /\ \A k \in 1..Len(ls) : ls[k].kind \notin Quiet
             /\ to \in {"idle", "working", "over"} =>
                    \E k \in 1..Len(ls) : ls[k] = Titles!Line("threadStarted", r),
         \A k \in 1..Len(ls) : ls[k].kind = "unsubscribed" => to = "gone"
  PROVE  TitleInvariant'
<1> USE DEF TitleInvariant
<1>1. UNCHANGED <<stage, unanswered, hiddenThreads, turnEntries, titleLink, passedOn, passedLate>> /\ titleLink # "down"
  BY DEF Titles!Writes, Titles!serviceVars, Titles!ghostVars, Titles!Lives
<1>2. /\ wire' \in Seq(WireLine) /\ Len(wire') = Len(wire) + Len(ls) /\ Len(wire) \in Nat /\ Len(ls) \in Nat
      /\ \A i \in 1..Len(wire) : wire'[i] = wire[i]
      /\ \A i \in 1..Len(wire') : i > Len(wire) => wire'[i] = ls[i - Len(wire)]
  BY WireGrows DEF TitleTypes
<1>3. TitleTypes' BY <1>1, <1>2 DEF TitleTypes
<1>4. \A i \in 1..Len(wire') : i > Len(wire) => (i - Len(wire)) \in 1..Len(ls) BY <1>2
<1>5. titleLink = "up" /\ threads[r] # "asked" =>
          r \in hiddenThreads \/ \E j \in 1..Len(wire) : wire[j] = Titles!Line("threadStarted", r)
  BY <1>1 DEF LiveAreAnnounced, TitleTypes
<1>6. StartsComeFirst'
  <2> SUFFICES ASSUME titleLink = "up", NEW i \in 1..Len(wire'), wire'[i].kind \in Quiet
               PROVE  \/ wire'[i].run \in hiddenThreads
                      \/ \E j \in 1..(i - 1) : wire'[j] = Titles!Line("threadStarted", wire'[i].run)
    BY <1>1 DEF StartsComeFirst, Quiet
  <2>1. CASE i \in 1..Len(wire)
    <3>1. 1..(i - 1) \subseteq 1..Len(wire) /\ wire'[i] = wire[i] BY <1>2, <2>1
    <3>2. \/ wire[i].run \in hiddenThreads
          \/ \E j \in 1..(i - 1) : wire[j] = Titles!Line("threadStarted", wire[i].run)
      BY <2>1, <3>1 DEF StartsComeFirst
    <3> QED BY <1>2, <3>1, <3>2
  <2>2. CASE i > Len(wire)
    <3>1. wire'[i].run = r /\ threads[r] # "asked" BY <1>2, <1>4, <2>2
    <3>2. 1..Len(wire) \subseteq 1..(i - 1) BY <1>2, <2>2
    <3> QED BY <1>2, <1>5, <3>1, <3>2
  <2> QED BY <1>2, <2>1, <2>2
<1>7. LiveAreAnnounced'
  <2> SUFFICES ASSUME titleLink = "up", NEW u \in Generations, threads'[u] \in {"idle", "working", "over"}
               PROVE  \/ u \in hiddenThreads
                      \/ \E j \in 1..Len(wire') : wire'[j] = Titles!Line("threadStarted", u)
    BY <1>1 DEF LiveAreAnnounced
  <2>1. 1..Len(wire) \subseteq 1..Len(wire') BY <1>2
  <2>2. CASE u # r \/ threads[r] # "asked"
    <3>1. u \in hiddenThreads \/ \E j \in 1..Len(wire) : wire[j] = Titles!Line("threadStarted", u)
      BY <1>5, <2>2 DEF LiveAreAnnounced, TitleTypes
    <3> QED BY <1>2, <2>1, <3>1
  <2>3. CASE u = r /\ threads[r] = "asked"
    <3>1. PICK k \in 1..Len(ls) : ls[k] = Titles!Line("threadStarted", r) BY <2>3 DEF TitleTypes
    <3>2. Len(wire) + k \in 1..Len(wire') /\ Len(wire) + k > Len(wire) /\ (Len(wire) + k) - Len(wire) = k
      BY <1>2
    <3> QED BY <1>2, <2>3, <3>1, <3>2
  <2> QED BY <2>2, <2>3
<1>8. UnsubscribedAreGone'
  <2> SUFFICES ASSUME NEW i \in 1..Len(wire'), wire'[i].kind = "unsubscribed"
               PROVE  threads'[wire'[i].run] = "gone"
    BY DEF UnsubscribedAreGone
  <2>1. CASE i \in 1..Len(wire)
    <3>1. wire'[i] = wire[i] /\ threads[wire[i].run] = "gone" /\ wire[i].run \in Generations
      BY <1>2, <2>1, WireLines DEF UnsubscribedAreGone
    <3> QED BY <3>1 DEF TitleTypes
  <2>2. CASE i > Len(wire) BY <1>2, <1>4, <2>2 DEF TitleTypes
  <2> QED BY <1>2, <2>1, <2>2
<1>9. EndedIsSilent' /\ Titles!WaitsAreTimed' /\ Titles!GhostsComeLate'
  BY <1>1 DEF EndedIsSilent, Titles!WaitsAreTimed, Titles!GhostsComeLate
<1>10. QueuedHaveNone' /\ Titles!NothingLeftBehind'
  BY <1>1 DEF QueuedHaveNone, Titles!NothingLeftBehind, TitleTypes
<1> QED BY <1>3, <1>6, <1>7, <1>8, <1>9, <1>10

LEMMA TitleServer ==
  ASSUME TitleInvariant, NEW r \in Generations,
         \/ Titles!StartThread(r) \/ Titles!StartTurn(r) \/ Titles!Say(r) \/ Titles!AskInput(r)
         \/ Titles!ResolveInput(r) \/ Titles!EndTurn(r) \/ Titles!Unsubscribe(r)
  PROVE  TitleInvariant'
<1> DEFINE L(kind) == Titles!Line(kind, r)
           One(kind) == <<L(kind)>>
           Two(first, second) == <<L(first), L(second)>>
<1>1. \A kind \in Quiet \cup Titles!Answers \cup {"threadStarted"} :
          /\ L(kind) \in WireLine /\ L(kind).kind = kind /\ L(kind).run = r
  BY DEF Titles!Line, WireLine
<1>2. \A kind \in Quiet \cup Titles!Answers \cup {"threadStarted"} :
          /\ One(kind) \in Seq(WireLine) /\ Len(One(kind)) = 1 /\ One(kind)[1] = L(kind)
  BY <1>1
<1>3. \A first, second \in Quiet \cup Titles!Answers \cup {"threadStarted"} :
          /\ Two(first, second) \in Seq(WireLine) /\ Len(Two(first, second)) = 2
          /\ Two(first, second)[1] = L(first) /\ Two(first, second)[2] = L(second)
  BY <1>1
<1>4. ASSUME NEW kind \in Quiet \cup {"turnAnswer"}, Titles!Writes(One(kind)),
             NEW to \in {"working", "over"}, threads' = [threads EXCEPT ![r] = to],
             threads[r] \in {"idle", "working"}
      PROVE  TitleInvariant'
  <2> DEFINE ls == One(kind)
  <2>1. ls \in Seq(WireLine) /\ Len(ls) = 1 /\ ls[1].run = r /\ ls[1].kind = kind
    BY <1>1, <1>2 DEF Titles!Answers
  <2>2. kind # "unsubscribed" BY DEF Quiet
  <2>3. \A k \in 1..Len(ls) : ls[k].run = r /\ ls[k].kind # "unsubscribed" BY <2>1, <2>2
  <2>4. Titles!Writes(ls) /\ threads[r] # "asked" BY <1>4
  <2> HIDE DEF ls
  <2> QED BY <1>4, <2>1, <2>3, <2>4, ServerWrites
<1>5. CASE Titles!StartThread(r)
  <2> DEFINE a == Two("startAnswer", "threadStarted")
             b == Two("threadStarted", "startAnswer")
  <2>1. PICK ls \in {a, b} : Titles!Writes(ls) BY <1>5 DEF Titles!StartThread
  <2>7. {"startAnswer", "threadStarted"} \subseteq Quiet \cup Titles!Answers \cup {"threadStarted"}
    BY DEF Titles!Answers
  <2>8. ls \in Seq(WireLine) /\ Len(ls) = 2 BY <1>3, <2>1, <2>7
  <2>9. /\ a[1] = L("startAnswer") /\ a[2] = L("threadStarted")
        /\ b[1] = L("threadStarted") /\ b[2] = L("startAnswer")
    BY <1>3, <2>7
  <2>10. \A k \in 1..2 : k = 1 \/ k = 2 OBVIOUS
  <2>2. ls \in Seq(WireLine) /\ Len(ls) = 2 /\ \A k \in 1..2 : ls[k] \in {L("startAnswer"), L("threadStarted")}
    BY <2>1, <2>8, <2>9, <2>10
  <2>3. \E k \in 1..2 : ls[k] = L("threadStarted") BY <1>3 DEF Titles!Answers
  <2>4. \A k \in 1..2 : ls[k].run = r /\ ls[k].kind \in {"startAnswer", "threadStarted"}
    BY <1>1, <2>2 DEF Titles!Answers
  <2>5. \A k \in 1..2 : ls[k].kind \notin Quiet /\ ls[k].kind # "unsubscribed" BY <2>4 DEF Quiet
  <2>6. threads[r] = "asked" /\ threads' = [threads EXCEPT ![r] = "idle"] BY <1>5 DEF Titles!StartThread
  <2> HIDE DEF a, b, Two
  <2> QED BY <2>1, <2>2, <2>3, <2>4, <2>5, <2>6, ServerWrites
<1>6. CASE Titles!StartTurn(r) BY <1>4, <1>6 DEF Titles!StartTurn
<1>7. CASE Titles!Say(r) \/ Titles!AskInput(r) \/ Titles!ResolveInput(r)
  <2>1. threads[r] = "working" /\ threads' = threads
    BY <1>7 DEF Titles!Say, Titles!AskInput, Titles!ResolveInput
  <2>2. threads' = [threads EXCEPT ![r] = "working"] BY <2>1 DEF TitleInvariant, TitleTypes
  <2>3. \E kind \in {"item", "request", "resolved"} : Titles!Writes(One(kind))
    BY <1>7 DEF Titles!Say, Titles!AskInput, Titles!ResolveInput
  <2>4. {"item", "request", "resolved"} \subseteq Quiet BY DEF Quiet
  <2> HIDE DEF One
  <2> QED BY <1>4, <2>1, <2>2, <2>3, <2>4
<1>8. CASE Titles!EndTurn(r)
  <2>1. threads[r] = "working" /\ threads' = [threads EXCEPT ![r] = "over"] BY <1>8 DEF Titles!EndTurn
  <2>2. \E kind \in {"completed", "silent", "failed"} : Titles!Writes(One(kind)) BY <1>8 DEF Titles!EndTurn
  <2>3. {"completed", "silent", "failed"} \subseteq Quiet BY DEF Quiet
  <2> HIDE DEF One
  <2> QED BY <1>4, <2>1, <2>2, <2>3
<1>9. CASE Titles!Unsubscribe(r)
  <2> DEFINE ls == Two("unsubscribed", "status")
  <2>1. Titles!Writes(ls) /\ threads[r] \in {"idle", "working", "over"} /\ threads' = [threads EXCEPT ![r] = "gone"]
    BY <1>9 DEF Titles!Unsubscribe
  <2>2. ls \in Seq(WireLine) /\ Len(ls) = 2 /\ ls[1] = L("unsubscribed") /\ ls[2] = L("status")
    BY <1>3 DEF Titles!Answers, Quiet
  <2>3. \A k \in 1..2 : ls[k].run = r BY <1>1, <2>2 DEF Titles!Answers, Quiet
  <2> HIDE DEF ls
  <2> QED BY <2>1, <2>2, <2>3, ServerWrites
<1> QED BY <1>5, <1>6, <1>7, <1>8, <1>9

\* A line that is handled is not waited for any more; the others move up.
WireShrinks ==
  /\ wire' \in Seq(WireLine) /\ Len(wire') = Len(wire) - 1
  /\ \A i \in 1..Len(wire') : wire'[i] = wire[i + 1] /\ i + 1 \in 1..Len(wire)
LEMMA TitleHandle ==
  ASSUME TitleInvariant, Titles!Handle PROVE TitleInvariant'
<1> USE DEF TitleInvariant
<1> DEFINE line == wire[1]
           r == line.run
<1>1. wire # <<>> /\ wire' = Tail(wire) /\ Head(wire) = line /\ 1 \in 1..Len(wire) /\ Len(wire) \in Nat
      /\ UNCHANGED <<titleLink, threads>>
  BY DEF Titles!Handle, TitleTypes
<1>2. WireShrinks BY <1>1 DEF WireShrinks, TitleTypes
<1>3. line \in WireLine /\ r \in Generations BY <1>1, WireLines
<1>4. titleLink # "down" BY <1>1 DEF EndedIsSilent
<1>5. UnsubscribedAreGone' /\ EndedIsSilent'
  BY <1>1, <1>2, <1>4 DEF UnsubscribedAreGone, EndedIsSilent, WireShrinks
<1>6. ASSUME hiddenThreads \subseteq hiddenThreads',
             line.kind = "threadStarted" => r \in hiddenThreads'
      PROVE  StartsComeFirst' /\ LiveAreAnnounced'
  <2>1. StartsComeFirst'
    <3> SUFFICES ASSUME titleLink = "up", NEW i \in 1..Len(wire'), wire'[i].kind \in Quiet
                 PROVE  \/ wire'[i].run \in hiddenThreads'
                        \/ \E j \in 1..(i - 1) : wire'[j] = Titles!Line("threadStarted", wire'[i].run)
      BY <1>1 DEF StartsComeFirst, Quiet
    <3>1. wire'[i] = wire[i + 1] /\ i + 1 \in 1..Len(wire) /\ i \in Nat BY <1>2 DEF WireShrinks
    <3>2. \/ wire[i + 1].run \in hiddenThreads
          \/ \E j \in 1..((i + 1) - 1) : wire[j] = Titles!Line("threadStarted", wire[i + 1].run)
      BY <3>1 DEF StartsComeFirst
    <3>3. CASE wire[i + 1].run \in hiddenThreads BY <1>6, <3>1, <3>3
    <3>4. ASSUME NEW j \in 1..i, wire[j] = Titles!Line("threadStarted", wire[i + 1].run)
          PROVE  \/ wire'[i].run \in hiddenThreads'
                 \/ \E k \in 1..(i - 1) : wire'[k] = Titles!Line("threadStarted", wire'[i].run)
      <4>1. CASE j = 1 BY <1>6, <3>1, <3>4, <4>1 DEF Titles!Line
      <4>2. CASE j # 1
        <5>1. (j - 1) \in 1..(i - 1) /\ (j - 1) \in 1..Len(wire') /\ (j - 1) + 1 = j
          BY <1>2, <3>1, <4>2 DEF WireShrinks
        <5>2. wire'[j - 1] = wire[j] BY <1>2, <5>1 DEF WireShrinks
        <5> QED BY <3>1, <3>4, <5>1, <5>2
      <4> QED BY <4>1, <4>2
    <3> QED BY <3>1, <3>2, <3>3, <3>4
  <2>2. LiveAreAnnounced'
    <3> SUFFICES ASSUME titleLink = "up", NEW u \in Generations, threads[u] \in {"idle", "working", "over"}
                 PROVE  \/ u \in hiddenThreads'
                        \/ \E k \in 1..Len(wire') : wire'[k] = Titles!Line("threadStarted", u)
      BY <1>1 DEF LiveAreAnnounced
    <3>1. CASE u \in hiddenThreads BY <1>6, <3>1
    <3>2. ASSUME NEW j \in 1..Len(wire), wire[j] = Titles!Line("threadStarted", u)
          PROVE  \/ u \in hiddenThreads'
                 \/ \E k \in 1..Len(wire') : wire'[k] = Titles!Line("threadStarted", u)
      <4>1. CASE j = 1 BY <1>6, <3>2, <4>1 DEF Titles!Line
      <4>2. CASE j # 1
        <5>1. (j - 1) \in 1..Len(wire') /\ (j - 1) + 1 = j BY <1>1, <1>2, <4>2 DEF WireShrinks
        <5>2. wire'[j - 1] = wire[j] BY <1>2, <5>1 DEF WireShrinks
        <5> QED BY <3>2, <5>1, <5>2
      <4> QED BY <4>1, <4>2
    <3> QED BY <3>1, <3>2 DEF LiveAreAnnounced
  <2> QED BY <2>1, <2>2
<1>7. TitleTypes' <=> /\ stage' \in [Generations -> {"new", "queued", "starts", "turns", "waits", "cleans",
                                  "unsubscribes", "done"}]
                      /\ turnEntries' \in [Generations -> {"none", "open", "said"}]
                      /\ unanswered' \in [Generations -> BOOLEAN]
  BY <1>1, <1>2 DEF TitleTypes, WireShrinks
<1>8. CASE line.kind \in Titles!Answers
  <2>1. CASE titleLink # "up"
    <3>1. UNCHANGED <<stage, turnEntries, unanswered, hiddenThreads, passedOn, passedLate>>
      BY <1>1, <1>8, <2>1 DEF Titles!Handle, Titles!serviceVars, Titles!ghostVars
    <3> QED
      BY <1>1, <1>2, <1>5, <1>6, <1>7, <1>8, <3>1 DEF TitleTypes, Titles!Answers, QueuedHaveNone,
        Titles!WaitsAreTimed, Titles!NothingLeftBehind, Titles!GhostsComeLate
  <2>2. CASE titleLink = "up"
    <3>1. Titles!Answered(line) /\ UNCHANGED <<passedOn, passedLate>>
      BY <1>1, <1>8, <2>2 DEF Titles!Handle, Titles!Answered, Titles!ghostVars
    <3>2. unanswered' = unanswered BY <1>8, <3>1 DEF Titles!Answered, Titles!Answers
    <3>3. hiddenThreads \subseteq hiddenThreads' /\ line.kind # "threadStarted"
      BY <1>8, <3>1 DEF Titles!Answered, Titles!Answers, Titles!Started
    <3>4. \/ /\ stage[r] = "starts" /\ stage' = [stage EXCEPT ![r] = "turns"]
             /\ turnEntries' = [turnEntries EXCEPT ![r] = "open"]
          \/ stage' = stage /\ turnEntries' = turnEntries
          \/ /\ stage[r] = "turns" /\ turnEntries' = turnEntries
             /\ \/ stage' = [stage EXCEPT ![r] = "cleans"]
                \/ turnEntries[r] # "none" /\ stage' = [stage EXCEPT ![r] = "waits"]
          \/ /\ stage[r] = "unsubscribes" /\ line.kind = "unsubscribed" /\ turnEntries' = turnEntries
             /\ stage' = [stage EXCEPT ![r] = "done"]
      BY <1>8, <3>1 DEF Titles!Answered, Titles!Answers, Titles!Started, Titles!TurnStarted, Titles!Goes
    <3>5. line.kind = "unsubscribed" => threads[r] = "gone" BY <1>1 DEF UnsubscribedAreGone
    <3>6. TitleTypes' BY <1>3, <1>7, <3>2, <3>4 DEF TitleTypes
    <3>7. (QueuedHaveNone /\ Titles!WaitsAreTimed /\ Titles!NothingLeftBehind)'
      BY <1>1, <1>3, <3>2, <3>4, <3>5 DEF TitleTypes, QueuedHaveNone, Titles!WaitsAreTimed, Titles!NothingLeftBehind
    <3>8. Titles!GhostsComeLate' BY <3>1 DEF Titles!GhostsComeLate
    <3> QED BY <1>5, <1>6, <3>3, <3>6, <3>7, <3>8
  <2> QED BY <2>1, <2>2
<1>9. CASE line.kind \notin Titles!Answers /\ Titles!Hidden(line)
  <2>1. Titles!Absorbed(line) /\ UNCHANGED <<unanswered, passedOn, passedLate>>
    BY <1>1, <1>9 DEF Titles!Handle, Titles!Absorbed, Titles!ghostVars
  <2>2. hiddenThreads \subseteq hiddenThreads' /\ (line.kind = "threadStarted" => r \in hiddenThreads')
    BY <2>1 DEF Titles!Absorbed
  <2>3. \/ stage' = stage /\ turnEntries' = turnEntries
        \/ stage' = stage /\ turnEntries' = [turnEntries EXCEPT ![r] = "said"]
        \/ /\ stage' = [stage EXCEPT ![r] = IF @ = "waits" THEN "cleans" ELSE @]
           /\ turnEntries' = [turnEntries EXCEPT ![r] = "none"]
    BY <2>1 DEF Titles!Absorbed, Titles!Settle, Titles!Goes
  <2>4. TitleTypes' BY <1>3, <1>7, <2>1, <2>3 DEF TitleTypes
  <2>5. (QueuedHaveNone /\ Titles!WaitsAreTimed /\ Titles!NothingLeftBehind)'
    <3>1. ASSUME NEW g \in Generations
          PROVE  /\ stage'[g] = stage[g] \/ (stage[g] = "waits" /\ stage'[g] = "cleans")
                 /\ turnEntries'[g] = turnEntries[g] \/ turnEntries'[g] = "said"
                    \/ (g = r /\ stage'[g] # "waits")
      BY <1>1, <1>3, <2>3 DEF TitleTypes
    <3>2. unanswered' = unanswered BY <2>1
    <3>3. titleLink' = titleLink /\ threads' = threads BY <1>1
    <3>4. ASSUME NEW g \in Generations, stage'[g] \in {"new", "queued"} PROVE stage[g] = stage'[g]
      BY <3>1, <3>4
    <3>5. ASSUME NEW g \in Generations, stage'[g] = "done" PROVE stage[g] = "done" BY <3>1, <3>5
    <3>6. QueuedHaveNone' BY <3>2, <3>3, <3>4 DEF QueuedHaveNone
    <3>7. Titles!WaitsAreTimed' BY <3>1 DEF Titles!WaitsAreTimed
    <3>8. Titles!NothingLeftBehind' BY <3>2, <3>3, <3>5 DEF Titles!NothingLeftBehind
    <3> QED BY <3>6, <3>7, <3>8
  <2>6. Titles!GhostsComeLate' BY <2>1 DEF Titles!GhostsComeLate
  <2> QED BY <1>5, <1>6, <2>2, <2>4, <2>5, <2>6
<1>10. CASE line.kind \notin Titles!Answers /\ ~Titles!Hidden(line)
  <2>1. Titles!PassOn(line) BY <1>1, <1>10 DEF Titles!Handle
  <2>2. UNCHANGED <<stage, turnEntries, unanswered, hiddenThreads>>
    BY <2>1 DEF Titles!PassOn, Titles!serviceVars
  <2>3. titleLink # "up"
    <3>1. line.kind \in Quiet /\ r \notin hiddenThreads BY <1>3, <1>10 DEF Titles!Hidden, WireLine
    <3>2. ~ \E j \in 1..(1 - 1) : TRUE OBVIOUS
    <3> QED BY <1>1, <3>1, <3>2 DEF StartsComeFirst
  <2>4. titleLink = "givenUp" BY <1>4, <2>3 DEF TitleTypes
  <2>5. Titles!GhostsComeLate' BY <2>1, <2>4 DEF Titles!PassOn, Titles!GhostsComeLate
  <2> QED
    BY <1>1, <1>5, <1>6, <1>7, <1>10, <2>2, <2>5 DEF TitleTypes, QueuedHaveNone, Titles!Hidden,
      Titles!WaitsAreTimed, Titles!NothingLeftBehind
<1> QED BY <1>8, <1>9, <1>10

LEMMA TitleLink ==
  ASSUME TitleInvariant, Titles!GiveUp \/ Titles!Exit \/ Titles!Restart PROVE TitleInvariant'
<1> USE DEF TitleInvariant
<1>1. UNCHANGED <<passedOn, passedLate>> BY DEF Titles!GiveUp, Titles!Exit, Titles!Restart, Titles!ghostVars
<1>2. ASSUME Titles!Disconnect
      PROVE  /\ stage' \in [Generations -> {"new", "queued", "starts", "turns", "waits", "cleans",
                                           "unsubscribes", "done"}]
             /\ turnEntries' \in [Generations -> {"none", "open", "said"}]
             /\ unanswered' = unanswered
             /\ \A r \in Generations : /\ stage'[r] # "waits"
                                       /\ stage'[r] \in {"new", "queued"} => stage'[r] = stage[r]
  BY <1>2 DEF Titles!Disconnect, Titles!Rejected, Titles!Cancelled, TitleTypes
<1>3. CASE Titles!GiveUp
  <2>1. UNCHANGED <<threads, wire>> /\ titleLink' = "givenUp" /\ Titles!Disconnect BY <1>3 DEF Titles!GiveUp
  <2> QED
    BY <1>1, <1>2, <2>1 DEF TitleTypes, StartsComeFirst, LiveAreAnnounced, EndedIsSilent, QueuedHaveNone,
      UnsubscribedAreGone, Titles!WaitsAreTimed, Titles!NothingLeftBehind, Titles!GhostsComeLate
<1>4. CASE Titles!Exit
  <2>1. /\ titleLink' = "down" /\ wire' = <<>>
        /\ threads' = [r \in Generations |-> IF threads[r] = "none" THEN "none" ELSE "gone"]
    BY <1>4 DEF Titles!Exit
  <2>2. /\ stage' \in [Generations -> {"new", "queued", "starts", "turns", "waits", "cleans",
                                         "unsubscribes", "done"}]
        /\ turnEntries' \in [Generations -> {"none", "open", "said"}]
        /\ unanswered' = unanswered
        /\ \A r \in Generations : /\ stage'[r] = "waits" => turnEntries'[r] # "none"
                                  /\ stage'[r] \in {"new", "queued"} => stage'[r] = stage[r]
    BY <1>2, <1>4 DEF Titles!Exit, Titles!serviceVars, TitleTypes, Titles!WaitsAreTimed
  <2>3. TitleTypes' BY <2>1, <2>2 DEF TitleTypes
  <2> QED
    BY <1>1, <2>1, <2>2, <2>3 DEF StartsComeFirst, LiveAreAnnounced, EndedIsSilent, QueuedHaveNone,
      UnsubscribedAreGone, Titles!WaitsAreTimed, Titles!NothingLeftBehind, Titles!GhostsComeLate
<1>5. CASE Titles!Restart
  <2>1. UNCHANGED <<stage, turnEntries, unanswered, hiddenThreads, threads, wire>>
        /\ titleLink = "down" /\ titleLink' = "up"
    BY <1>5 DEF Titles!Restart, Titles!serviceVars
  <2> QED
    BY <1>1, <2>1 DEF TitleTypes, StartsComeFirst, LiveAreAnnounced, EndedIsSilent, QueuedHaveNone,
      UnsubscribedAreGone, Titles!WaitsAreTimed, Titles!NothingLeftBehind, Titles!GhostsComeLate
<1> QED BY <1>3, <1>4, <1>5

\* TitleWorker, for every set of generations and all bounds: as long as its connection is not
\* given up, nothing of a title thread is taken for an event of a session; a generation that
\* waits has the entry whose timer ends it; and one that is over leaves no thread behind.
THEOREM TitlesStayHidden ==
  Titles!Spec => [](Titles!GhostsComeLate /\ Titles!WaitsAreTimed /\ Titles!NothingLeftBehind)
<1>1. Titles!Init => TitleInvariant BY TitleInit
<1>2. TitleInvariant /\ [Titles!Next]_(Titles!vars) => TitleInvariant'
  <2> SUFFICES ASSUME TitleInvariant, [Titles!Next]_(Titles!vars) PROVE TitleInvariant' OBVIOUS
  <2>1. CASE UNCHANGED Titles!vars
    BY <2>1 DEF Titles!vars, TitleInvariant, TitleTypes, StartsComeFirst, LiveAreAnnounced, EndedIsSilent,
      QueuedHaveNone, UnsubscribedAreGone, Titles!WaitsAreTimed, Titles!NothingLeftBehind, Titles!GhostsComeLate
  <2>2. CASE Titles!Next
    BY <2>2, TitleAsk, TitleBegin, TitleTimers, TitleServer, TitleHandle, TitleLink DEF Titles!Next
  <2> QED BY <2>1, <2>2
<1>3. TitleInvariant => Titles!GhostsComeLate /\ Titles!WaitsAreTimed /\ Titles!NothingLeftBehind
  BY DEF TitleInvariant
<1> QED BY <1>1, <1>2, <1>3, PTL DEF Titles!Spec

----
(* What the list and the page show of a session (SessionDetails). *)

CONSTANTS ListedSessions, ForkedSessions, UserActs, GoalSlots, ForkSlots, MaxActs, MaxMishaps
VARIABLES atServer, inList, forgotten, lives, cachedShot, cachedGoal, goalLoads, tried,
          titling, openArchives, slotJobs, outbox, acts, mishaps

Detail == INSTANCE SessionDetails WITH
    Sessions <- ListedSessions, Forked <- ForkedSessions, Kinds <- UserActs,
    GoalLoads <- GoalSlots, ForkLoads <- ForkSlots, MaxChanges <- MaxActs,
    MaxTroubles <- MaxMishaps,
    thread <- atServer, row <- inList, removed <- forgotten, life <- lives,
    snapshot <- cachedShot, presence <- cachedGoal, loading <- goalLoads, attempted <- tried,
    naming <- titling, unsure <- openArchives, job <- slotJobs, lines <- outbox,
    changes <- acts, troubles <- mishaps

UserKinds == {"read", "rename", "setGoal", "clearGoal", "archive"}
DetailConstants ==
  /\ UserActs \subseteq UserKinds /\ GoalSlots \cap ForkSlots = {}
  /\ "locked" \notin GoalSlots \cup ForkSlots /\ "all" \notin GoalSlots \cup ForkSlots

Errands == {"goal", "meta", "turns", "rename", "setGoal", "clearGoal", "archive"}
WorkKinds == UserKinds \cup {"goals", "forks", "title"}
Values == {"absent", "none", "auto", "user", "yes", "no", "unknown", "runs", "done", "ok", "refused"}
YesOrNo == {TRUE, FALSE}
WorkType == [kind : WorkKinds \cup {"none"}, asked : SUBSET Errands, sent : SUBSET Errands,
             got : SUBSET Errands, refused : YesOrNo, name : Values, turn : Values,
             goal : Values, life : Nat, since : Nat]
ThreadType == [name : {"none", "auto", "user"}, goal : {"yes", "no"},
               turn : {"none", "runs", "done"}, archived : YesOrNo]
ReplyType == [s : ListedSessions, what : Errands \cup {"name", "turn"}, value : Values,
              to : Detail!Slots \cup {"all"}]
DetailTypes ==
  /\ atServer \in [ListedSessions -> ThreadType] /\ lives \in [ListedSessions -> Nat]
  /\ cachedShot \in [ListedSessions -> [name : Values, turn : Values, life : Nat]]
  /\ cachedGoal \in [ListedSessions -> [goal : Values, life : Nat]]
  /\ slotJobs \in [ListedSessions -> [Detail!Slots -> WorkType]]
  /\ outbox \in Seq(ReplyType)

\* What a job of a kind asks for, and which kinds a slot is for.
MayAsk(kind) ==
  CASE kind = "goals" -> {"goal"}
    [] kind = "read" -> {"goal", "meta", "turns"}
    [] kind = "forks" -> {"meta", "turns"}
    [] kind = "title" -> {"meta", "turns", "rename"}
    [] OTHER -> {kind}
KindsOf(k) ==
  IF k = "locked" THEN UserKinds \cup {"title"} ELSE IF k \in GoalSlots THEN {"goals"} ELSE {"forks"}

\* A job in slot k of a session in its life `now`: it asks for its Turns when it has the
\* thread, and what it was told is of a life since it began.
WorkFits(j, k, now) ==
  /\ j.kind = "none" => j = Detail!NoJob
  /\ j.kind # "none" =>
      /\ j.kind \in KindsOf(k)
      /\ Detail!FirstRequests(j.kind) \subseteq j.sent /\ j.sent \subseteq MayAsk(j.kind)
      /\ j.asked \subseteq j.sent /\ j.got \subseteq j.sent /\ j.asked \cap j.got = {}
      /\ \A r \in j.sent \ Detail!FirstRequests(j.kind) : "meta" \in j.got
      /\ j.life <= now
      /\ ~j.refused /\ j.asked # Detail!FirstRequests(j.kind) => j.life <= j.since /\ j.since <= now
      /\ k # "locked" /\ j.refused => j.asked = {}
JobsFit == \A s \in ListedSessions : \A k \in Detail!Slots : WorkFits(slotJobs[s][k], k, lives[s])

\* An answer under way is of a request that was served and has no other answer.
ReplyFits(l, j) ==
  /\ l.what \in j.sent /\ l.what \notin j.asked /\ l.what \notin j.got
  /\ l.to # "locked" => ~j.refused
OutboxFits ==
  \A i \in 1..Len(outbox) : outbox[i].to # "all" =>
      ReplyFits(outbox[i], slotJobs[outbox[i].s][outbox[i].to])
SameErrand(l, m) == l.to # "all" /\ l.s = m.s /\ l.to = m.to /\ l.what = m.what
AnsweredOnce ==
  \A h, i \in 1..Len(outbox) : SameErrand(outbox[h], outbox[i]) => h = i

\* A read whose requests were not refused is of a session that is there.
ToLocked(l, s) == l.s = s /\ l.to = "locked"
Failing(s) ==
  \/ slotJobs[s]["locked"].refused
  \/ \E i \in 1..Len(outbox) : ToLocked(outbox[i], s) /\ outbox[i].value = "refused"
ReadIsOfTheLiving(s) ==
  slotJobs[s]["locked"].kind = "read" =>
      /\ s \notin inList => atServer[s].archived
      /\ ~Failing(s) /\ slotJobs[s]["locked"].asked # {"goal", "meta"} =>
          ~atServer[s].archived /\ s \in inList /\ slotJobs[s]["locked"].since = lives[s]

\* An automatic title that may go out is of a session without a name of the user.
TitleIsWanted(s) ==
  slotJobs[s]["locked"].kind = "title" =>
      \/ atServer[s].name # "user"
      \/ /\ "rename" \notin slotJobs[s]["locked"].asked
         /\ "meta" \in slotJobs[s]["locked"].got => slotJobs[s]["locked"].name # "none"
         /\ \A i \in 1..Len(outbox) :
              ToLocked(outbox[i], s) /\ outbox[i].what = "meta" => outbox[i].value # "none"

DetailInvariant ==
  /\ DetailTypes /\ JobsFit /\ OutboxFits /\ AnsweredOnce
  /\ \A s \in ListedSessions :
      ReadIsOfTheLiving(s) /\ TitleIsWanted(s) /\ (s \notin inList => s \in forgotten)
  /\ Detail!LateLoadsReviveNothing

----
LEMMA FirstErrands ==
  /\ Detail!FirstRequests("goals") = {"goal"} /\ Detail!FirstRequests("read") = {"goal", "meta"}
  /\ Detail!FirstRequests("forks") = {"meta"} /\ Detail!FirstRequests("title") = {"meta"}
  /\ \A kind \in UserKinds \ {"read"} : Detail!FirstRequests(kind) = {kind}
BY DEF Detail!FirstRequests, UserKinds

LEMMA ErrandsOfKinds ==
  /\ MayAsk("goals") = {"goal"} /\ MayAsk("read") = {"goal", "meta", "turns"}
  /\ MayAsk("forks") = {"meta", "turns"} /\ MayAsk("title") = {"meta", "turns", "rename"}
  /\ \A kind \in UserKinds \ {"read"} : MayAsk(kind) = {kind}
BY DEF MayAsk, UserKinds

LEMMA KindsAsk ==
  ASSUME NEW kind \in WorkKinds
  PROVE  /\ Detail!FirstRequests(kind) \subseteq MayAsk(kind) /\ MayAsk(kind) \subseteq Errands
         /\ "turns" \notin Detail!FirstRequests(kind) /\ Detail!FirstRequests(kind) # {}
         /\ "rename" \in MayAsk(kind) => kind \in {"rename", "title"}
         /\ "archive" \in MayAsk(kind) => kind = "archive"
         /\ "meta" \in MayAsk(kind) => /\ kind \in {"read", "forks", "title"} /\ "turns" \in MayAsk(kind)
                                       /\ "meta" \in Detail!FirstRequests(kind)
BY FirstErrands, ErrandsOfKinds DEF WorkKinds, UserKinds, Errands

LEMMA SlotKinds ==
  ASSUME DetailConstants
  PROVE  /\ KindsOf("locked") = UserKinds \cup {"title"}
         /\ \A k \in GoalSlots : KindsOf(k) = {"goals"} /\ k # "locked" /\ k # "all"
         /\ \A k \in ForkSlots : KindsOf(k) = {"forks"} /\ k # "locked" /\ k # "all"
         /\ \A k \in Detail!Slots : KindsOf(k) \subseteq WorkKinds /\ "none" \notin KindsOf(k) /\ k # "all"
         /\ Detail!Slots = {"locked"} \cup GoalSlots \cup ForkSlots
BY DEF DetailConstants, KindsOf, Detail!Slots, WorkKinds, UserKinds

LEMMA NoJobFits ==
  /\ Detail!NoJob \in WorkType /\ Detail!NoJob.kind = "none"
  /\ \A k, now : WorkFits(Detail!NoJob, k, now)
  /\ Detail!NoJob.sent = {}
BY DEF Detail!NoJob, WorkType, WorkFits, YesOrNo, Values

\* A job that may differ from j in one field.
DiffersIn(n, j, field) ==
  /\ n \in WorkType
  /\ field # "kind" => n.kind = j.kind
  /\ field # "asked" => n.asked = j.asked
  /\ field # "sent" => n.sent = j.sent
  /\ field # "got" => n.got = j.got
  /\ field # "refused" => n.refused = j.refused
  /\ field # "name" => n.name = j.name
  /\ field # "turn" => n.turn = j.turn
  /\ field # "goal" => n.goal = j.goal
  /\ field # "life" => n.life = j.life
  /\ field # "since" => n.since = j.since

LEMMA WorkChanges ==
  ASSUME NEW j \in WorkType
  PROVE  /\ \A v \in WorkKinds \cup {"none"} :
              DiffersIn([j EXCEPT !.kind = v], j, "kind") /\ [j EXCEPT !.kind = v].kind = v
         /\ \A v \in SUBSET Errands :
              DiffersIn([j EXCEPT !.asked = v], j, "asked") /\ [j EXCEPT !.asked = v].asked = v
         /\ \A v \in SUBSET Errands :
              DiffersIn([j EXCEPT !.sent = v], j, "sent") /\ [j EXCEPT !.sent = v].sent = v
         /\ \A v \in SUBSET Errands :
              DiffersIn([j EXCEPT !.got = v], j, "got") /\ [j EXCEPT !.got = v].got = v
         /\ \A v \in YesOrNo :
              DiffersIn([j EXCEPT !.refused = v], j, "refused") /\ [j EXCEPT !.refused = v].refused = v
         /\ \A v \in Values :
              DiffersIn([j EXCEPT !.name = v], j, "name") /\ [j EXCEPT !.name = v].name = v
         /\ \A v \in Values :
              DiffersIn([j EXCEPT !.turn = v], j, "turn") /\ [j EXCEPT !.turn = v].turn = v
         /\ \A v \in Values :
              DiffersIn([j EXCEPT !.goal = v], j, "goal") /\ [j EXCEPT !.goal = v].goal = v
         /\ \A v \in Nat :
              DiffersIn([j EXCEPT !.life = v], j, "life") /\ [j EXCEPT !.life = v].life = v
         /\ \A v \in Nat :
              DiffersIn([j EXCEPT !.since = v], j, "since") /\ [j EXCEPT !.since = v].since = v
BY DEF WorkType, DiffersIn

LEMMA NewJob ==
  ASSUME DetailTypes, NEW s \in ListedSessions, NEW kind \in WorkKinds
  PROVE  /\ Detail!Job(kind, s) \in WorkType /\ Detail!Job(kind, s).kind = kind
         /\ Detail!Job(kind, s).asked = Detail!FirstRequests(kind)
         /\ Detail!Job(kind, s).sent = Detail!FirstRequests(kind)
         /\ Detail!Job(kind, s).got = {} /\ Detail!Job(kind, s).refused = FALSE
         /\ Detail!Job(kind, s).life = lives[s]
<1>1. lives[s] \in Nat BY DEF DetailTypes
<1>2. Detail!FirstRequests(kind) \in SUBSET Errands BY KindsAsk
<1> DEFINE first == Detail!FirstRequests(kind)
           one == [Detail!NoJob EXCEPT !.kind = kind]
           two == [one EXCEPT !.asked = first]
           three == [two EXCEPT !.sent = first]
<1>3. /\ Detail!NoJob \in WorkType /\ Detail!NoJob.got = {} /\ Detail!NoJob.refused = FALSE
  BY DEF Detail!NoJob, WorkType, YesOrNo, Values
<1>4. one \in WorkType /\ one.kind = kind /\ one.got = {} /\ one.refused = FALSE
  BY <1>3, WorkChanges DEF DiffersIn
<1>9. first \in SUBSET Errands BY <1>2
<1>5. two = [one EXCEPT !.asked = first] /\ three = [two EXCEPT !.sent = first] OBVIOUS
<1>6. Detail!Job(kind, s) = [three EXCEPT !.life = lives[s]] BY DEF Detail!Job
<1> HIDE DEF one, two, three, first
<1>7. two \in WorkType /\ two.kind = kind /\ two.asked = first /\ two.got = {} /\ two.refused = FALSE
  BY <1>9, <1>4, <1>5, WorkChanges DEF DiffersIn
<1>8. /\ three \in WorkType /\ three.kind = kind /\ three.asked = first /\ three.sent = first
      /\ three.got = {} /\ three.refused = FALSE
  <2>1. DiffersIn(three, two, "sent") /\ three.sent = first BY <1>9, <1>5, <1>7, WorkChanges
  <2> QED BY <2>1, <1>7 DEF DiffersIn
<1> QED BY <1>1, <1>6, <1>8, WorkChanges DEF DiffersIn, first

LEMMA NewJobFits ==
  ASSUME DetailConstants, DetailTypes, NEW s \in ListedSessions, NEW k \in Detail!Slots, NEW kind \in KindsOf(k)
  PROVE  WorkFits(Detail!Job(kind, s), k, lives[s])
<1>1. kind \in WorkKinds /\ kind # "none" BY SlotKinds
<1>2. lives[s] \in Nat BY DEF DetailTypes
<1>3. Detail!FirstRequests(kind) \subseteq MayAsk(kind) BY <1>1, KindsAsk
<1> QED
  <2> DEFINE j == Detail!Job(kind, s)
  <2>1. /\ j.kind = kind /\ j.asked = Detail!FirstRequests(kind) /\ j.sent = Detail!FirstRequests(kind)
        /\ j.got = {} /\ j.refused = FALSE /\ j.life = lives[s]
    BY <1>1, NewJob
  <2> HIDE DEF j
  <2>2. WorkFits(j, k, lives[s]) BY <1>1, <1>2, <1>3, <2>1 DEF WorkFits
  <2> QED BY <2>2 DEF j

\* Who has asked for nothing is answered nothing.
LEMMA UnaskedIsUnanswered ==
  ASSUME DetailInvariant, NEW s \in ListedSessions, NEW k \in Detail!Slots,
         slotJobs[s][k].kind = "none" \/ slotJobs[s][k].sent \subseteq slotJobs[s][k].got,
         NEW i \in 1..Len(outbox), outbox[i].to # "all"
  PROVE  ~(outbox[i].s = s /\ outbox[i].to = k)
<1>1. ReplyFits(outbox[i], slotJobs[outbox[i].s][outbox[i].to]) BY DEF DetailInvariant, OutboxFits
<1>2. WorkFits(slotJobs[s][k], k, lives[s]) BY DEF DetailInvariant, JobsFit
<1> QED BY <1>1, <1>2, NoJobFits DEF ReplyFits, WorkFits

LEMMA ReplyTypes ==
  ASSUME DetailTypes
  PROVE  \A i \in 1..Len(outbox) :
            outbox[i] \in ReplyType /\ outbox[i].s \in ListedSessions
            /\ (outbox[i].to # "all" => outbox[i].to \in Detail!Slots)
<1>1. outbox \in Seq(ReplyType) BY DEF DetailTypes
<1>2. \A i \in 1..Len(outbox) : outbox[i] \in ReplyType BY <1>1
<1>3. \A l \in ReplyType : l.s \in ListedSessions /\ l.to \in Detail!Slots \cup {"all"} BY DEF ReplyType
<1> QED BY <1>2, <1>3

----
(* Operations and loads begin. *)

WorkKept == JobsFit /\ OutboxFits /\ AnsweredOnce /\ \A s \in ListedSessions : ReadIsOfTheLiving(s) /\ TitleIsWanted(s)

Begun(s, k) ==
  /\ slotJobs[s][k].kind = "none"
  /\ \E kind \in KindsOf(k) :
      slotJobs'[s][k] = Detail!Job(kind, s) /\ (kind = "read" => s \in inList)

LEMMA WorkBegins ==
  ASSUME DetailConstants, DetailInvariant, UNCHANGED <<atServer, inList, lives, outbox>>,
         \A s \in ListedSessions : \A k \in Detail!Slots :
             slotJobs'[s][k] = slotJobs[s][k] \/ Begun(s, k)
  PROVE  WorkKept'
<1>0. DetailTypes /\ JobsFit /\ OutboxFits /\ AnsweredOnce BY DEF DetailInvariant
<1>1. ASSUME NEW s \in ListedSessions, NEW k \in Detail!Slots, Begun(s, k)
      PROVE  \E kind \in KindsOf(k) :
                /\ slotJobs'[s][k].kind = kind /\ slotJobs'[s][k].asked = Detail!FirstRequests(kind)
                /\ slotJobs'[s][k].got = {} /\ ~slotJobs'[s][k].refused
                /\ WorkFits(slotJobs'[s][k], k, lives[s])
                /\ (kind = "read" => s \in inList)
                /\ \A i \in 1..Len(outbox) : outbox[i].to # "all" => ~(outbox[i].s = s /\ outbox[i].to = k)
  <2>1. PICK kind \in KindsOf(k) : slotJobs'[s][k] = Detail!Job(kind, s) /\ (kind = "read" => s \in inList)
    BY <1>1 DEF Begun
  <2>2. kind \in WorkKinds BY SlotKinds
  <2>3. WorkFits(Detail!Job(kind, s), k, lives[s]) BY <1>0, NewJobFits
  <2>4. /\ Detail!Job(kind, s).kind = kind /\ Detail!Job(kind, s).asked = Detail!FirstRequests(kind)
        /\ Detail!Job(kind, s).got = {} /\ Detail!Job(kind, s).refused = FALSE
    BY <1>0, <2>2, NewJob
  <2>5. \A i \in 1..Len(outbox) : outbox[i].to # "all" => ~(outbox[i].s = s /\ outbox[i].to = k)
    BY <1>1, UnaskedIsUnanswered DEF Begun
  <2> QED BY <2>1, <2>3, <2>4, <2>5
<1>2. JobsFit'
  <2> SUFFICES ASSUME NEW s \in ListedSessions, NEW k \in Detail!Slots
               PROVE  WorkFits(slotJobs'[s][k], k, lives[s])
    BY DEF JobsFit
  <2> QED BY <1>0, <1>1 DEF JobsFit
<1>3. OutboxFits'
  <2> SUFFICES ASSUME NEW i \in 1..Len(outbox), outbox[i].to # "all"
               PROVE  ReplyFits(outbox[i], slotJobs'[outbox[i].s][outbox[i].to])
    BY DEF OutboxFits
  <2>1. outbox[i].s \in ListedSessions /\ outbox[i].to \in Detail!Slots BY <1>0, ReplyTypes
  <2>2. ~Begun(outbox[i].s, outbox[i].to) BY <1>1, <2>1
  <2> QED BY <1>0, <2>1, <2>2 DEF OutboxFits
<1>4. AnsweredOnce' BY <1>0 DEF AnsweredOnce
<1>5. "locked" \in Detail!Slots /\ "read" \notin KindsOf("locked") \ UserKinds BY SlotKinds
<1>6. ASSUME NEW s \in ListedSessions PROVE ReadIsOfTheLiving(s)' /\ TitleIsWanted(s)'
  <2>0. ReadIsOfTheLiving(s) /\ TitleIsWanted(s) BY DEF DetailInvariant
  <2>1. CASE Begun(s, "locked")
    <3>1. PICK kind \in KindsOf("locked") :
            /\ slotJobs'[s]["locked"].kind = kind /\ slotJobs'[s]["locked"].asked = Detail!FirstRequests(kind)
            /\ slotJobs'[s]["locked"].got = {}
            /\ (kind = "read" => s \in inList)
            /\ \A i \in 1..Len(outbox) : outbox[i].to # "all" => ~(outbox[i].s = s /\ outbox[i].to = "locked")
      BY <1>1, <1>5, <2>1
    <3>2. ReadIsOfTheLiving(s)' BY <3>1, FirstErrands DEF ReadIsOfTheLiving
    <3>3. TitleIsWanted(s)' BY <3>1, FirstErrands DEF TitleIsWanted, ToLocked
    <3> QED BY <3>2, <3>3
  <2>2. CASE ~Begun(s, "locked")
    <3>1. slotJobs'[s]["locked"] = slotJobs[s]["locked"] BY <1>5, <2>2
    <3>2. Failing(s)' = Failing(s) BY <3>1 DEF Failing
    <3> QED BY <2>0, <3>1, <3>2 DEF ReadIsOfTheLiving, TitleIsWanted
  <2> QED BY <2>1, <2>2
<1> QED BY <1>2, <1>3, <1>4, <1>6 DEF WorkKept

DetailChanges == WorkKept' /\ DetailTypes' /\ (\A s \in ListedSessions : s \notin inList' => s \in forgotten')
                 /\ Detail!LateLoadsReviveNothing'

LEMMA DetailPieces ==
  /\ DetailInvariant => /\ DetailTypes /\ WorkKept /\ Detail!LateLoadsReviveNothing
                        /\ \A s \in ListedSessions : s \notin inList => s \in forgotten
  /\ DetailChanges => DetailInvariant'
BY DEF DetailInvariant, DetailChanges, WorkKept

LEMMA ShotsKept ==
  ASSUME DetailInvariant, UNCHANGED <<inList, lives, cachedShot, cachedGoal>>
  PROVE  Detail!LateLoadsReviveNothing'
BY DetailPieces DEF Detail!LateLoadsReviveNothing

LEMMA DetailBegin ==
  ASSUME DetailConstants, DetailInvariant, NEW s \in ListedSessions, NEW kind \in UserActs,
         Detail!Begin(s, kind)
  PROVE  DetailInvariant'
<1>0. DetailTypes /\ "locked" \in Detail!Slots /\ kind \in KindsOf("locked") /\ kind \in WorkKinds
  BY SlotKinds, DetailPieces DEF DetailConstants, WorkKinds
<1>1. /\ slotJobs[s]["locked"].kind = "none" /\ s \in inList
      /\ slotJobs' = [slotJobs EXCEPT ![s]["locked"] = Detail!Job(kind, s)]
      /\ UNCHANGED <<atServer, inList, lives, cachedShot, cachedGoal, outbox>>
      /\ forgotten' \in {forgotten, forgotten \ {s}}
  BY DEF Detail!Begin, Detail!LockIsFree
<1>2. Detail!Job(kind, s) \in WorkType BY <1>0, NewJob
<1>3. DetailTypes' BY <1>0, <1>1, <1>2 DEF DetailTypes
<1>4. \A t \in ListedSessions : \A k \in Detail!Slots :
          IF t = s /\ k = "locked" THEN slotJobs'[t][k] = Detail!Job(kind, s)
                                   ELSE slotJobs'[t][k] = slotJobs[t][k]
  BY <1>0, <1>1 DEF DetailTypes
<1>5. Begun(s, "locked") BY <1>0, <1>1, <1>4 DEF Begun
<1>6. WorkKept' BY <1>1, <1>4, <1>5, WorkBegins
<1>7. \A t \in ListedSessions : t \notin inList' => t \in forgotten' BY <1>1, DetailPieces
<1> QED BY <1>1, <1>3, <1>6, <1>7, ShotsKept, DetailPieces DEF DetailChanges

LEMMA DetailApplyTitle ==
  ASSUME DetailConstants, DetailInvariant, NEW s \in ListedSessions, Detail!ApplyTitle(s)
  PROVE  DetailInvariant'
<1>0. DetailTypes /\ "locked" \in Detail!Slots /\ "title" \in KindsOf("locked") /\ "title" \in WorkKinds
  BY SlotKinds, DetailPieces DEF DetailConstants, WorkKinds
<1>1. /\ slotJobs[s]["locked"].kind = "none"
      /\ slotJobs' \in {slotJobs, [slotJobs EXCEPT ![s]["locked"] = Detail!Job("title", s)]}
      /\ UNCHANGED <<atServer, inList, forgotten, lives, cachedShot, cachedGoal, outbox>>
  BY DEF Detail!ApplyTitle, Detail!LockIsFree, Detail!caches
<1>2. Detail!Job("title", s) \in WorkType BY <1>0, NewJob
<1>7. slotJobs' \in [ListedSessions -> [Detail!Slots -> WorkType]]
  <2>1. slotJobs \in [ListedSessions -> [Detail!Slots -> WorkType]] BY <1>0 DEF DetailTypes
  <2>2. [slotJobs EXCEPT ![s]["locked"] = Detail!Job("title", s)] \in [ListedSessions -> [Detail!Slots -> WorkType]]
    BY <1>0, <1>2, <2>1
  <2> QED BY <1>1, <2>1, <2>2
<1>3. DetailTypes' BY <1>0, <1>1, <1>7 DEF DetailTypes
<1>4. \A t \in ListedSessions : \A k \in Detail!Slots :
          slotJobs'[t][k] = slotJobs[t][k] \/ (t = s /\ k = "locked" /\ slotJobs'[t][k] = Detail!Job("title", s))
  BY <1>0, <1>1 DEF DetailTypes
<1>5. \A t \in ListedSessions : \A k \in Detail!Slots : slotJobs'[t][k] = slotJobs[t][k] \/ Begun(t, k)
  BY <1>0, <1>1, <1>4 DEF Begun
<1>6. WorkKept' BY <1>1, <1>5, WorkBegins
<1> QED BY <1>1, <1>3, <1>6, ShotsKept, DetailPieces DEF DetailChanges

LEMMA DetailList ==
  ASSUME DetailConstants, DetailInvariant, Detail!List
  PROVE  DetailInvariant'
<1>0. DetailTypes BY DetailPieces
<1>1. /\ \A s \in inList : \A kind \in Detail!Loads(s) : Detail!FreeSlots(s, kind) # {}
      /\ slotJobs' = [s \in ListedSessions |-> [k \in Detail!Slots |->
            LET kinds == {kind \in Detail!Loads(s) : Detail!SlotOf(s, kind) = k}
            IN  IF s \in inList /\ kinds # {} THEN Detail!Job(CHOOSE kind \in kinds : TRUE, s)
                ELSE slotJobs[s][k]]]
      /\ forgotten' = forgotten \ inList
      /\ UNCHANGED <<atServer, inList, lives, cachedShot, cachedGoal, outbox>>
  BY DEF Detail!List
<1>2. ASSUME NEW s \in ListedSessions, NEW k \in Detail!Slots
      PROVE  slotJobs'[s][k] = slotJobs[s][k] \/ Begun(s, k)
  <2> DEFINE kinds == {kind \in Detail!Loads(s) : Detail!SlotOf(s, kind) = k}
             one == CHOOSE kind \in kinds : TRUE
  <2>1. slotJobs'[s][k] = IF s \in inList /\ kinds # {} THEN Detail!Job(one, s) ELSE slotJobs[s][k] BY <1>1
  <2>2. CASE s \in inList /\ kinds # {}
    <3>1. one \in kinds BY <2>2
    <3>2. one \in Detail!Loads(s) /\ Detail!SlotOf(s, one) = k BY <3>1
    <3>3. Detail!FreeSlots(s, one) # {} BY <1>1, <2>2, <3>2
    <3>4. k \in Detail!FreeSlots(s, one) BY <3>2, <3>3 DEF Detail!SlotOf
    <3>5. one \in {"goals", "forks"} BY <3>2 DEF Detail!Loads
    <3>6. slotJobs[s][k].kind = "none" /\ one \in KindsOf(k) BY <3>4, <3>5, SlotKinds DEF Detail!FreeSlots
    <3>7. slotJobs'[s][k] = Detail!Job(one, s) BY <2>1, <2>2
    <3> HIDE DEF one
    <3> QED BY <3>5, <3>6, <3>7 DEF Begun
  <2>3. CASE ~(s \in inList /\ kinds # {}) BY <2>1, <2>3
  <2> QED BY <2>2, <2>3
<1>3. WorkKept' BY <1>1, <1>2, WorkBegins
<1>4. ASSUME NEW s \in ListedSessions, NEW k \in Detail!Slots PROVE slotJobs'[s][k] \in WorkType
  <2>1. CASE slotJobs'[s][k] = slotJobs[s][k] BY <1>0, <2>1 DEF DetailTypes
  <2>2. CASE Begun(s, k)
    <3>1. PICK kind \in KindsOf(k) : slotJobs'[s][k] = Detail!Job(kind, s) BY <2>2 DEF Begun
    <3>2. kind \in WorkKinds BY SlotKinds
    <3> QED BY <1>0, <3>1, <3>2, NewJob
  <2> QED BY <1>2, <2>1, <2>2
<1> DEFINE value(s, k) ==
            LET kinds == {kind \in Detail!Loads(s) : Detail!SlotOf(s, kind) = k}
            IN  IF s \in inList /\ kinds # {} THEN Detail!Job(CHOOSE kind \in kinds : TRUE, s)
                ELSE slotJobs[s][k]
<1>5. slotJobs' = [s \in ListedSessions |-> [k \in Detail!Slots |-> value(s, k)]] BY <1>1
<1>6. slotJobs' \in [ListedSessions -> [Detail!Slots -> WorkType]]
  <2> HIDE DEF value
  <2>1. \A s \in ListedSessions : \A k \in Detail!Slots : value(s, k) \in WorkType BY <1>4, <1>5
  <2> QED BY <1>5, <2>1
<1>7. DetailTypes' BY <1>0, <1>1, <1>6 DEF DetailTypes
<1>8. \A s \in ListedSessions : s \notin inList' => s \in forgotten' BY <1>1, DetailPieces
<1> QED BY <1>1, <1>3, <1>7, <1>8, ShotsKept, DetailPieces DEF DetailChanges

----
(* The sessions change, their jobs do not. *)

LEMMA WorkOutlasts ==
  ASSUME DetailInvariant, slotJobs' = slotJobs,
         outbox' = outbox \/ \E e : e.to = "all" /\ outbox' = Append(outbox, e),
         \A t \in ListedSessions :
             /\ lives'[t] \in Nat /\ lives[t] \in Nat /\ lives[t] <= lives'[t]
             /\ atServer'[t].name = atServer[t].name
             /\ \/ /\ lives'[t] = lives[t] /\ (t \in inList <=> t \in inList')
                   /\ atServer'[t].archived = atServer[t].archived
                \/ atServer[t].archived /\ atServer'[t].archived
                \/ t \notin inList /\ t \in inList'
  PROVE  WorkKept'
<1>0. DetailTypes /\ JobsFit /\ OutboxFits /\ AnsweredOnce /\ outbox \in Seq(ReplyType)
  BY DEF DetailInvariant, DetailTypes
<1>1. /\ Len(outbox') >= Len(outbox)
      /\ \A i \in 1..Len(outbox) : outbox'[i] = outbox[i]
      /\ \A i \in 1..Len(outbox') : i \in 1..Len(outbox) \/ outbox'[i].to = "all"
  <2>1. CASE outbox' = outbox BY <1>0, <2>1
  <2>2. ASSUME NEW e, e.to = "all", outbox' = Append(outbox, e) PROVE <1>1 BY <1>0, <2>2
  <2> QED BY <2>1, <2>2
<1>2. JobsFit'
  <2> SUFFICES ASSUME NEW s \in ListedSessions, NEW k \in Detail!Slots
               PROVE  WorkFits(slotJobs[s][k], k, lives'[s])
    BY DEF JobsFit
  <2>1. WorkFits(slotJobs[s][k], k, lives[s]) /\ slotJobs[s][k] \in WorkType BY <1>0 DEF JobsFit, DetailTypes
  <2>2. slotJobs[s][k].life \in Nat /\ slotJobs[s][k].since \in Nat BY <2>1 DEF WorkType
  <2>3. lives'[s] \in Nat /\ lives[s] \in Nat /\ lives[s] <= lives'[s] OBVIOUS
  <2> QED BY <2>1, <2>2, <2>3 DEF WorkFits
<1>3. OutboxFits' BY <1>0, <1>1 DEF OutboxFits
<1>4. AnsweredOnce' BY <1>0, <1>1 DEF AnsweredOnce, SameErrand
<1>5. ASSUME NEW s \in ListedSessions PROVE ReadIsOfTheLiving(s)' /\ TitleIsWanted(s)'
  <2>0. ReadIsOfTheLiving(s) /\ TitleIsWanted(s) BY DEF DetailInvariant
  <2>1. Failing(s) => Failing(s)' BY <1>0, <1>1 DEF Failing
  <2>2. TitleIsWanted(s)' BY <2>0, <1>1 DEF TitleIsWanted, ToLocked
  <2>3. ReadIsOfTheLiving(s)' BY <2>0, <2>1 DEF ReadIsOfTheLiving
  <2> QED BY <2>2, <2>3
<1> QED BY <1>2, <1>3, <1>4, <1>5 DEF WorkKept

LEMMA DetailTitled ==
  ASSUME DetailInvariant, NEW s \in ListedSessions, Detail!Titled(s)
  PROVE  DetailInvariant'
<1>1. UNCHANGED <<atServer, inList, forgotten, lives, cachedShot, cachedGoal, slotJobs, outbox>>
  BY DEF Detail!Titled, Detail!caches
<1> QED
  BY <1>1 DEF DetailInvariant, DetailTypes, JobsFit, OutboxFits, AnsweredOnce, ReadIsOfTheLiving, TitleIsWanted,
    Failing, Detail!LateLoadsReviveNothing

LEMMA DetailTurns ==
  ASSUME DetailInvariant, NEW s \in ListedSessions, Detail!TurnChanges(s) \/ Detail!GoalChanges(s)
  PROVE  DetailInvariant'
<1>0. DetailTypes /\ outbox \in Seq(ReplyType) /\ atServer[s] \in ThreadType BY DetailPieces DEF DetailTypes
<1>1. /\ UNCHANGED <<inList, forgotten, lives, cachedShot, cachedGoal, slotJobs>>
      /\ \E what \in {"goal", "turn"}, value \in Values :
            outbox' = Append(outbox, Detail!Event(s, what, value))
      /\ \/ \E turn \in {"runs", "done"} : atServer' = [atServer EXCEPT ![s].turn = turn]
         \/ \E goal \in {"yes", "no"} : atServer' = [atServer EXCEPT ![s].goal = goal]
  <2>1. CASE Detail!TurnChanges(s)
    <3>1. atServer[s].turn \in {"none", "runs", "done"} BY <1>0 DEF ThreadType
    <3>2. [none |-> "runs", runs |-> "done", done |-> "done"][atServer[s].turn] \in {"runs", "done"} BY <3>1
    <3> QED BY <2>1, <3>2 DEF Detail!TurnChanges, Detail!caches, Values
  <2>2. CASE Detail!GoalChanges(s) BY <2>2 DEF Detail!GoalChanges, Detail!caches, Values
  <2> QED BY <2>1, <2>2
<1>2. PICK what \in {"goal", "turn"}, value \in Values : outbox' = Append(outbox, Detail!Event(s, what, value))
  BY <1>1
<1>3. Detail!Event(s, what, value) \in ReplyType /\ Detail!Event(s, what, value).to = "all"
  BY <1>0 DEF Detail!Event, ReplyType, Errands
<1>4. atServer' \in [ListedSessions -> ThreadType]
      /\ \A t \in ListedSessions : /\ atServer'[t].name = atServer[t].name
                                   /\ atServer'[t].archived = atServer[t].archived
  <2>0. atServer \in [ListedSessions -> ThreadType] BY <1>0 DEF DetailTypes
  <2>1. ASSUME NEW turn \in {"runs", "done"}, atServer' = [atServer EXCEPT ![s].turn = turn]
        PROVE  <1>4
    <3>1. [atServer[s] EXCEPT !.turn = turn] \in ThreadType
          /\ [atServer[s] EXCEPT !.turn = turn].name = atServer[s].name
          /\ [atServer[s] EXCEPT !.turn = turn].archived = atServer[s].archived
      BY <1>0 DEF ThreadType
    <3> QED BY <2>0, <2>1, <3>1
  <2>2. ASSUME NEW goal \in {"yes", "no"}, atServer' = [atServer EXCEPT ![s].goal = goal]
        PROVE  <1>4
    <3>1. [atServer[s] EXCEPT !.goal = goal] \in ThreadType
          /\ [atServer[s] EXCEPT !.goal = goal].name = atServer[s].name
          /\ [atServer[s] EXCEPT !.goal = goal].archived = atServer[s].archived
      BY <1>0 DEF ThreadType
    <3> QED BY <2>0, <2>2, <3>1
  <2> QED BY <1>1, <2>1, <2>2
<1>5. DetailTypes' BY <1>0, <1>1, <1>2, <1>3, <1>4 DEF DetailTypes
<1>6. \A t \in ListedSessions : lives[t] \in Nat BY <1>0 DEF DetailTypes
<1>7. WorkKept' BY <1>1, <1>2, <1>3, <1>4, <1>6, WorkOutlasts
<1> QED BY <1>1, <1>5, <1>7, ShotsKept, DetailPieces DEF DetailChanges

LEMMA DetailReturns ==
  ASSUME DetailInvariant, NEW s \in ListedSessions, Detail!Returns(s)
  PROVE  DetailInvariant'
<1>0. DetailTypes /\ atServer[s] \in ThreadType BY DetailPieces DEF DetailTypes
<1>1. /\ s \notin inList /\ inList' = inList \cup {s}
      /\ atServer' = [atServer EXCEPT ![s].archived = FALSE]
      /\ UNCHANGED <<forgotten, lives, cachedShot, cachedGoal, slotJobs, outbox>>
  BY DEF Detail!Returns, Detail!caches
<1>2. atServer' \in [ListedSessions -> ThreadType]
      /\ \A t \in ListedSessions : /\ atServer'[t].name = atServer[t].name
                                   /\ t # s => atServer'[t].archived = atServer[t].archived
  <2>1. FALSE \in YesOrNo BY DEF YesOrNo
  <2>2. /\ [atServer[s] EXCEPT !.archived = FALSE] \in ThreadType
        /\ [atServer[s] EXCEPT !.archived = FALSE].name = atServer[s].name
    BY <1>0, <2>1 DEF ThreadType
  <2>3. atServer \in [ListedSessions -> ThreadType] BY <1>0 DEF DetailTypes
  <2> QED BY <1>1, <2>2, <2>3
<1>3. DetailTypes' BY <1>0, <1>1, <1>2 DEF DetailTypes
<1>4. \A t \in ListedSessions : lives[t] \in Nat BY <1>0 DEF DetailTypes
<1>8. ASSUME NEW t \in ListedSessions
      PROVE  /\ lives'[t] \in Nat /\ lives[t] \in Nat /\ lives[t] <= lives'[t]
             /\ atServer'[t].name = atServer[t].name
             /\ \/ /\ lives'[t] = lives[t] /\ (t \in inList <=> t \in inList')
                   /\ atServer'[t].archived = atServer[t].archived
                \/ atServer[t].archived /\ atServer'[t].archived
                \/ t \notin inList /\ t \in inList'
  <2>1. lives'[t] \in Nat /\ lives[t] \in Nat /\ lives'[t] = lives[t] /\ atServer'[t].name = atServer[t].name
    BY <1>1, <1>2, <1>4
  <2>2. CASE t = s
    <3>1. t \notin inList /\ t \in inList' BY <1>1, <2>2
    <3> QED BY <2>1, <3>1
  <2>3. CASE t # s
    <3>1. atServer'[t].archived = atServer[t].archived BY <1>2, <2>3
    <3>2. t \in inList <=> t \in inList' BY <1>1, <2>3
    <3> QED BY <2>1, <3>1, <3>2
  <2> QED BY <2>2, <2>3
<1>6. WorkKept' BY <1>1, <1>8, WorkOutlasts
<1>7. Detail!LateLoadsReviveNothing' BY <1>1, DetailPieces DEF Detail!LateLoadsReviveNothing
<1> QED BY <1>1, <1>3, <1>6, <1>7, DetailPieces DEF DetailChanges

LEMMA DetailRecover ==
  ASSUME DetailInvariant, NEW s \in ListedSessions, Detail!RecoverArchive(s)
  PROVE  DetailInvariant'
<1>0. DetailTypes /\ lives[s] \in Nat BY DetailPieces DEF DetailTypes
<1>1. UNCHANGED <<atServer, slotJobs, outbox>> BY DEF Detail!RecoverArchive
<1>2. CASE atServer[s].archived
  <2>1. /\ inList' = inList \ {s} /\ Detail!Forget(s) BY <1>2 DEF Detail!RecoverArchive
  <2>2. /\ cachedShot' = [cachedShot EXCEPT ![s] = Detail!NoSnapshot]
        /\ cachedGoal' = [cachedGoal EXCEPT ![s] = Detail!Unknown]
        /\ forgotten' = forgotten \cup {s} /\ lives' = [lives EXCEPT ![s] = @ + 1]
    BY <2>1 DEF Detail!Forget
  <2>3. Detail!NoSnapshot \in [name : Values, turn : Values, life : Nat] /\ Detail!Unknown \in [goal : Values, life : Nat]
    BY DEF Detail!NoSnapshot, Detail!Unknown, Values
  <2>4. DetailTypes' BY <1>0, <1>1, <2>2, <2>3 DEF DetailTypes
  <2>5. \A t \in ListedSessions : /\ lives'[t] \in Nat /\ lives[t] \in Nat /\ lives[t] <= lives'[t]
                                  /\ t # s => lives'[t] = lives[t]
    BY <1>0, <2>2 DEF DetailTypes
  <2>7. WorkKept' BY <1>1, <1>2, <2>1, <2>5, WorkOutlasts
  <2>8. Detail!LateLoadsReviveNothing'
    BY <1>0, <2>1, <2>2, <2>5, DetailPieces DEF Detail!LateLoadsReviveNothing, DetailTypes
  <2> QED BY <2>1, <2>2, <2>4, <2>7, <2>8, DetailPieces DEF DetailChanges
<1>3. CASE ~atServer[s].archived
  <2>1. UNCHANGED <<inList, forgotten, lives, cachedShot, cachedGoal>> BY <1>3 DEF Detail!RecoverArchive
  <2> QED
    BY <1>1, <2>1 DEF DetailInvariant, DetailTypes, JobsFit, OutboxFits, AnsweredOnce, ReadIsOfTheLiving,
      TitleIsWanted, Failing, Detail!LateLoadsReviveNothing
<1> QED BY <1>2, <1>3

----
(* Operations and loads end. *)

Unanswered(s, k) == \A i \in 1..Len(outbox) : outbox[i].to # "all" => ~(outbox[i].s = s /\ outbox[i].to = k)

LEMMA WorkEnds ==
  ASSUME DetailConstants, DetailInvariant, NEW s \in ListedSessions, NEW k \in Detail!Slots, Unanswered(s, k),
         slotJobs' = [slotJobs EXCEPT ![s][k] = Detail!NoJob], UNCHANGED <<outbox, atServer>>,
         \A t \in ListedSessions :
             /\ lives'[t] \in Nat /\ lives[t] \in Nat /\ lives[t] <= lives'[t]
             /\ (t = s /\ k = "locked") \/ (lives'[t] = lives[t] /\ (t \in inList <=> t \in inList'))
  PROVE  WorkKept' /\ slotJobs' \in [ListedSessions -> [Detail!Slots -> WorkType]]
<1>0. DetailTypes /\ JobsFit /\ OutboxFits /\ AnsweredOnce
      /\ slotJobs \in [ListedSessions -> [Detail!Slots -> WorkType]]
  BY DEF DetailInvariant, DetailTypes
<1>1. \A t \in ListedSessions : \A m \in Detail!Slots :
          slotJobs'[t][m] = IF t = s /\ m = k THEN Detail!NoJob ELSE slotJobs[t][m]
  BY <1>0
<1>2. slotJobs' \in [ListedSessions -> [Detail!Slots -> WorkType]] BY <1>0, NoJobFits
<1>3. JobsFit'
  <2> SUFFICES ASSUME NEW t \in ListedSessions, NEW m \in Detail!Slots
               PROVE  WorkFits(slotJobs'[t][m], m, lives'[t])
    BY DEF JobsFit
  <2>1. CASE t = s /\ m = k BY <1>1, <2>1, NoJobFits
  <2>2. CASE ~(t = s /\ m = k)
    <3>1. slotJobs'[t][m] = slotJobs[t][m] /\ WorkFits(slotJobs[t][m], m, lives[t]) /\ slotJobs[t][m] \in WorkType
      BY <1>0, <1>1, <2>2 DEF JobsFit
    <3>2. slotJobs[t][m].life \in Nat /\ slotJobs[t][m].since \in Nat BY <3>1 DEF WorkType
    <3>3. lives'[t] \in Nat /\ lives[t] \in Nat /\ lives[t] <= lives'[t] OBVIOUS
    <3>4. WorkFits(slotJobs[t][m], m, lives'[t]) BY <3>1, <3>2, <3>3 DEF WorkFits
    <3> QED BY <3>1, <3>4
  <2> QED BY <2>1, <2>2
<1>4. OutboxFits'
  <2> SUFFICES ASSUME NEW i \in 1..Len(outbox), outbox[i].to # "all"
               PROVE  ReplyFits(outbox[i], slotJobs'[outbox[i].s][outbox[i].to])
    BY DEF OutboxFits
  <2>1. outbox[i].s \in ListedSessions /\ outbox[i].to \in Detail!Slots BY <1>0, ReplyTypes
  <2>2. ~(outbox[i].s = s /\ outbox[i].to = k) BY DEF Unanswered
  <2> QED BY <1>0, <1>1, <2>1, <2>2 DEF OutboxFits
<1>5. AnsweredOnce' BY <1>0 DEF AnsweredOnce
<1>6. "locked" \in Detail!Slots BY SlotKinds
<1>7. ASSUME NEW t \in ListedSessions PROVE ReadIsOfTheLiving(t)' /\ TitleIsWanted(t)'
  <2>0. ReadIsOfTheLiving(t) /\ TitleIsWanted(t) BY DEF DetailInvariant
  <2>1. CASE t = s /\ k = "locked"
    <3>1. slotJobs'[t]["locked"].kind = "none" BY <1>1, <1>6, <2>1, NoJobFits
    <3> QED BY <3>1 DEF ReadIsOfTheLiving, TitleIsWanted
  <2>2. CASE ~(t = s /\ k = "locked")
    <3>1. slotJobs'[t]["locked"] = slotJobs[t]["locked"] BY <1>1, <1>6, <2>2
    <3>2. Failing(t)' = Failing(t) BY <3>1 DEF Failing
    <3>3. lives'[t] = lives[t] /\ (t \in inList <=> t \in inList') BY <2>2
    <3> QED BY <2>0, <3>1, <3>2, <3>3 DEF ReadIsOfTheLiving, TitleIsWanted
  <2> QED BY <2>1, <2>2
<1> QED BY <1>2, <1>3, <1>4, <1>5, <1>7 DEF WorkKept

LEMMA CompleteIsAnswered ==
  ASSUME DetailInvariant, NEW s \in ListedSessions, NEW k \in Detail!Slots, Detail!Complete(s, k)
  PROVE  /\ Unanswered(s, k) /\ slotJobs[s][k].kind # "none" /\ ~slotJobs[s][k].refused
         /\ slotJobs[s][k].asked # Detail!FirstRequests(slotJobs[s][k].kind)
         /\ lives[s] \in Nat /\ slotJobs[s][k] \in WorkType
         /\ slotJobs[s][k].life <= slotJobs[s][k].since /\ slotJobs[s][k].since <= lives[s]
<1> DEFINE j == slotJobs[s][k]
<1>1. j.kind # "none" /\ ~j.refused /\ j.sent \subseteq j.got BY DEF Detail!Complete
<1>2. WorkFits(j, k, lives[s]) /\ lives[s] \in Nat /\ j \in WorkType
  BY DEF DetailInvariant, JobsFit, DetailTypes
<1>3. j.kind \in WorkKinds BY <1>1, <1>2 DEF WorkType
<1>4. Detail!FirstRequests(j.kind) # {} BY <1>3, KindsAsk
<1>5. j.asked # Detail!FirstRequests(j.kind) BY <1>1, <1>2, <1>4 DEF WorkFits
<1>6. j.life <= j.since /\ j.since <= lives[s] BY <1>1, <1>2, <1>5 DEF WorkFits
<1>7. Unanswered(s, k) BY <1>1, UnaskedIsUnanswered DEF Unanswered
<1> QED BY <1>1, <1>2, <1>5, <1>6, <1>7

\* What a load writes that is still valid is of the life the session is in.
LEMMA DetailLoaded ==
  ASSUME DetailConstants, DetailInvariant, NEW s \in ListedSessions, NEW k \in Detail!Slots,
         Detail!GoalLoaded(s, k) \/ Detail!ForkLoaded(s, k)
  PROVE  DetailInvariant'
<1> DEFINE j == slotJobs[s][k]
<1>0. DetailTypes /\ k # "locked" /\ k # "all" /\ j \in WorkType /\ lives[s] \in Nat
  BY SlotKinds, DetailPieces DEF Detail!GoalLoaded, Detail!ForkLoaded, DetailTypes
<1>1. /\ slotJobs' = [slotJobs EXCEPT ![s][k] = Detail!NoJob]
      /\ UNCHANGED <<atServer, inList, forgotten, lives, outbox>>
      /\ j.kind # "none"
      /\ j.refused \/ Detail!Complete(s, k)
      /\ \/ UNCHANGED <<cachedShot, cachedGoal>>
         \/ /\ Detail!Complete(s, k) /\ Detail!StillValid(s, k)
            /\ \/ cachedGoal' = [cachedGoal EXCEPT ![s] = Detail!Known(j)] /\ cachedShot' = cachedShot
               \/ cachedShot' = [cachedShot EXCEPT ![s] = Detail!Loaded(s, j)] /\ cachedGoal' = cachedGoal
  BY DEF Detail!GoalLoaded, Detail!ForkLoaded
<1>2. Unanswered(s, k)
  <2>1. CASE Detail!Complete(s, k) BY <2>1, CompleteIsAnswered
  <2>2. CASE j.refused BY <1>0, <2>2 DEF DetailInvariant, OutboxFits, ReplyFits, Unanswered
  <2> QED BY <1>1, <2>1, <2>2
<1>3. \A t \in ListedSessions :
          /\ lives'[t] \in Nat /\ lives[t] \in Nat /\ lives[t] <= lives'[t]
          /\ (t = s /\ k = "locked") \/ (lives'[t] = lives[t] /\ (t \in inList <=> t \in inList'))
  BY <1>0, <1>1 DEF DetailTypes
<1>4. WorkKept' /\ slotJobs' \in [ListedSessions -> [Detail!Slots -> WorkType]] BY <1>1, <1>2, <1>3, WorkEnds
<1>5. /\ Detail!Known(j) \in [goal : Values, life : Nat] /\ Detail!Known(j).life = j.since
      /\ Detail!Loaded(s, j) \in [name : Values, turn : Values, life : Nat] /\ Detail!Loaded(s, j).life = j.since
  BY <1>0 DEF Detail!Known, Detail!Loaded, WorkType
<1> HIDE DEF j
<1>6. DetailTypes' BY <1>0, <1>1, <1>4, <1>5 DEF DetailTypes
<1>7. Detail!LateLoadsReviveNothing'
  <2>1. CASE UNCHANGED <<cachedShot, cachedGoal>> BY <1>1, <2>1, ShotsKept
  <2>2. CASE Detail!Complete(s, k) /\ Detail!StillValid(s, k)
    <3>1. s \in inList BY <2>2, DetailPieces DEF Detail!StillValid
    <3>2. j.since = lives[s] BY <1>0, <2>2, CompleteIsAnswered DEF Detail!StillValid, WorkType, j
    <3> QED BY <1>0, <1>1, <1>5, <3>1, <3>2, DetailPieces DEF Detail!LateLoadsReviveNothing, DetailTypes
  <2> QED BY <1>1, <2>1, <2>2
<1> QED BY <1>1, <1>4, <1>6, <1>7, DetailPieces DEF DetailChanges

LEMMA DetailRefused ==
  ASSUME DetailConstants, DetailInvariant, NEW s \in ListedSessions, Detail!Refused(s)
  PROVE  DetailInvariant'
<1>0. DetailTypes /\ "locked" \in Detail!Slots BY SlotKinds, DetailPieces
<1>1. /\ slotJobs' = [slotJobs EXCEPT ![s]["locked"] = Detail!NoJob]
      /\ UNCHANGED <<atServer, inList, forgotten, lives, cachedShot, cachedGoal, outbox>>
      /\ \A i \in DOMAIN outbox : outbox[i].to = "locked" => outbox[i].s # s
  BY DEF Detail!Refused, Detail!caches
<1>2. outbox \in Seq(ReplyType) BY <1>0 DEF DetailTypes
<1>3. Unanswered(s, "locked") BY <1>1, <1>2 DEF Unanswered
<1>4. \A t \in ListedSessions :
          /\ lives'[t] \in Nat /\ lives[t] \in Nat /\ lives[t] <= lives'[t]
          /\ (t = s /\ "locked" = "locked") \/ (lives'[t] = lives[t] /\ (t \in inList <=> t \in inList'))
  BY <1>0, <1>1 DEF DetailTypes
<1>5. WorkKept' /\ slotJobs' \in [ListedSessions -> [Detail!Slots -> WorkType]]
  BY <1>0, <1>1, <1>3, <1>4, WorkEnds
<1>6. DetailTypes' BY <1>0, <1>1, <1>5 DEF DetailTypes
<1> QED BY <1>1, <1>5, <1>6, ShotsKept, DetailPieces DEF DetailChanges

LEMMA Merges ==
  ASSUME DetailTypes, NEW s \in ListedSessions, NEW j \in WorkType
  PROVE  /\ Detail!Merged(s, j) \in [name : Values, turn : Values, life : Nat]
         /\ Detail!Merged(s, j).life = j.since
         /\ Detail!Known(j) \in [goal : Values, life : Nat] /\ Detail!Known(j).life = j.since
<1> DEFINE turn == IF cachedShot[s] = Detail!NoSnapshot THEN Detail!Loaded(s, j).turn
                   ELSE Detail!Later(Detail!Loaded(s, j).turn, cachedShot[s].turn)
<1>1. /\ Detail!Loaded(s, j) \in [name : Values, turn : Values, life : Nat] /\ Detail!Loaded(s, j).life = j.since
      /\ Detail!Loaded(s, j).turn \in Values
      /\ Detail!Known(j) \in [goal : Values, life : Nat] /\ Detail!Known(j).life = j.since
  BY DEF Detail!Known, Detail!Loaded, WorkType
<1>2. \A a, b : Detail!Later(a, b) \in Values BY DEF Detail!Later, Values
<1>3. turn \in Values BY <1>1, <1>2
<1>4. Detail!Merged(s, j) = [Detail!Loaded(s, j) EXCEPT !.turn = turn] BY DEF Detail!Merged
<1> HIDE DEF turn
<1> QED BY <1>1, <1>3, <1>4

LEMMA DetailDone ==
  ASSUME DetailConstants, DetailInvariant, NEW s \in ListedSessions, Detail!Done(s)
  PROVE  DetailInvariant'
<1> DEFINE j == slotJobs[s]["locked"]
<1>0. /\ DetailTypes /\ "locked" \in Detail!Slots /\ \A t \in ListedSessions : lives[t] \in Nat
      /\ Detail!LateLoadsReviveNothing
  BY SlotKinds, DetailPieces DEF DetailTypes
<1>1. /\ slotJobs' = [slotJobs EXCEPT ![s]["locked"] = Detail!NoJob] /\ UNCHANGED <<atServer, outbox>>
      /\ Detail!Complete(s, "locked")
  BY DEF Detail!Done
<1>2. /\ Unanswered(s, "locked") /\ j \in WorkType /\ ~j.refused
      /\ j.asked # Detail!FirstRequests(j.kind)
  BY <1>0, <1>1, CompleteIsAnswered
<1>3. ASSUME \A t \in ListedSessions :
                /\ lives'[t] \in Nat /\ lives[t] \in Nat /\ lives[t] <= lives'[t]
                /\ t = s \/ (lives'[t] = lives[t] /\ (t \in inList <=> t \in inList'))
      PROVE  WorkKept' /\ slotJobs' \in [ListedSessions -> [Detail!Slots -> WorkType]]
  <2>1. \A t \in ListedSessions :
              /\ lives'[t] \in Nat /\ lives[t] \in Nat /\ lives[t] <= lives'[t]
              /\ (t = s /\ "locked" = "locked") \/ (lives'[t] = lives[t] /\ (t \in inList <=> t \in inList'))
    BY <1>3
  <2> QED BY <1>0, <1>1, <1>2, <2>1, WorkEnds
<1>4. CASE UNCHANGED <<inList, forgotten, lives>>
  <2>1. WorkKept' /\ slotJobs' \in [ListedSessions -> [Detail!Slots -> WorkType]] BY <1>0, <1>3, <1>4
  <2>2. CASE j.kind = "read"
    <3>1. /\ cachedShot' = [cachedShot EXCEPT ![s] = Detail!Merged(s, j)]
          /\ cachedGoal' = [cachedGoal EXCEPT ![s] = Detail!Known(j)]
      BY <2>2 DEF Detail!Done
    <3>2. ~Failing(s) BY <1>2 DEF Failing, Unanswered, ToLocked
    <3>3. s \in inList /\ j.since = lives[s]
      BY <1>2, <2>2, <3>2, FirstErrands DEF DetailInvariant, ReadIsOfTheLiving
    <3>4. /\ Detail!Merged(s, j) \in [name : Values, turn : Values, life : Nat]
          /\ Detail!Merged(s, j).life = j.since
          /\ Detail!Known(j) \in [goal : Values, life : Nat] /\ Detail!Known(j).life = j.since
      BY <1>0, <1>2, Merges
    <3> HIDE DEF j
    <3>5. DetailTypes' BY <1>0, <1>1, <1>4, <2>1, <3>1, <3>4 DEF DetailTypes
    <3>6. Detail!LateLoadsReviveNothing'
      BY <1>0, <1>4, <3>1, <3>3, <3>4 DEF Detail!LateLoadsReviveNothing, DetailTypes
    <3> QED BY <1>4, <2>1, <3>5, <3>6, DetailPieces DEF DetailChanges
  <2>3. CASE j.kind \in {"rename", "title"}
    <3>1. cachedGoal' = cachedGoal /\ \E name \in Values : Detail!Named(s, name)
      <4>1. /\ cachedGoal' = cachedGoal
            /\ Detail!Named(s, IF j.kind = "rename" THEN "user" ELSE IF "rename" \in j.got THEN "auto" ELSE j.name)
        BY <2>3 DEF Detail!Done
      <4>2. (IF j.kind = "rename" THEN "user" ELSE IF "rename" \in j.got THEN "auto" ELSE j.name) \in Values
        BY <1>2 DEF WorkType, Values
      <4> QED BY <4>1, <4>2
    <3>2. PICK name \in Values : Detail!Named(s, name) BY <3>1
    <3>3. cachedShot' = IF cachedShot[s] = Detail!NoSnapshot THEN cachedShot ELSE [cachedShot EXCEPT ![s].name = name]
      BY <3>2 DEF Detail!Named
    <3>4. DetailTypes' BY <1>0, <1>1, <1>4, <2>1, <3>1, <3>3 DEF DetailTypes
    <3>5. Detail!LateLoadsReviveNothing'
      BY <1>0, <1>4, <3>1, <3>3 DEF Detail!LateLoadsReviveNothing, DetailTypes
    <3> QED BY <1>4, <2>1, <3>4, <3>5, DetailPieces DEF DetailChanges
  <2>4. CASE UNCHANGED <<cachedShot, cachedGoal>>
    <3>1. DetailTypes' BY <1>0, <1>1, <1>4, <2>1, <2>4 DEF DetailTypes
    <3> QED BY <1>4, <2>1, <2>4, <3>1, ShotsKept, DetailPieces DEF DetailChanges
  <2>5. CASE j.kind = "archive"
    <3>1. lives' = [lives EXCEPT ![s] = @ + 1] BY <2>5 DEF Detail!Done, Detail!Forget
    <3> QED BY <1>0, <1>4, <3>1 DEF DetailTypes
  <2> QED BY <2>2, <2>3, <2>4, <2>5 DEF Detail!Done, Detail!caches
<1>5. CASE j.kind = "archive" /\ inList' = inList \ {s} /\ Detail!Forget(s)
  <2>1. /\ cachedShot' = [cachedShot EXCEPT ![s] = Detail!NoSnapshot]
        /\ cachedGoal' = [cachedGoal EXCEPT ![s] = Detail!Unknown]
        /\ forgotten' = forgotten \cup {s} /\ lives' = [lives EXCEPT ![s] = @ + 1]
    BY <1>5 DEF Detail!Forget
  <2>2. Detail!NoSnapshot \in [name : Values, turn : Values, life : Nat] /\ Detail!Unknown \in [goal : Values, life : Nat]
    BY DEF Detail!NoSnapshot, Detail!Unknown, Values
  <2>3. \A t \in ListedSessions :
              /\ lives'[t] \in Nat /\ lives[t] \in Nat /\ lives[t] <= lives'[t]
              /\ t = s \/ (lives'[t] = lives[t] /\ (t \in inList <=> t \in inList'))
    BY <1>0, <1>5, <2>1 DEF DetailTypes
  <2>4. WorkKept' /\ slotJobs' \in [ListedSessions -> [Detail!Slots -> WorkType]] BY <1>3, <2>3
  <2>5. DetailTypes' BY <1>0, <1>1, <2>1, <2>2, <2>4 DEF DetailTypes
  <2>6. Detail!LateLoadsReviveNothing' BY <1>0, <1>5, <2>1, <2>3 DEF Detail!LateLoadsReviveNothing, DetailTypes
  <2> QED BY <1>5, <2>1, <2>4, <2>5, <2>6, DetailPieces DEF DetailChanges
<1> QED BY <1>4, <1>5 DEF Detail!Done, Detail!caches

----
(* Requests. *)

LEMMA OneSlot ==
  ASSUME DetailTypes, NEW s \in ListedSessions, NEW k \in Detail!Slots, NEW n \in WorkType,
         slotJobs' = [slotJobs EXCEPT ![s][k] = n]
  PROVE  /\ slotJobs' \in [ListedSessions -> [Detail!Slots -> WorkType]]
         /\ slotJobs'[s][k] = n
         /\ \A t \in ListedSessions : \A m \in Detail!Slots : t # s \/ m # k => slotJobs'[t][m] = slotJobs[t][m]
BY DEF DetailTypes

LEMMA DetailRename ==
  ASSUME DetailConstants, DetailInvariant, NEW s \in ListedSessions, Detail!RenameSent(s)
  PROVE  DetailInvariant'
<1> DEFINE j == slotJobs[s]["locked"]
           one == [j EXCEPT !.asked = {"rename"}]
           n == [one EXCEPT !.sent = one.sent \cup {"rename"}]
<1>0. DetailTypes /\ "locked" \in Detail!Slots /\ j \in WorkType /\ WorkFits(j, "locked", lives[s])
  BY SlotKinds, DetailPieces DEF DetailTypes, WorkKept, JobsFit
<1>1. /\ j.kind = "title" /\ j.got = {"meta", "turns"} /\ "rename" \notin j.sent /\ j.name = "none"
      /\ slotJobs' = [slotJobs EXCEPT ![s]["locked"].asked = {"rename"},
                                      ![s]["locked"].sent = @ \cup {"rename"}]
      /\ UNCHANGED <<atServer, inList, forgotten, lives, cachedShot, cachedGoal, outbox>>
  BY DEF Detail!RenameSent, Detail!Unnamed, Detail!caches
<1>2. slotJobs' = [slotJobs EXCEPT ![s]["locked"] = n]
  <2> DEFINE half == [slotJobs EXCEPT ![s]["locked"].asked = {"rename"}]
  <2>1. half = [slotJobs EXCEPT ![s]["locked"] = one] OBVIOUS
  <2>2. half[s]["locked"] = one BY <1>0 DEF DetailTypes
  <2>3. slotJobs' = [half EXCEPT ![s]["locked"].sent = @ \cup {"rename"}] BY <1>1
  <2> HIDE DEF one
  <2>4. slotJobs' = [half EXCEPT ![s]["locked"] = n] BY <2>2, <2>3
  <2> QED BY <1>0, <2>1, <2>4 DEF DetailTypes
<1>3. /\ DiffersIn(one, j, "asked") /\ one.asked = {"rename"} BY <1>0, WorkChanges DEF Errands
<1>4. one \in WorkType /\ one.sent \cup {"rename"} \in SUBSET Errands
  BY <1>0, <1>3 DEF DiffersIn, WorkType, Errands
<1> HIDE DEF one
<1>5. DiffersIn(n, one, "sent") /\ n.sent = one.sent \cup {"rename"} BY <1>4, WorkChanges
<1>6. /\ n \in WorkType /\ n.kind = "title" /\ n.got = j.got /\ n.refused = j.refused /\ n.name = j.name
      /\ n.life = j.life /\ n.since = j.since /\ n.asked = {"rename"} /\ n.sent = j.sent \cup {"rename"}
  BY <1>1, <1>3, <1>5 DEF DiffersIn
<1> HIDE DEF n
<1>7. j.sent = j.got /\ j.asked = {} BY <1>0, <1>1, ErrandsOfKinds DEF WorkFits
<1>8. WorkFits(n, "locked", lives[s]) BY <1>0, <1>1, <1>6, <1>7, FirstErrands, ErrandsOfKinds DEF WorkFits
<1> HIDE DEF j
<1>9. atServer[s].name # "user" BY <1>1 DEF DetailInvariant, TitleIsWanted, j
<1>10. Unanswered(s, "locked") BY <1>0, <1>7, UnaskedIsUnanswered DEF Unanswered, j
<1>11. /\ slotJobs' \in [ListedSessions -> [Detail!Slots -> WorkType]] /\ slotJobs'[s]["locked"] = n
       /\ \A t \in ListedSessions : \A m \in Detail!Slots : t # s \/ m # "locked" => slotJobs'[t][m] = slotJobs[t][m]
  BY <1>0, <1>2, <1>6, OneSlot
<1>12. JobsFit' BY <1>1, <1>8, <1>11 DEF DetailInvariant, JobsFit
<1>13. OutboxFits'
  <2> SUFFICES ASSUME NEW i \in 1..Len(outbox), outbox[i].to # "all"
               PROVE  ReplyFits(outbox[i], slotJobs'[outbox[i].s][outbox[i].to])
    BY <1>1 DEF OutboxFits
  <2>1. outbox[i].s \in ListedSessions /\ outbox[i].to \in Detail!Slots BY <1>0, ReplyTypes
  <2>2. ~(outbox[i].s = s /\ outbox[i].to = "locked") BY <1>10 DEF Unanswered
  <2> QED BY <1>11, <2>1, <2>2 DEF OutboxFits, DetailInvariant
<1>14. AnsweredOnce' BY <1>1 DEF AnsweredOnce, DetailInvariant
<1>15. ASSUME NEW t \in ListedSessions PROVE ReadIsOfTheLiving(t)' /\ TitleIsWanted(t)'
  <2>1. CASE t = s BY <1>1, <1>6, <1>9, <1>11, <2>1 DEF ReadIsOfTheLiving, TitleIsWanted
  <2>2. CASE t # s
    <3>1. slotJobs'[t]["locked"] = slotJobs[t]["locked"] BY <1>0, <1>11, <2>2
    <3> QED BY <1>1, <3>1 DEF DetailInvariant, ReadIsOfTheLiving, TitleIsWanted, Failing
  <2> QED BY <2>1, <2>2
<1>16. DetailTypes' BY <1>0, <1>1, <1>11 DEF DetailTypes
<1> QED BY <1>1, <1>12, <1>13, <1>14, <1>15, <1>16, ShotsKept, DetailPieces DEF DetailChanges, WorkKept

LEMMA EffectOf ==
  ASSUME DetailTypes, NEW s \in ListedSessions, NEW k, NEW r
  PROVE  /\ Detail!Effect(s, k, r) \in [ListedSessions -> ThreadType]
         /\ \A t \in ListedSessions \ {s} : Detail!Effect(s, k, r)[t] = atServer[t]
         /\ r # "archive" => (Detail!Effect(s, k, r)[s].archived <=> atServer[s].archived)
         /\ r # "rename" => Detail!Effect(s, k, r)[s].name = atServer[s].name
         /\ r = "rename" /\ slotJobs[s][k].kind = "title" => Detail!Effect(s, k, r)[s].name = "auto"
<1>0. atServer \in [ListedSessions -> ThreadType] /\ atServer[s] \in ThreadType /\ TRUE \in YesOrNo
  BY DEF DetailTypes, YesOrNo
<1> DEFINE j == slotJobs[s][k]
           name == IF j.kind = "title" THEN "auto" ELSE "user"
<1>1. CASE r = "rename"
  <2>1. Detail!Effect(s, k, r) = [atServer EXCEPT ![s].name = name] BY <1>1 DEF Detail!Effect
  <2>2. name \in {"none", "auto", "user"} /\ (j.kind = "title" => name = "auto") OBVIOUS
  <2> HIDE DEF name
  <2>3. /\ [atServer[s] EXCEPT !.name = name] \in ThreadType
        /\ [atServer[s] EXCEPT !.name = name].name = name
        /\ [atServer[s] EXCEPT !.name = name].archived <=> atServer[s].archived
    BY <1>0, <2>2 DEF ThreadType
  <2> QED BY <1>0, <1>1, <2>1, <2>2, <2>3
<1>2. CASE r \in {"setGoal", "clearGoal"}
  <2> DEFINE goal == IF r = "setGoal" THEN "yes" ELSE "no"
  <2>1. Detail!Effect(s, k, r) = [atServer EXCEPT ![s].goal = goal] BY <1>2 DEF Detail!Effect
  <2>2. goal \in {"yes", "no"} OBVIOUS
  <2> HIDE DEF goal
  <2>3. /\ [atServer[s] EXCEPT !.goal = goal] \in ThreadType
        /\ [atServer[s] EXCEPT !.goal = goal].name = atServer[s].name
        /\ [atServer[s] EXCEPT !.goal = goal].archived <=> atServer[s].archived
    BY <1>0, <2>2 DEF ThreadType
  <2> QED BY <1>0, <1>2, <2>1, <2>3
<1>3. CASE r = "archive"
  <2>1. Detail!Effect(s, k, r) = [atServer EXCEPT ![s].archived = TRUE] BY <1>3 DEF Detail!Effect
  <2>3. /\ [atServer[s] EXCEPT !.archived = TRUE] \in ThreadType
        /\ [atServer[s] EXCEPT !.archived = TRUE].name = atServer[s].name
    BY <1>0 DEF ThreadType
  <2> QED BY <1>0, <1>3, <2>1, <2>3
<1>4. CASE r \notin {"rename", "setGoal", "clearGoal", "archive"}
  <2>1. Detail!Effect(s, k, r) = atServer BY <1>4 DEF Detail!Effect
  <2> QED BY <1>0, <1>4, <2>1
<1> QED BY <1>1, <1>2, <1>3, <1>4

LEMMA AskedValues ==
  ASSUME DetailTypes, NEW s \in ListedSessions, NEW r
  PROVE  Detail!Asked(s, r) \in Values /\ (r = "meta" => Detail!Asked(s, r) = atServer[s].name)
<1>1. atServer[s] \in ThreadType BY DEF DetailTypes
<1> QED BY <1>1 DEF Detail!Asked, ThreadType, Values

\* What a step of the App Server writes: at most a notification, and an answer.
LEMMA ServeWrites ==
  ASSUME DetailTypes, NEW s \in ListedSessions, NEW k \in Detail!Slots, NEW r \in Errands, Detail!Serve(s, k, r)
  PROVE  \E value \in Values :
           /\ Len(outbox') \in Nat /\ Len(outbox') > Len(outbox) /\ outbox' \in Seq(ReplyType)
           /\ \A i \in 1..Len(outbox) : i \in 1..Len(outbox') /\ outbox'[i] = outbox[i]
           /\ \A i \in 1..Len(outbox') : i > Len(outbox) /\ i # Len(outbox') => outbox'[i].to = "all"
           /\ outbox'[Len(outbox')] = Detail!Answer(s, k, r, value)
           /\ \/ value = "refused" /\ atServer' = atServer
              \/ /\ ~atServer[s].archived /\ atServer' = Detail!Effect(s, k, r)
                 /\ r = "meta" => value = atServer[s].name
<1>0. outbox \in Seq(ReplyType) /\ "all" \in Detail!Slots \cup {"all"} /\ k \in Detail!Slots \cup {"all"}
  BY DEF DetailTypes
<1>1. CASE /\ ~atServer[s].archived
           /\ atServer' = Detail!Effect(s, k, r)
           /\ outbox' = outbox \o Detail!Told(s, k, r) \o <<Detail!Answer(s, k, r, Detail!Asked(s, r))>>
  <2> DEFINE value == Detail!Asked(s, r)
             last == Detail!Answer(s, k, r, value)
             mid == outbox \o Detail!Told(s, k, r)
  <2>1. value \in Values /\ (r = "meta" => value = atServer[s].name) BY AskedValues
  <2> HIDE DEF value
  <2>2. last \in ReplyType BY <1>0, <2>1 DEF Detail!Answer, ReplyType
  <2>3. Detail!Told(s, k, r) = <<>>
        \/ \E what \in {"name", "goal"}, v \in Values : Detail!Told(s, k, r) = <<Detail!Event(s, what, v)>>
    BY DEF Detail!Told, Values
  <2>4. /\ mid \in Seq(ReplyType) /\ Len(mid) >= Len(outbox)
        /\ \A i \in 1..Len(outbox) : i \in 1..Len(mid) /\ mid[i] = outbox[i]
        /\ \A i \in 1..Len(mid) : i > Len(outbox) => mid[i].to = "all"
    <3>1. CASE Detail!Told(s, k, r) = <<>> BY <1>0, <3>1
    <3>2. ASSUME NEW what \in {"name", "goal"}, NEW v \in Values, Detail!Told(s, k, r) = <<Detail!Event(s, what, v)>>
          PROVE  <2>4
      <4> DEFINE e == Detail!Event(s, what, v)
      <4>1. e \in ReplyType /\ e.to = "all" BY <1>0 DEF Detail!Event, ReplyType, Errands
      <4>2. mid = outbox \o <<e>> BY <3>2
      <4> HIDE DEF e, mid
      <4> QED BY <1>0, <4>1, <4>2
    <3> QED BY <2>3, <3>1, <3>2
  <2>5. outbox' = mid \o <<last>> BY <1>1 DEF value
  <2> HIDE DEF mid
  <2>6. last = Detail!Answer(s, k, r, value) OBVIOUS
  <2> HIDE DEF last
  <2>7. /\ Len(outbox') = Len(mid) + 1 /\ outbox' \in Seq(ReplyType) /\ outbox'[Len(outbox')] = last
        /\ \A i \in 1..Len(mid) : outbox'[i] = mid[i]
    BY <2>2, <2>4, <2>5
  <2>8. Len(mid) \in Nat /\ Len(outbox) \in Nat BY <1>0, <2>4
  <2>9. /\ Len(outbox') \in Nat /\ Len(outbox') > Len(outbox)
        /\ \A i \in 1..Len(outbox) : i \in 1..Len(outbox') /\ outbox'[i] = outbox[i]
        /\ \A i \in 1..Len(outbox') : i > Len(outbox) /\ i # Len(outbox') => outbox'[i].to = "all"
    BY <2>4, <2>7, <2>8
  <2> QED BY <1>1, <2>1, <2>6, <2>7, <2>9
<1>2. CASE outbox' = Append(outbox, Detail!Answer(s, k, r, "refused")) /\ atServer' = atServer
  <2> DEFINE last == Detail!Answer(s, k, r, "refused")
  <2>1. last \in ReplyType BY <1>0 DEF Detail!Answer, ReplyType, Values
  <2>2. outbox' = Append(outbox, last) /\ "refused" \in Values BY <1>2 DEF Values
  <2>3. last = Detail!Answer(s, k, r, "refused") OBVIOUS
  <2> HIDE DEF last
  <2>4. /\ Len(outbox') \in Nat /\ Len(outbox') > Len(outbox) /\ outbox' \in Seq(ReplyType)
        /\ \A i \in 1..Len(outbox) : i \in 1..Len(outbox') /\ outbox'[i] = outbox[i]
        /\ \A i \in 1..Len(outbox') : i > Len(outbox) /\ i # Len(outbox') => outbox'[i].to = "all"
        /\ outbox'[Len(outbox')] = last
    BY <1>0, <2>1, <2>2
  <2> QED BY <1>2, <2>2, <2>3, <2>4
<1> QED BY <1>1, <1>2 DEF Detail!Serve

LEMMA DetailServe ==
  ASSUME DetailConstants, DetailInvariant, NEW s \in ListedSessions, NEW k \in Detail!Slots,
         NEW r \in slotJobs[s][k].asked, Detail!Serve(s, k, r)
  PROVE  DetailInvariant'
<1> DEFINE j == slotJobs[s][k]
           since == Detail!Since(s, k)
           one == [j EXCEPT !.asked = j.asked \ {r}]
           n == [one EXCEPT !.since = since]
<1>0. DetailTypes /\ j \in WorkType /\ WorkFits(j, k, lives[s]) /\ lives[s] \in Nat
  BY DetailPieces DEF DetailTypes, WorkKept, JobsFit
<1>1. /\ slotJobs' = [slotJobs EXCEPT ![s][k].asked = @ \ {r}, ![s][k].since = since]
      /\ UNCHANGED <<inList, forgotten, lives, cachedShot, cachedGoal>>
  BY DEF Detail!Serve, Detail!caches
<1>2. slotJobs' = [slotJobs EXCEPT ![s][k] = n]
  <2> DEFINE half == [slotJobs EXCEPT ![s][k].asked = @ \ {r}]
  <2> HIDE DEF since
  <2>1. half = [slotJobs EXCEPT ![s][k] = one] OBVIOUS
  <2>2. half[s][k] = one BY <1>0 DEF DetailTypes
  <2>3. slotJobs' = [half EXCEPT ![s][k].since = since] BY <1>1
  <2> HIDE DEF one
  <2>4. slotJobs' = [half EXCEPT ![s][k] = n] BY <2>2, <2>3
  <2> QED BY <1>0, <2>1, <2>4 DEF DetailTypes
<1>3. since = (IF j.asked = Detail!FirstRequests(j.kind) THEN lives[s] ELSE j.since) /\ since \in Nat
  BY <1>0 DEF Detail!Since, WorkType
<1> HIDE DEF since
<1>4. r \in Errands /\ r \in j.asked /\ j.asked \ {r} \in SUBSET Errands BY <1>0 DEF WorkType
<1>5. DiffersIn(one, j, "asked") /\ one.asked = j.asked \ {r} BY <1>0, <1>4, WorkChanges
<1> HIDE DEF one
<1>6. DiffersIn(n, one, "since") /\ n.since = since BY <1>3, <1>5, WorkChanges DEF DiffersIn
<1>7. /\ n \in WorkType /\ n.kind = j.kind /\ n.got = j.got /\ n.refused = j.refused /\ n.name = j.name
      /\ n.life = j.life /\ n.since = since /\ n.asked = j.asked \ {r} /\ n.sent = j.sent
  BY <1>5, <1>6 DEF DiffersIn
<1> HIDE DEF n
<1>8. /\ j.kind # "none" /\ j.kind \in KindsOf(k) /\ r \in MayAsk(j.kind) /\ r \in j.sent /\ r \notin j.got
      /\ k # "locked" => ~j.refused
  <2>1. j.kind # "none" BY <1>0, <1>4 DEF WorkFits, Detail!NoJob
  <2> QED BY <1>0, <1>4, <2>1 DEF WorkFits
<1>9. WorkFits(n, k, lives[s]) BY <1>0, <1>3, <1>4, <1>7, <1>8 DEF WorkFits, WorkType
<1>10. /\ slotJobs' \in [ListedSessions -> [Detail!Slots -> WorkType]] /\ slotJobs'[s][k] = n
       /\ \A t \in ListedSessions : \A m \in Detail!Slots : t # s \/ m # k => slotJobs'[t][m] = slotJobs[t][m]
  BY <1>0, <1>2, <1>7, OneSlot
<1>11. PICK value \in Values :
             /\ Len(outbox') \in Nat /\ Len(outbox') > Len(outbox) /\ outbox' \in Seq(ReplyType)
             /\ \A i \in 1..Len(outbox) : i \in 1..Len(outbox') /\ outbox'[i] = outbox[i]
             /\ \A i \in 1..Len(outbox') : i > Len(outbox) /\ i # Len(outbox') => outbox'[i].to = "all"
             /\ outbox'[Len(outbox')] = Detail!Answer(s, k, r, value)
             /\ \/ value = "refused" /\ atServer' = atServer
                \/ /\ ~atServer[s].archived /\ atServer' = Detail!Effect(s, k, r)
                   /\ r = "meta" => value = atServer[s].name
  BY <1>0, <1>4, ServeWrites
<1> DEFINE last == Detail!Answer(s, k, r, value)
<1>12. last.s = s /\ last.what = r /\ last.value = value /\ last.to = k BY DEF Detail!Answer
<1>13. outbox'[Len(outbox')] = last /\ Len(outbox') \in 1..Len(outbox') /\ Len(outbox) \in Nat
  BY <1>0, <1>11 DEF DetailTypes
<1> HIDE DEF last
<1>14. ASSUME NEW i \in 1..Len(outbox')
       PROVE  \/ outbox'[i].to = "all"
              \/ i \in 1..Len(outbox) /\ outbox'[i] = outbox[i]
              \/ i = Len(outbox') /\ outbox'[i] = last
  BY <1>11, <1>13
<1>15. /\ "locked" \in Detail!Slots /\ "locked" # "all"
       /\ k # "locked" => j.kind \in {"goals", "forks"}
  BY <1>8, SlotKinds
<1>16. r = "archive" => k = "locked" /\ j.kind = "archive"
  BY <1>8, <1>15, ErrandsOfKinds, SlotKinds DEF UserKinds
<1>17. r = "rename" => k = "locked" /\ j.kind \in {"rename", "title"}
  BY <1>8, <1>15, ErrandsOfKinds, SlotKinds DEF UserKinds
<1> HIDE DEF j
<1>18. /\ atServer' \in [ListedSessions -> ThreadType]
       /\ \A t \in ListedSessions \ {s} : atServer'[t] = atServer[t]
       /\ r # "archive" => (atServer'[s].archived <=> atServer[s].archived)
       /\ r # "rename" => atServer'[s].name = atServer[s].name
       /\ r = "rename" /\ j.kind = "title" =>
            atServer'[s].name = "auto" \/ (value = "refused" /\ atServer' = atServer)
  BY <1>0, <1>11, EffectOf DEF DetailTypes, j
<1>19. DetailTypes' BY <1>0, <1>1, <1>10, <1>11, <1>18 DEF DetailTypes
<1>20. JobsFit' BY <1>1, <1>9, <1>10 DEF DetailInvariant, JobsFit
<1>21. ASSUME NEW i \in 1..Len(outbox), outbox[i].to # "all"
       PROVE  /\ outbox[i].s \in ListedSessions /\ outbox[i].to \in Detail!Slots
              /\ ReplyFits(outbox[i], slotJobs[outbox[i].s][outbox[i].to])
              /\ ~(outbox[i].s = s /\ outbox[i].to = k /\ outbox[i].what = r)
  <2>1. outbox[i].s \in ListedSessions /\ outbox[i].to \in Detail!Slots BY <1>0, <1>21, ReplyTypes
  <2>2. ReplyFits(outbox[i], slotJobs[outbox[i].s][outbox[i].to]) BY <1>21 DEF DetailInvariant, OutboxFits
  <2> QED BY <1>4, <2>1, <2>2 DEF ReplyFits, j
<1>22. OutboxFits'
  <2> SUFFICES ASSUME NEW i \in 1..Len(outbox'), outbox'[i].to # "all"
               PROVE  ReplyFits(outbox'[i], slotJobs'[outbox'[i].s][outbox'[i].to])
    BY DEF OutboxFits
  <2>1. CASE i \in 1..Len(outbox) /\ outbox'[i] = outbox[i]
    <3>1. /\ outbox[i].s \in ListedSessions /\ outbox[i].to \in Detail!Slots
          /\ ReplyFits(outbox[i], slotJobs[outbox[i].s][outbox[i].to])
      BY <1>21, <2>1
    <3>2. CASE outbox[i].s = s /\ outbox[i].to = k BY <1>7, <1>10, <2>1, <3>1, <3>2 DEF ReplyFits, j
    <3>3. CASE ~(outbox[i].s = s /\ outbox[i].to = k) BY <1>10, <2>1, <3>1, <3>3
    <3> QED BY <3>2, <3>3
  <2>2. CASE outbox'[i] = last
    <3>1. ReplyFits(last, n) BY <1>7, <1>8, <1>12 DEF ReplyFits
    <3> QED BY <1>10, <1>12, <2>2, <3>1
  <2> QED BY <1>14, <2>1, <2>2
<1>23. AnsweredOnce'
  <2> SUFFICES ASSUME NEW h \in 1..Len(outbox'), NEW i \in 1..Len(outbox'),
                      SameErrand(outbox'[h], outbox'[i])
               PROVE  h = i
    BY DEF AnsweredOnce
  <2>1. outbox'[h].to # "all" /\ outbox'[i].to # "all" BY DEF SameErrand
  <2>2. CASE h \in 1..Len(outbox) /\ outbox'[h] = outbox[h] /\ i \in 1..Len(outbox) /\ outbox'[i] = outbox[i]
    BY <2>2 DEF AnsweredOnce, DetailInvariant
  <2>3. CASE h \in 1..Len(outbox) /\ outbox'[h] = outbox[h] /\ outbox'[i] = last
    BY <1>12, <1>21, <2>1, <2>3 DEF SameErrand
  <2>4. CASE outbox'[h] = last /\ i \in 1..Len(outbox) /\ outbox'[i] = outbox[i]
    BY <1>12, <1>21, <2>1, <2>4 DEF SameErrand
  <2> QED BY <1>14, <2>1, <2>2, <2>3, <2>4
<1>24. ASSUME NEW t \in ListedSessions, ~Failing(t)'
       PROVE  ~Failing(t) /\ (t = s /\ k = "locked" => value # "refused")
  <2>1. ~slotJobs[t]["locked"].refused BY <1>7, <1>10, <1>15, <1>24 DEF Failing, j
  <2>2. \A i \in 1..Len(outbox) : ~(ToLocked(outbox[i], t) /\ outbox[i].value = "refused")
    BY <1>11, <1>24 DEF Failing
  <2>3. t = s /\ k = "locked" => value # "refused" BY <1>12, <1>13, <1>24 DEF Failing, ToLocked
  <2> QED BY <2>1, <2>2, <2>3 DEF Failing
<1>25. ASSUME NEW t \in ListedSessions PROVE ReadIsOfTheLiving(t)'
  <2> DEFINE now == slotJobs'[t]["locked"]
             was == slotJobs[t]["locked"]
  <2> SUFFICES ASSUME now.kind = "read"
               PROVE  /\ t \notin inList => atServer'[t].archived
                      /\ ~Failing(t)' /\ now.asked # {"goal", "meta"} =>
                          ~atServer'[t].archived /\ t \in inList /\ now.since = lives[t]
    BY <1>1 DEF ReadIsOfTheLiving
  <2>1. was.kind = "read" /\ (t = s => r # "archive") BY <1>7, <1>10, <1>15, <1>16 DEF j
  <2>2. atServer'[t].archived <=> atServer[t].archived BY <1>18, <2>1
  <2>3. /\ t \notin inList => atServer[t].archived
        /\ ~Failing(t) /\ was.asked # {"goal", "meta"} =>
              ~atServer[t].archived /\ t \in inList /\ was.since = lives[t]
    BY <2>1 DEF ReadIsOfTheLiving, DetailInvariant
  <2>4. CASE ~(t = s /\ k = "locked")
    <3>1. now = was BY <1>10, <1>15, <2>4
    <3> QED BY <1>24, <2>2, <2>3, <3>1
  <2>5. CASE t = s /\ k = "locked"
    <3>1. was = j /\ now = n BY <1>10, <2>5 DEF j
    <3>2. ASSUME ~Failing(t)' PROVE ~atServer[t].archived /\ t \in inList /\ now.since = lives[t]
      <4>1. ~Failing(t) /\ value # "refused" BY <1>24, <2>5, <3>2
      <4>2. ~atServer[t].archived BY <1>11, <2>5, <4>1
      <4>3. t \in inList BY <2>3, <4>2
      <4>4. now.since = lives[t] BY <1>3, <1>7, <2>1, <2>3, <2>5, <3>1, <4>1, FirstErrands
      <4> QED BY <4>2, <4>3, <4>4
    <3> QED BY <2>2, <2>3, <3>2
  <2> QED BY <2>4, <2>5
<1>26. ASSUME NEW t \in ListedSessions PROVE TitleIsWanted(t)'
  <2> DEFINE now == slotJobs'[t]["locked"]
             was == slotJobs[t]["locked"]
  <2> SUFFICES ASSUME now.kind = "title", atServer'[t].name = "user"
               PROVE  /\ "rename" \notin now.asked
                      /\ "meta" \in now.got => now.name # "none"
                      /\ \A i \in 1..Len(outbox') :
                           ToLocked(outbox'[i], t) /\ outbox'[i].what = "meta" => outbox'[i].value # "none"
    BY DEF TitleIsWanted
  <2>1. /\ was.kind = "title" /\ now.asked \subseteq was.asked /\ now.got = was.got /\ now.name = was.name
    BY <1>7, <1>10, <1>15 DEF j
  <2>2. atServer[t].name = "user"
    <3>1. CASE t = s /\ r = "rename" BY <1>17, <1>18, <2>1, <3>1 DEF j
    <3>2. CASE t # s \/ r # "rename" BY <1>18, <3>2
    <3> QED BY <3>1, <3>2
  <2>3. /\ "rename" \notin was.asked
        /\ "meta" \in was.got => was.name # "none"
        /\ \A i \in 1..Len(outbox) :
             ToLocked(outbox[i], t) /\ outbox[i].what = "meta" => outbox[i].value # "none"
    BY <2>1, <2>2 DEF TitleIsWanted, DetailInvariant
  <2>4. ASSUME NEW i \in 1..Len(outbox'), ToLocked(outbox'[i], t), outbox'[i].what = "meta"
        PROVE  outbox'[i].value # "none"
    <3>1. CASE i \in 1..Len(outbox) /\ outbox'[i] = outbox[i] BY <2>3, <2>4, <3>1
    <3>2. CASE outbox'[i] = last BY <1>11, <1>12, <2>2, <2>4, <3>2 DEF ToLocked
    <3> QED BY <1>14, <1>15, <2>4, <3>1, <3>2 DEF ToLocked
  <2> QED BY <2>1, <2>3, <2>4
<1>27. Detail!LateLoadsReviveNothing' BY <1>1, ShotsKept
<1>28. \A t \in ListedSessions : t \notin inList' => t \in forgotten' BY <1>1, DetailPieces
<1> QED BY <1>19, <1>20, <1>22, <1>23, <1>25, <1>26, <1>27, <1>28 DEF DetailInvariant

----
(* Answers and notifications are handled. *)

\* An answer in a job: that it was refused, or what it says.
LEMMA SettledFields ==
  ASSUME NEW j \in WorkType, NEW l \in ReplyType, l.what \in Errands
  PROVE  /\ Detail!Settled(j, l) \in WorkType /\ Detail!Settled(j, l).kind = j.kind
         /\ Detail!Settled(j, l).life = j.life /\ Detail!Settled(j, l).since = j.since
         /\ l.value = "refused" =>
              /\ Detail!Settled(j, l).refused /\ Detail!Settled(j, l).asked = j.asked
              /\ Detail!Settled(j, l).sent = j.sent /\ Detail!Settled(j, l).got = j.got
              /\ Detail!Settled(j, l).name = j.name
         /\ l.value # "refused" =>
              /\ Detail!Settled(j, l).refused = j.refused
              /\ Detail!Settled(j, l).got = j.got \cup {l.what}
              /\ l.what = "meta" => /\ Detail!Settled(j, l).asked = j.asked \cup {"turns"}
                                    /\ Detail!Settled(j, l).sent = j.sent \cup {"turns"}
                                    /\ Detail!Settled(j, l).name = l.value
              /\ l.what # "meta" => /\ Detail!Settled(j, l).asked = j.asked
                                    /\ Detail!Settled(j, l).sent = j.sent
                                    /\ Detail!Settled(j, l).name = j.name
<1>0. l.value \in Values /\ j.asked \in SUBSET Errands /\ j.sent \in SUBSET Errands /\ j.got \in SUBSET Errands
      /\ j.name \in Values /\ j.turn \in Values /\ j.goal \in Values
  BY DEF ReplyType, WorkType
<1>1. CASE l.value = "refused"
  <2> DEFINE n == [j EXCEPT !.refused = TRUE]
  <2>1. DiffersIn(n, j, "refused") /\ n.refused = TRUE BY WorkChanges DEF YesOrNo
  <2>2. Detail!Settled(j, l) = n BY <1>1 DEF Detail!Settled
  <2> HIDE DEF n
  <2> QED BY <1>1, <2>1, <2>2 DEF DiffersIn
<1>2. CASE l.value # "refused"
  <2> DEFINE got == j.got \cup {l.what}
             asked == IF l.what = "meta" THEN j.asked \cup {"turns"} ELSE j.asked
             sent == IF l.what = "meta" THEN j.sent \cup {"turns"} ELSE j.sent
             name == IF l.what = "meta" THEN l.value ELSE j.name
             turn == IF l.what = "turns" THEN l.value ELSE j.turn
             goal == IF l.what = "goal" THEN l.value ELSE j.goal
             one == [j EXCEPT !.got = got]
             two == [one EXCEPT !.asked = asked]
             three == [two EXCEPT !.sent = sent]
             four == [three EXCEPT !.name = name]
             five == [four EXCEPT !.turn = turn]
             six == [five EXCEPT !.goal = goal]
  <2>1. Detail!Settled(j, l) = six BY <1>2 DEF Detail!Settled
  <2>2. /\ got \in SUBSET Errands /\ asked \in SUBSET Errands /\ sent \in SUBSET Errands
        /\ name \in Values /\ turn \in Values /\ goal \in Values
    BY <1>0 DEF Errands
  <2>3. /\ l.what = "meta" => asked = j.asked \cup {"turns"} /\ sent = j.sent \cup {"turns"} /\ name = l.value
        /\ l.what # "meta" => asked = j.asked /\ sent = j.sent /\ name = j.name
    OBVIOUS
  <2> HIDE DEF asked, sent, name, turn, goal
  <2>4. DiffersIn(one, j, "got") /\ one.got = got BY <2>2, WorkChanges
  <2> HIDE DEF one
  <2>5. DiffersIn(two, one, "asked") /\ two.asked = asked BY <2>2, <2>4, WorkChanges DEF DiffersIn
  <2> HIDE DEF two
  <2>6. DiffersIn(three, two, "sent") /\ three.sent = sent BY <2>2, <2>5, WorkChanges DEF DiffersIn
  <2> HIDE DEF three
  <2>7. DiffersIn(four, three, "name") /\ four.name = name BY <2>2, <2>6, WorkChanges DEF DiffersIn
  <2> HIDE DEF four
  <2>8. DiffersIn(five, four, "turn") BY <2>2, <2>7, WorkChanges DEF DiffersIn
  <2> HIDE DEF five
  <2>9. DiffersIn(six, five, "goal") BY <2>2, <2>8, WorkChanges DEF DiffersIn
  <2> HIDE DEF six
  <2>10. /\ six \in WorkType /\ six.kind = j.kind /\ six.life = j.life /\ six.since = j.since
         /\ six.refused = j.refused /\ six.got = got /\ six.asked = asked /\ six.sent = sent /\ six.name = name
    <3>1. /\ three \in WorkType /\ three.kind = j.kind /\ three.life = j.life /\ three.since = j.since
          /\ three.refused = j.refused /\ three.got = got /\ three.asked = asked /\ three.sent = sent
      BY <2>4, <2>5, <2>6 DEF DiffersIn
    <3> QED BY <3>1, <2>7, <2>8, <2>9 DEF DiffersIn
  <2> QED BY <1>2, <2>1, <2>3, <2>10
<1> QED BY <1>1, <1>2

\* What a job that is answered has asked for: a load waits for one answer at a time,
\* and the Turns are asked for once.
LEMMA AnsweredJobs ==
  ASSUME DetailConstants, NEW k \in Detail!Slots, NEW j \in WorkType, NEW now \in Nat,
         WorkFits(j, k, now), NEW l, ReplyFits(l, j)
  PROVE  /\ j.kind # "none" /\ j.kind \in KindsOf(k) /\ j.kind \in WorkKinds /\ l.what \in Errands
         /\ j.asked # Detail!FirstRequests(j.kind)
         /\ l.what = "meta" => "turns" \in MayAsk(j.kind) /\ "turns" \notin j.sent
         /\ k # "locked" => j.sent \subseteq j.got \cup {l.what}
<1>1. l.what \in j.sent /\ l.what \notin j.asked /\ l.what \notin j.got BY DEF ReplyFits
<1>2. j.kind # "none" BY <1>1, NoJobFits DEF WorkFits
<1>3. /\ j.kind \in KindsOf(k) /\ j.kind \in WorkKinds BY <1>2, SlotKinds DEF WorkFits
<1>4. /\ j.sent \subseteq MayAsk(j.kind) /\ j.got \subseteq j.sent /\ j.asked \cap j.got = {}
      /\ Detail!FirstRequests(j.kind) \subseteq j.sent /\ j.asked \subseteq j.sent
      /\ \A r \in j.sent \ Detail!FirstRequests(j.kind) : "meta" \in j.got
  BY <1>2 DEF WorkFits
<1>5. /\ MayAsk(j.kind) \subseteq Errands /\ "turns" \notin Detail!FirstRequests(j.kind)
      /\ "meta" \in MayAsk(j.kind) => "turns" \in MayAsk(j.kind) /\ "meta" \in Detail!FirstRequests(j.kind)
  BY <1>3, KindsAsk
<1>6. j.asked # Detail!FirstRequests(j.kind) BY <1>1, <1>4, <1>5
<1>7. l.what = "meta" => "turns" \in MayAsk(j.kind) /\ "turns" \notin j.sent BY <1>1, <1>4, <1>5
<1>8. ASSUME k # "locked" PROVE j.sent \subseteq j.got \cup {l.what}
  <2>1. j.kind \in {"goals", "forks"} BY <1>3, <1>8, SlotKinds
  <2>2. j.sent \subseteq {"goal"} \/ j.sent \subseteq {"meta", "turns"} BY <1>4, <2>1, ErrandsOfKinds
  <2>3. "meta" \in j.sent => "turns" \notin j.sent \/ "meta" \in j.got BY <1>4, <1>5
  <2> QED BY <1>1, <1>4, <1>5, <2>2, <2>3
<1> QED BY <1>1, <1>2, <1>3, <1>4, <1>5, <1>6, <1>7, <1>8

\* The job fits when its answer is settled.
LEMMA SettledFits ==
  ASSUME DetailConstants, NEW k \in Detail!Slots, NEW j \in WorkType, NEW now \in Nat,
         WorkFits(j, k, now), NEW l \in ReplyType, ReplyFits(l, j), k = l.to
  PROVE  WorkFits(Detail!Settled(j, l), k, now)
<1> DEFINE n == Detail!Settled(j, l)
<1> SUFFICES WorkFits(n, k, now) OBVIOUS
<1>1. /\ j.kind # "none" /\ j.kind \in KindsOf(k) /\ j.kind \in WorkKinds /\ l.what \in Errands
      /\ j.asked # Detail!FirstRequests(j.kind)
      /\ l.what = "meta" => "turns" \in MayAsk(j.kind) /\ "turns" \notin j.sent
      /\ k # "locked" => j.sent \subseteq j.got \cup {l.what}
  BY AnsweredJobs
<1>2. /\ n.kind = j.kind /\ n.life = j.life /\ n.since = j.since
      /\ l.value = "refused" =>
            n.refused /\ n.asked = j.asked /\ n.sent = j.sent /\ n.got = j.got
      /\ l.value # "refused" =>
            /\ n.refused = j.refused /\ n.got = j.got \cup {l.what}
            /\ l.what = "meta" => n.asked = j.asked \cup {"turns"} /\ n.sent = j.sent \cup {"turns"}
            /\ l.what # "meta" => n.asked = j.asked /\ n.sent = j.sent
  BY <1>1, SettledFields
<1> HIDE DEF n
<1>3. /\ l.what \in j.sent /\ l.what \notin j.asked /\ l.what \notin j.got /\ (k # "locked" => ~j.refused)
  BY DEF ReplyFits
<1>4. /\ Detail!FirstRequests(j.kind) \subseteq j.sent /\ j.sent \subseteq MayAsk(j.kind)
      /\ j.asked \subseteq j.sent /\ j.got \subseteq j.sent /\ j.asked \cap j.got = {}
      /\ \A r \in j.sent \ Detail!FirstRequests(j.kind) : "meta" \in j.got
      /\ j.life <= now /\ (~j.refused => j.life <= j.since /\ j.since <= now)
  BY <1>1 DEF WorkFits
<1>5. CASE l.value = "refused"
  <2>1. k # "locked" => n.asked = {} BY <1>1, <1>2, <1>3, <1>4, <1>5
  <2> QED BY <1>1, <1>2, <1>4, <1>5, <2>1 DEF WorkFits
<1>6. CASE l.value # "refused" /\ l.what = "meta"
  <2>1. /\ n.sent \subseteq MayAsk(n.kind) /\ Detail!FirstRequests(n.kind) \subseteq n.sent
        /\ n.asked \subseteq n.sent /\ n.got \subseteq n.sent /\ n.asked \cap n.got = {} /\ "meta" \in n.got
    BY <1>1, <1>2, <1>3, <1>4, <1>6
  <2> QED BY <1>1, <1>2, <1>3, <1>4, <1>6, <2>1 DEF WorkFits
<1>7. CASE l.value # "refused" /\ l.what # "meta" BY <1>1, <1>2, <1>3, <1>4, <1>7 DEF WorkFits
<1> QED BY <1>5, <1>6, <1>7

LEMMA NotifiedShots ==
  ASSUME DetailInvariant, NEW l \in ReplyType, Detail!Notified(l), UNCHANGED <<inList, lives>>
  PROVE  /\ cachedShot' \in [ListedSessions -> [name : Values, turn : Values, life : Nat]]
         /\ cachedGoal' \in [ListedSessions -> [goal : Values, life : Nat]]
         /\ Detail!LateLoadsReviveNothing'
<1> DEFINE s == l.s
<1>0. /\ DetailTypes /\ Detail!LateLoadsReviveNothing /\ s \in ListedSessions /\ l.value \in Values
      /\ lives[s] \in Nat /\ (s \notin inList => s \in forgotten)
      /\ cachedShot \in [ListedSessions -> [name : Values, turn : Values, life : Nat]]
      /\ cachedGoal \in [ListedSessions -> [goal : Values, life : Nat]]
  BY DetailPieces DEF ReplyType, DetailTypes
<1>1. CASE s \in forgotten BY <1>0, <1>1, ShotsKept DEF Detail!Notified
<1>2. CASE s \notin forgotten
  <2> DEFINE goal == [goal |-> l.value, life |-> lives[s]]
  <2>1. s \in inList BY <1>0, <1>2
  <2>2. cachedGoal' = cachedGoal \/ cachedGoal' = [cachedGoal EXCEPT ![s] = goal] BY <1>2 DEF Detail!Notified
  <2>3. goal \in [goal : Values, life : Nat] /\ goal.life = lives[s] BY <1>0
  <2> HIDE DEF goal
  <2>4. cachedGoal' \in [ListedSessions -> [goal : Values, life : Nat]] BY <1>0, <2>2, <2>3
  <2>5. \A t \in ListedSessions : cachedGoal'[t] = cachedGoal[t] \/ (t = s /\ cachedGoal'[t].life = lives[s])
    BY <1>0, <2>2, <2>3
  <2>6. \/ cachedShot' = cachedShot
        \/ cachedShot[s] # Detail!NoSnapshot /\ cachedShot' = [cachedShot EXCEPT ![s].name = l.value]
        \/ cachedShot[s] # Detail!NoSnapshot /\ cachedShot' = [cachedShot EXCEPT ![s].turn = l.value]
    BY <1>2 DEF Detail!Notified
  <2>7. cachedShot' \in [ListedSessions -> [name : Values, turn : Values, life : Nat]] BY <1>0, <2>6
  <2>8. \A t \in ListedSessions : cachedShot'[t] = cachedShot[t] \/ (t = s /\ cachedShot'[t].life = lives[s])
    BY <1>0, <2>6 DEF Detail!LateLoadsReviveNothing
  <2>9. Detail!LateLoadsReviveNothing'
    <3> SUFFICES ASSUME NEW t \in ListedSessions
                 PROVE  /\ t \notin inList => cachedShot'[t] = Detail!NoSnapshot /\ cachedGoal'[t] = Detail!Unknown
                        /\ cachedShot'[t] # Detail!NoSnapshot => cachedShot'[t].life = lives[t]
                        /\ cachedGoal'[t] # Detail!Unknown => cachedGoal'[t].life = lives[t]
      BY DEF Detail!LateLoadsReviveNothing, Detail!NoSnapshot, Detail!Unknown
    <3> QED BY <1>0, <2>1, <2>5, <2>8 DEF Detail!LateLoadsReviveNothing
  <2> QED BY <2>4, <2>7, <2>9
<1> QED BY <1>1, <1>2

\* What is left of the output when its first line is handled.
LEMMA LineHandled ==
  ASSUME DetailTypes, outbox # <<>>, outbox' = Tail(outbox)
  PROVE  /\ outbox' \in Seq(ReplyType) /\ Head(outbox) = outbox[1] /\ 1 \in 1..Len(outbox)
         /\ outbox[1] \in ReplyType /\ Len(outbox') \in Nat /\ Len(outbox) = Len(outbox') + 1
         /\ \A i \in 1..Len(outbox') : i + 1 \in 1..Len(outbox) /\ i + 1 # 1 /\ outbox'[i] = outbox[i + 1]
         /\ \A i \in 1..Len(outbox) : i # 1 => i - 1 \in 1..Len(outbox') /\ outbox[i] = outbox'[i - 1]
<1>1. outbox \in Seq(ReplyType) BY DEF DetailTypes
<1>2. /\ outbox' \in Seq(ReplyType) /\ Head(outbox) = outbox[1] /\ 1 \in 1..Len(outbox)
      /\ outbox[1] \in ReplyType /\ Len(outbox') \in Nat /\ Len(outbox) = Len(outbox') + 1
      /\ \A i \in 1..Len(outbox') : outbox'[i] = outbox[i + 1]
  BY <1>1
<1>3. \A i \in 1..Len(outbox') : i + 1 \in 1..Len(outbox) /\ i + 1 # 1 BY <1>2
<1>4. \A i \in 1..Len(outbox) : i # 1 => i - 1 \in 1..Len(outbox') /\ (i - 1) + 1 = i BY <1>2
<1>5. \A i \in 1..Len(outbox) : i # 1 => outbox[i] = outbox'[i - 1] BY <1>2, <1>4
<1> QED BY <1>2, <1>3, <1>4, <1>5

LEMMA DetailHandle ==
  ASSUME DetailConstants, DetailInvariant, Detail!HandleLine
  PROVE  DetailInvariant'
<1>0. DetailTypes /\ JobsFit /\ OutboxFits /\ AnsweredOnce /\ Detail!LateLoadsReviveNothing
      /\ \A t \in ListedSessions : ReadIsOfTheLiving(t) /\ TitleIsWanted(t) /\ (t \notin inList => t \in forgotten)
  BY DEF DetailInvariant
<1>1. /\ outbox # <<>> /\ outbox' = Tail(outbox)
      /\ UNCHANGED <<atServer, inList, forgotten, lives>>
  BY DEF Detail!HandleLine
<1>11. outbox[1] \in ReplyType BY <1>0, <1>1, LineHandled
<1>12. PICK l \in ReplyType : l = outbox[1] BY <1>11
<1> DEFINE s == l.s
           k == l.to
           j == slotJobs[s][k]
           n == Detail!Settled(j, l)
<1>2. /\ outbox' \in Seq(ReplyType) /\ Head(outbox) = l /\ outbox[1] = l /\ 1 \in 1..Len(outbox)
      /\ \A i \in 1..Len(outbox') : i + 1 \in 1..Len(outbox) /\ i + 1 # 1 /\ outbox'[i] = outbox[i + 1]
      /\ \A i \in 1..Len(outbox) : i # 1 => i - 1 \in 1..Len(outbox') /\ outbox[i] = outbox'[i - 1]
  BY <1>0, <1>1, <1>12, LineHandled
<1>3. s \in ListedSessions /\ (k # "all" => k \in Detail!Slots) BY <1>0, <1>2, ReplyTypes
<1>4. \/ k = "all" /\ Detail!Notified(l) /\ slotJobs' = slotJobs
      \/ k # "all" /\ slotJobs' = [slotJobs EXCEPT ![s][k] = n] /\ UNCHANGED <<cachedShot, cachedGoal>>
  BY <1>2 DEF Detail!HandleLine
<1>5. AnsweredOnce'
  <2> SUFFICES ASSUME NEW h \in 1..Len(outbox'), NEW i \in 1..Len(outbox'),
                      SameErrand(outbox'[h], outbox'[i])
               PROVE  h = i
    BY DEF AnsweredOnce
  <2>1. h + 1 = i + 1 BY <1>0, <1>2 DEF AnsweredOnce
  <2> QED BY <2>1
<1>6. /\ cachedShot' \in [ListedSessions -> [name : Values, turn : Values, life : Nat]]
      /\ cachedGoal' \in [ListedSessions -> [goal : Values, life : Nat]]
      /\ Detail!LateLoadsReviveNothing'
  <2>1. CASE k = "all" BY <1>1, <1>2, <1>4, <2>1, NotifiedShots
  <2>2. CASE k # "all" BY <1>0, <1>1, <1>4, <2>2, ShotsKept DEF DetailTypes
  <2> QED BY <2>1, <2>2
<1>7. "locked" \in Detail!Slots /\ "locked" # "all" BY SlotKinds
<1>8. ASSUME NEW t \in ListedSessions, ~(t = s /\ k = "locked"),
             slotJobs'[t]["locked"] = slotJobs[t]["locked"]
      PROVE  ReadIsOfTheLiving(t)' /\ TitleIsWanted(t)'
  <2>1. \A i \in 1..Len(outbox) : ToLocked(outbox[i], t) =>
          i # 1 /\ i - 1 \in 1..Len(outbox') /\ outbox[i] = outbox'[i - 1]
    BY <1>2, <1>8 DEF ToLocked
  <2>2. Failing(t) => Failing(t)' BY <1>8, <2>1 DEF Failing
  <2>3. ReadIsOfTheLiving(t)' BY <1>0, <1>1, <1>8, <2>2 DEF ReadIsOfTheLiving
  <2>4. TitleIsWanted(t)' BY <1>0, <1>1, <1>2, <1>8 DEF TitleIsWanted
  <2> QED BY <2>3, <2>4
<1>9. CASE k = "all"
  <2>1. slotJobs' = slotJobs BY <1>4, <1>9
  <2>2. DetailTypes' BY <1>0, <1>1, <1>2, <1>6, <2>1 DEF DetailTypes
  <2>3. JobsFit' /\ OutboxFits' BY <1>0, <1>1, <1>2, <2>1 DEF JobsFit, OutboxFits
  <2>4. \A t \in ListedSessions : ReadIsOfTheLiving(t)' /\ TitleIsWanted(t)' BY <1>7, <1>8, <1>9, <2>1
  <2> QED BY <1>0, <1>1, <1>5, <1>6, <2>2, <2>3, <2>4 DEF DetailInvariant
<1>10. CASE k # "all"
  <2>0. k \in Detail!Slots /\ j \in WorkType /\ WorkFits(j, k, lives[s]) /\ lives[s] \in Nat
    BY <1>0, <1>3, <1>10 DEF DetailTypes, JobsFit
  <2>1. ReplyFits(l, j) BY <1>0, <1>2, <1>10 DEF OutboxFits
  <2>2. /\ j.asked # Detail!FirstRequests(j.kind) /\ l.what \in Errands
        /\ l.what = "meta" => "turns" \notin j.sent
        /\ k # "locked" => j.sent \subseteq j.got \cup {l.what}
    BY <2>0, <2>1, AnsweredJobs
  <2>3. /\ n \in WorkType /\ n.kind = j.kind /\ n.since = j.since
        /\ l.value = "refused" =>
              n.refused /\ n.asked = j.asked /\ n.sent = j.sent /\ n.got = j.got /\ n.name = j.name
        /\ l.value # "refused" =>
              /\ n.refused = j.refused /\ n.got = j.got \cup {l.what}
              /\ l.what = "meta" => /\ n.asked = j.asked \cup {"turns"}
                                    /\ n.sent = j.sent \cup {"turns"} /\ n.name = l.value
              /\ l.what # "meta" => n.asked = j.asked /\ n.sent = j.sent /\ n.name = j.name
    BY <1>2, <2>0, <2>2, SettledFields
  <2>4. WorkFits(n, k, lives[s]) BY <1>2, <2>0, <2>1, SettledFits
  <2>5. slotJobs' = [slotJobs EXCEPT ![s][k] = n] BY <1>4, <1>10
  <2> HIDE DEF n
  <2>6. /\ slotJobs' \in [ListedSessions -> [Detail!Slots -> WorkType]] /\ slotJobs'[s][k] = n
        /\ \A t \in ListedSessions : \A m \in Detail!Slots : t # s \/ m # k => slotJobs'[t][m] = slotJobs[t][m]
    <3> HIDE DEF s, k
    <3>1. s \in ListedSessions /\ k \in Detail!Slots /\ n \in WorkType BY <1>3, <2>0, <2>3
    <3> QED BY <1>0, <2>5, <3>1 DEF DetailTypes
  <2>7. DetailTypes' BY <1>0, <1>1, <1>2, <1>6, <2>6 DEF DetailTypes
  <2>8. JobsFit' BY <1>0, <1>1, <2>4, <2>6 DEF JobsFit
  <2>9. OutboxFits'
    <3> SUFFICES ASSUME NEW i \in 1..Len(outbox'), outbox'[i].to # "all"
                 PROVE  ReplyFits(outbox'[i], slotJobs'[outbox'[i].s][outbox'[i].to])
      BY DEF OutboxFits
    <3> DEFINE m == outbox[i + 1]
    <3>1. outbox'[i] = m /\ i + 1 \in 1..Len(outbox) /\ i + 1 # 1 /\ m.to # "all" BY <1>2
    <3>2. m.s \in ListedSessions /\ m.to \in Detail!Slots /\ ReplyFits(m, slotJobs[m.s][m.to])
      BY <1>0, <3>1, ReplyTypes DEF OutboxFits
    <3>3. CASE m.s = s /\ m.to = k
      <4>1. m.what # l.what BY <1>0, <1>2, <1>10, <3>1, <3>3 DEF AnsweredOnce, SameErrand
      <4>2. m.what \in j.sent /\ m.what \notin j.asked /\ m.what \notin j.got /\ (k # "locked" => ~j.refused)
        BY <3>2, <3>3 DEF ReplyFits
      <4>3. k = "locked" BY <2>2, <4>1, <4>2
      <4>4. m.what \in n.sent /\ m.what \notin n.asked /\ m.what \notin n.got BY <2>2, <2>3, <4>1, <4>2
      <4> QED BY <2>6, <3>1, <3>3, <4>3, <4>4 DEF ReplyFits
    <3>4. CASE ~(m.s = s /\ m.to = k) BY <2>6, <3>1, <3>2, <3>4
    <3> QED BY <3>3, <3>4
  <2>10. ASSUME k = "locked" PROVE ReadIsOfTheLiving(s)' /\ TitleIsWanted(s)'
    <3>1. slotJobs'[s]["locked"] = n /\ slotJobs[s]["locked"] = j BY <2>6, <2>10
    <3>2. Failing(s) => Failing(s)'
      <4>1. ToLocked(l, s) BY <2>10 DEF ToLocked
      <4>2. CASE j.refused BY <2>3, <3>1, <4>2 DEF Failing
      <4>3. ASSUME NEW i \in 1..Len(outbox), ToLocked(outbox[i], s), outbox[i].value = "refused"
            PROVE  Failing(s)'
        <5>1. CASE i = 1 BY <1>2, <2>3, <3>1, <4>3, <5>1 DEF Failing
        <5>2. CASE i # 1 BY <1>2, <4>3, <5>2 DEF Failing
        <5> QED BY <5>1, <5>2
      <4> QED BY <3>1, <4>2, <4>3 DEF Failing
    <3>3. ReadIsOfTheLiving(s)'
      <4> SUFFICES ASSUME n.kind = "read"
                   PROVE  /\ s \notin inList => atServer[s].archived
                          /\ ~Failing(s)' => ~atServer[s].archived /\ s \in inList /\ n.since = lives[s]
        BY <1>1, <3>1 DEF ReadIsOfTheLiving
      <4>1. j.kind = "read" /\ j.asked # {"goal", "meta"} BY <2>2, <2>3, FirstErrands
      <4> QED BY <1>0, <1>3, <2>3, <3>1, <3>2, <4>1 DEF ReadIsOfTheLiving
    <3>4. TitleIsWanted(s)'
      <4> SUFFICES ASSUME n.kind = "title", atServer[s].name = "user"
                   PROVE  /\ "rename" \notin n.asked
                          /\ "meta" \in n.got => n.name # "none"
                          /\ \A i \in 1..Len(outbox') :
                               ToLocked(outbox'[i], s) /\ outbox'[i].what = "meta" => outbox'[i].value # "none"
        BY <1>1, <3>1 DEF TitleIsWanted
      <4>1. /\ "rename" \notin j.asked
            /\ "meta" \in j.got => j.name # "none"
            /\ \A i \in 1..Len(outbox) :
                 ToLocked(outbox[i], s) /\ outbox[i].what = "meta" => outbox[i].value # "none"
        BY <1>0, <1>3, <2>3, <3>1 DEF TitleIsWanted
      <4>2. l.what = "meta" => l.value # "none" BY <1>2, <2>10, <4>1 DEF ToLocked
      <4>3. "rename" \notin n.asked BY <2>3, <4>1
      <4>4. "meta" \in n.got => n.name # "none" BY <2>3, <4>1, <4>2
      <4>5. \A i \in 1..Len(outbox') :
               ToLocked(outbox'[i], s) /\ outbox'[i].what = "meta" => outbox'[i].value # "none"
        BY <1>2, <4>1
      <4> QED BY <4>3, <4>4, <4>5
    <3> QED BY <3>3, <3>4
  <2>11. ASSUME NEW t \in ListedSessions PROVE ReadIsOfTheLiving(t)' /\ TitleIsWanted(t)'
    <3>1. CASE t = s /\ k = "locked" BY <2>10, <3>1
    <3>2. CASE ~(t = s /\ k = "locked") BY <1>7, <1>8, <2>6, <3>2
    <3> QED BY <3>1, <3>2
  <2> QED BY <1>0, <1>1, <1>5, <1>6, <2>7, <2>8, <2>9, <2>11 DEF DetailInvariant
<1> QED BY <1>9, <1>10

----
(* The connection is lost. *)

LEMMA DetailLose ==
  ASSUME DetailConstants, DetailInvariant, Detail!Lose
  PROVE  DetailInvariant'
<1>0. DetailTypes /\ JobsFit
      /\ \A t \in ListedSessions : ReadIsOfTheLiving(t) /\ TitleIsWanted(t) /\ (t \notin inList => t \in forgotten)
  BY DEF DetailInvariant
<1> DEFINE lost(j) == [[j EXCEPT !.asked = {}] EXCEPT !.refused = TRUE]
           next(j, k) == IF j.sent \subseteq j.got THEN j ELSE IF k = "locked" THEN Detail!NoJob ELSE lost(j)
<1>1. /\ slotJobs' = [s \in ListedSessions |-> [k \in Detail!Slots |-> next(slotJobs[s][k], k)]]
      /\ outbox' = <<>>
      /\ UNCHANGED <<atServer, inList, forgotten, lives, cachedShot, cachedGoal>>
  BY DEF Detail!Lose
<1>2. ASSUME NEW j \in WorkType
      PROVE  /\ lost(j) \in WorkType /\ lost(j).kind = j.kind /\ lost(j).asked = {} /\ lost(j).refused
             /\ lost(j).sent = j.sent /\ lost(j).got = j.got /\ lost(j).life = j.life
  <2> DEFINE one == [j EXCEPT !.asked = {}]
             n == [one EXCEPT !.refused = TRUE]
  <2>1. DiffersIn(one, j, "asked") /\ one.asked = {} BY WorkChanges
  <2>2. lost(j) = n OBVIOUS
  <2> HIDE DEF one
  <2>3. DiffersIn(n, one, "refused") /\ n.refused = TRUE BY <2>1, WorkChanges DEF DiffersIn, YesOrNo
  <2> HIDE DEF n, lost
  <2>4. n \in WorkType /\ n.kind = j.kind /\ n.asked = {} /\ n.refused /\ n.sent = j.sent /\ n.got = j.got /\ n.life = j.life
    BY <2>1, <2>3 DEF DiffersIn
  <2> QED BY <2>2, <2>4
<1> HIDE DEF lost
<1>3. ASSUME NEW s \in ListedSessions, NEW k \in Detail!Slots
      PROVE  slotJobs'[s][k] \in WorkType /\ WorkFits(slotJobs'[s][k], k, lives[s])
  <2> DEFINE j == slotJobs[s][k]
  <2>1. j \in WorkType /\ WorkFits(j, k, lives[s]) BY <1>0 DEF DetailTypes, JobsFit
  <2>2. slotJobs'[s][k] = next(j, k) BY <1>1
  <2>3. CASE slotJobs'[s][k] = j BY <2>1, <2>3
  <2>4. CASE slotJobs'[s][k] = Detail!NoJob BY <2>4, NoJobFits
  <2>5. CASE ~(j.sent \subseteq j.got) /\ slotJobs'[s][k] = lost(j)
    <3>1. /\ lost(j) \in WorkType /\ lost(j).kind = j.kind /\ lost(j).asked = {} /\ lost(j).refused
          /\ lost(j).sent = j.sent /\ lost(j).got = j.got /\ lost(j).life = j.life
      BY <1>2, <2>1
    <3>2. j.kind # "none" BY <2>1, <2>5, NoJobFits DEF WorkFits
    <3> HIDE DEF j
    <3>3. WorkFits(lost(j), k, lives[s]) BY <2>1, <3>1, <3>2 DEF WorkFits
    <3> QED BY <2>5, <3>1, <3>3
  <2> QED BY <2>2, <2>3, <2>4, <2>5
<1>4. DetailTypes'
  <2>1. slotJobs' \in [ListedSessions -> [Detail!Slots -> WorkType]]
    <3> DEFINE jobsOf(s) == [k \in Detail!Slots |-> next(slotJobs[s][k], k)]
    <3>1. ASSUME NEW s \in ListedSessions PROVE jobsOf(s) \in [Detail!Slots -> WorkType]
      <4>1. \A k \in Detail!Slots : next(slotJobs[s][k], k) = slotJobs'[s][k] BY <1>1
      <4> HIDE DEF next
      <4>2. \A k \in Detail!Slots : next(slotJobs[s][k], k) \in WorkType BY <1>3, <4>1
      <4> QED BY <4>2
    <3>2. slotJobs' = [s \in ListedSessions |-> jobsOf(s)] BY <1>1
    <3> HIDE DEF jobsOf
    <3> QED BY <3>1, <3>2
  <2>2. outbox' \in Seq(ReplyType) BY <1>1
  <2> QED BY <1>0, <1>1, <2>1, <2>2 DEF DetailTypes
<1>5. JobsFit' BY <1>1, <1>3 DEF JobsFit
<1>6. ~ \E i \in 1..Len(outbox') : TRUE BY <1>1
<1>7. OutboxFits' /\ AnsweredOnce' BY <1>6 DEF OutboxFits, AnsweredOnce
<1>8. "locked" \in Detail!Slots BY SlotKinds
<1>9. ASSUME NEW t \in ListedSessions PROVE ReadIsOfTheLiving(t)' /\ TitleIsWanted(t)'
  <2> DEFINE j == slotJobs[t]["locked"]
  <2>1. slotJobs'[t]["locked"] = next(j, "locked") BY <1>1, <1>8
  <2>2. CASE slotJobs'[t]["locked"] = Detail!NoJob BY <2>2, NoJobFits DEF ReadIsOfTheLiving, TitleIsWanted
  <2>3. CASE j.sent \subseteq j.got /\ slotJobs'[t]["locked"] = j
    <3>1. Unanswered(t, "locked") BY <1>8, <2>3, UnaskedIsUnanswered DEF Unanswered
    <3>2. \A i \in 1..Len(outbox) : ~ToLocked(outbox[i], t) BY <1>8, <3>1, SlotKinds DEF Unanswered, ToLocked
    <3>3. Failing(t) => Failing(t)' BY <2>3, <3>2 DEF Failing
    <3>4. ReadIsOfTheLiving(t)' BY <1>0, <1>1, <2>3, <3>3 DEF ReadIsOfTheLiving
    <3>5. TitleIsWanted(t)' BY <1>0, <1>1, <1>6, <2>3 DEF TitleIsWanted
    <3> QED BY <3>4, <3>5
  <2> QED BY <2>1, <2>2, <2>3
<1>10. Detail!LateLoadsReviveNothing' BY <1>1, ShotsKept
<1> QED BY <1>0, <1>1, <1>4, <1>5, <1>7, <1>9, <1>10 DEF DetailInvariant

----
LEMMA DetailStarts ==
  Detail!Init => DetailInvariant
<1> SUFFICES ASSUME Detail!Init PROVE DetailInvariant OBVIOUS
<1>1. /\ atServer = [s \in ListedSessions |-> [name |-> "none", goal |-> "no", turn |-> "none", archived |-> FALSE]]
      /\ inList = ListedSessions /\ forgotten = {} /\ lives = [s \in ListedSessions |-> 0]
      /\ cachedShot = [s \in ListedSessions |-> Detail!NoSnapshot]
      /\ cachedGoal = [s \in ListedSessions |-> Detail!Unknown]
      /\ slotJobs = [s \in ListedSessions |-> [k \in Detail!Slots |-> Detail!NoJob]] /\ outbox = <<>>
  BY DEF Detail!Init
<1>2. DetailTypes
  <2>1. /\ Detail!NoSnapshot \in [name : Values, turn : Values, life : Nat]
        /\ Detail!Unknown \in [goal : Values, life : Nat]
    BY DEF Detail!NoSnapshot, Detail!Unknown, Values
  <2>2. [name |-> "none", goal |-> "no", turn |-> "none", archived |-> FALSE] \in ThreadType
    BY DEF ThreadType, YesOrNo
  <2> QED BY <1>1, <2>1, <2>2, NoJobFits DEF DetailTypes
<1>3. JobsFit BY <1>1, NoJobFits DEF JobsFit
<1>4. ~ \E i \in 1..Len(outbox) : TRUE BY <1>1
<1>5. OutboxFits /\ AnsweredOnce BY <1>4 DEF OutboxFits, AnsweredOnce
<1>6. \A s \in ListedSessions : slotJobs[s]["locked"] = Detail!NoJob BY <1>1 DEF Detail!Slots
<1>7. \A s \in ListedSessions : ReadIsOfTheLiving(s) /\ TitleIsWanted(s)
  BY <1>6, NoJobFits DEF ReadIsOfTheLiving, TitleIsWanted
<1>8. Detail!LateLoadsReviveNothing BY <1>1 DEF Detail!LateLoadsReviveNothing, Detail!NoSnapshot, Detail!Unknown
<1> QED BY <1>1, <1>2, <1>3, <1>5, <1>7, <1>8 DEF DetailInvariant

LEMMA DetailNext ==
  ASSUME DetailConstants, DetailInvariant, [Detail!Next]_(Detail!vars)
  PROVE  DetailInvariant'
<1>1. CASE UNCHANGED Detail!vars
  BY <1>1 DEF Detail!vars, DetailInvariant, DetailTypes, JobsFit, OutboxFits, AnsweredOnce, ReadIsOfTheLiving,
    TitleIsWanted, Failing, Detail!LateLoadsReviveNothing
<1>2. CASE Detail!Next
  <2>1. CASE Detail!List \/ Detail!HandleLine \/ Detail!Lose BY <2>1, DetailList, DetailHandle, DetailLose
  <2>2. ASSUME NEW s \in ListedSessions, NEW kind \in UserActs, Detail!Begin(s, kind)
        PROVE  DetailInvariant'
    BY <2>2, DetailBegin
  <2>3. ASSUME NEW s \in ListedSessions,
               \/ Detail!ApplyTitle(s) \/ Detail!Titled(s) \/ Detail!Done(s) \/ Detail!Refused(s)
               \/ Detail!RecoverArchive(s)
        PROVE  DetailInvariant'
    BY <2>3, DetailApplyTitle, DetailTitled, DetailDone, DetailRefused, DetailRecover
  <2>4. ASSUME NEW s \in ListedSessions,
               \/ Detail!TurnChanges(s) \/ Detail!GoalChanges(s) \/ Detail!Returns(s) \/ Detail!RenameSent(s)
        PROVE  DetailInvariant'
    BY <2>4, DetailTurns, DetailReturns, DetailRename
  <2>5. ASSUME NEW s \in ListedSessions, NEW k \in Detail!Slots,
               Detail!GoalLoaded(s, k) \/ Detail!ForkLoaded(s, k)
        PROVE  DetailInvariant'
    BY <2>5, DetailLoaded
  <2>6. ASSUME NEW s \in ListedSessions, NEW k \in Detail!Slots, NEW r \in slotJobs[s][k].asked,
               Detail!Serve(s, k, r)
        PROVE  DetailInvariant'
    BY <2>6, DetailServe
  <2> QED BY <1>2, <2>1, <2>2, <2>3, <2>4, <2>5, <2>6 DEF Detail!Next
<1> QED BY <1>1, <1>2

\* A user's name is replaced by nothing but another request of a user.
LEMMA NamesAreKept ==
  ASSUME DetailConstants, DetailInvariant, [Detail!Next]_(Detail!vars)
  PROVE  Detail!UserNameStaysStep
<1> SUFFICES ASSUME NEW t \in ListedSessions, atServer[t].name = "user"
             PROVE  atServer'[t].name # "auto"
  BY DEF Detail!UserNameStaysStep
<1>0. DetailTypes /\ atServer \in [ListedSessions -> ThreadType] BY DetailPieces DEF DetailTypes
<1>1. CASE atServer' = atServer BY <1>1
<1>2. ASSUME NEW s \in ListedSessions, Detail!TurnChanges(s) PROVE atServer'[t].name = atServer[t].name
  BY <1>0, <1>2 DEF Detail!TurnChanges, ThreadType
<1>3. ASSUME NEW s \in ListedSessions, Detail!GoalChanges(s) PROVE atServer'[t].name = atServer[t].name
  BY <1>0, <1>3 DEF Detail!GoalChanges, ThreadType
<1>4. ASSUME NEW s \in ListedSessions, Detail!Returns(s) PROVE atServer'[t].name = atServer[t].name
  BY <1>0, <1>4 DEF Detail!Returns, ThreadType
<1>5. ASSUME NEW s \in ListedSessions, NEW k \in Detail!Slots, NEW r \in slotJobs[s][k].asked,
             Detail!Serve(s, k, r)
      PROVE  atServer'[t].name # "auto"
  <2>1. atServer' = atServer \/ atServer' = Detail!Effect(s, k, r) BY <1>5 DEF Detail!Serve
  <2>2. CASE t # s \/ r # "rename" BY <1>0, <1>1, <2>1, <2>2, EffectOf
  <2>3. CASE t = s /\ r = "rename" /\ slotJobs[s][k].kind = "title"
    <3>1. k = "locked"
      <4>1. WorkFits(slotJobs[s][k], k, lives[s]) BY DEF DetailInvariant, JobsFit
      <4>2. "title" \in KindsOf(k) BY <2>3, <4>1 DEF WorkFits
      <4> QED BY <4>2, SlotKinds
    <3> QED BY <1>5, <2>3, <3>1 DEF DetailInvariant, TitleIsWanted
  <2>4. CASE t = s /\ r = "rename" /\ slotJobs[s][k].kind # "title"
    <3>1. Detail!Effect(s, k, r) = [atServer EXCEPT ![s].name = "user"] BY <2>4 DEF Detail!Effect
    <3>2. Detail!Effect(s, k, r)[s].name = "user" BY <1>0, <3>1 DEF ThreadType
    <3> QED BY <1>1, <2>1, <2>4, <3>2
  <2> QED BY <2>2, <2>3, <2>4
<1>6. CASE Detail!List \/ Detail!HandleLine \/ Detail!Lose
  BY <1>1, <1>6 DEF Detail!List, Detail!HandleLine, Detail!Lose
<1>7. ASSUME NEW s \in ListedSessions,
             \/ \E kind \in UserActs : Detail!Begin(s, kind)
             \/ Detail!ApplyTitle(s) \/ Detail!Titled(s) \/ Detail!Refused(s)
             \/ Detail!RecoverArchive(s) \/ Detail!RenameSent(s)
      PROVE  atServer' = atServer
  BY <1>7 DEF Detail!Begin, Detail!ApplyTitle, Detail!Titled, Detail!Refused, Detail!RecoverArchive, Detail!RenameSent
<1>8. ASSUME NEW s \in ListedSessions, NEW k \in Detail!Slots, Detail!GoalLoaded(s, k) \/ Detail!ForkLoaded(s, k)
      PROVE  atServer' = atServer
  BY <1>8 DEF Detail!GoalLoaded, Detail!ForkLoaded
<1>9. ASSUME NEW s \in ListedSessions, Detail!Done(s) PROVE atServer' = atServer BY <1>9 DEF Detail!Done
<1>10. CASE UNCHANGED Detail!vars BY <1>1, <1>10 DEF Detail!vars
<1> QED BY <1>1, <1>2, <1>3, <1>4, <1>5, <1>6, <1>7, <1>8, <1>9, <1>10 DEF Detail!Next

\* What the list and the page show of a session is of its present life, and nothing is
\* shown of a session that has gone, whichever loads, answers and notifications come
\* late; and an automatic title never replaces a name that a user gave.  For any number
\* of sessions, loads, refusals and losses of the connection.
THEOREM DetailsStayTrue ==
  ASSUME DetailConstants
  PROVE  Detail!Spec => []Detail!LateLoadsReviveNothing /\ Detail!UserNameStays
<1>1. DetailInvariant => Detail!LateLoadsReviveNothing BY DEF DetailInvariant
<1> QED BY <1>1, DetailStarts, DetailNext, NamesAreKept, PTL DEF Detail!Spec, Detail!UserNameStays
====
