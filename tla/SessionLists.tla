---- MODULE SessionLists ----
(*
The lists of sessions that a page keeps in its query cache, one for
every text that was searched for: loads of the lists, renames shown
before they are done, archives, the removal of a project, and the
session that the page opens by itself.

Of a summary the title is modelled, which is what is searched; the
searched text is one of the titles.  The order of a list is not.
*)
EXTENDS Naturals, Sequences

CONSTANTS
    Sessions,
    Doomed,       \* the sessions of the project that is removed
    Titles,
    Wanted,       \* the title that is searched for
    Renamers,     \* the sidebar, the pane: each has a rename of its own
    MaxChanges,   \* bound: renames and archives of this page and of others
    MaxLoads,     \* bound: loads of lists beside the first ones
    MaxLost       \* bound: answers that are lost

VARIABLES
    title, known,         \* the service: titles, and the sessions it lists
    events,               \* published, not yet applied by the page
    list,                 \* a cached list: rows, stale (or loaded and fresh), load
    searching,            \* the list of what was found is on display
    rename, archive, removal,
    selected, suppressed, \* autoOpenSuppressed
    had,                  \* per session: the titles the service gave it
    gone,                 \* sessions archived by this page while they were open
    overlapped,           \* two renames of a session, or an archive and the removal,
                          \* were under way at once
    changes, loads, lost

vars == <<title, known, events, list, searching, rename, archive, removal, selected,
          suppressed, had, gone, overlapped, changes, loads, lost>>
server == <<title, known, had>>
page == <<searching, selected, suppressed>>
jobs == <<rename, archive, removal>>
bounds == <<changes, loads, lost>>

None == "none"
Keys == {"all", "found"}
NoRows == [s \in Sessions |-> None]
NotLoading == [at |-> "none", rows |-> NoRows]
NoRename == [at |-> "none", s |-> 0, title |-> None, previous |-> None]
NoArchive == [at |-> "none", s |-> 0, open |-> FALSE]

Shows(key) == key = "all" \/ searching
Matches(key, t) == key = "all" \/ t = Wanted
RowsOf(key) ==
    [s \in Sessions |-> IF s \in known /\ Matches(key, title[s]) THEN title[s] ELSE None]

\* bootstrap has answered; the list of all sessions is asked for.
Init ==
    /\ title = [s \in Sessions |-> CHOOSE t \in Titles : t # Wanted]
    /\ known = Sessions /\ events = <<>>
    /\ list = [key \in Keys |->
          [rows |-> NoRows, stale |-> TRUE,
           load |-> [NotLoading EXCEPT !.at = IF key = "all" THEN "asked" ELSE "none"]]]
    /\ searching = FALSE /\ rename = [r \in Renamers |-> NoRename]
    /\ archive = NoArchive /\ removal = "none" /\ selected = 0 /\ suppressed = FALSE
    /\ had = [s \in Sessions |-> {title[s]}] /\ gone = {} /\ overlapped = {}
    /\ changes = 0 /\ loads = 0 /\ lost = 0

Change == changes < MaxChanges /\ changes' = changes + 1 /\ UNCHANGED <<loads, lost>>
Lose == lost < MaxLost /\ lost' = lost + 1 /\ UNCHANGED <<changes, loads>>

----
(* The query cache *)

\* mutant: a load that is under way goes on.
NotCancelled(ls) == ls
\* cancelQueries.
Cancelled(ls) == [key \in Keys |-> [ls[key] EXCEPT !.load = NotLoading]]

\* invalidateQueries: lists on display are loaded again, the others when they are next.
Invalidated(ls) ==
    [key \in Keys |-> [ls[key] EXCEPT !.stale = TRUE,
        !.load = IF Shows(key) THEN [NotLoading EXCEPT !.at = "asked"] ELSE NotLoading]]

\* The list in which getQueriesData finds the session first.
Existing(ls, s) ==
    IF ls["all"].rows[s] # None THEN ls["all"].rows[s] ELSE ls["found"].rows[s]

\* upsertCachedSessionSummary.
Upserted(ls, s, t) ==
    [key \in Keys |-> [ls[key] EXCEPT !.rows[s] = IF Matches(key, t) THEN t ELSE None]]
\* mutant: a summary that is not in any list is added to them.
PatchedAnyhow(ls, s, t) == Upserted(ls, s, t)
\* patchCachedSessionSummary.
Patched(ls, s, t) == IF Existing(ls, s) = None THEN ls ELSE Upserted(ls, s, t)

\* removeCachedSessionSummary.
Removed(ls, s) == [key \in Keys |-> [ls[key] EXCEPT !.rows[s] = None]]

Serve(key) ==
    /\ list[key].load.at = "asked"
    /\ list' = [list EXCEPT ![key].load = [at |-> "served", rows |-> RowsOf(key)]]
    /\ UNCHANGED <<server, events, page, jobs, gone, overlapped, bounds>>

Loaded(key) ==
    /\ list[key].load.at = "served"
    /\ list' = [list EXCEPT ![key] = [rows |-> @.load.rows, stale |-> FALSE, load |-> NotLoading]]
    /\ UNCHANGED <<server, events, page, jobs, gone, overlapped, bounds>>

LoadFails(key) ==
    /\ list[key].load.at # "none" /\ Lose
    /\ list' = [list EXCEPT ![key].load = NotLoading]
    /\ UNCHANGED <<server, events, page, jobs, gone, overlapped>>

\* "sessions.rescanned", the answer of a focus rescan, a refreshed snapshot.
Invalidate ==
    /\ loads < MaxLoads /\ loads' = loads + 1 /\ list' = Invalidated(list)
    /\ UNCHANGED <<server, events, page, jobs, gone, overlapped, changes, lost>>

\* The search field: a list that is not fresh is loaded when it is shown.
Search ==
    /\ loads < MaxLoads /\ loads' = loads + 1 /\ searching' = ~searching
    /\ list' = IF ~searching /\ list["found"].stale /\ list["found"].load.at = "none"
               THEN [list EXCEPT !["found"].load.at = "asked"] ELSE list
    /\ UNCHANGED <<server, events, jobs, selected, suppressed, gone, overlapped, changes, lost>>

----
(* Events *)

Publish(what, s, t) == events' = Append(events, [what |-> what, s |-> s, title |-> t])
RenamedTo(s, t) ==
    /\ title' = [title EXCEPT ![s] = t] /\ had' = [had EXCEPT ![s] = @ \cup {t}]
    /\ Publish("renamed", s, t) /\ UNCHANGED known

\* Another page, or an automatic title.
OtherRename(s, t) ==
    /\ s \in known /\ title[s] # t /\ Change /\ RenamedTo(s, t)
    /\ UNCHANGED <<list, page, jobs, gone, overlapped>>
OtherArchive(s) ==
    /\ s \in known /\ Change /\ known' = known \ {s} /\ Publish("archived", s, None)
    /\ UNCHANGED <<title, had, list, page, jobs, gone, overlapped>>

\* applyCachedSessionSummaryEvent.
ApplyEvent ==
    /\ events # <<>> /\ events' = Tail(events)
    /\ LET e == Head(events)
       IN  list' = IF e.what = "archived" THEN Removed(list, e.s)
                   ELSE Patched(list, e.s, e.title)
    /\ UNCHANGED <<server, page, jobs, gone, overlapped, bounds>>

----
(* Renames *)

\* A dialog is open as long as its rename is under way.
StartRename(r, s, t) ==
    /\ rename[r].at = "none" /\ Existing(list, s) # None /\ Change
    /\ list' = Patched(Cancelled(list), s, t)
    /\ rename' = [rename EXCEPT ![r] =
          [at |-> "asked", s |-> s, title |-> t, previous |-> Existing(list, s)]]
    /\ overlapped' = overlapped \cup {x \in {s} : \E q \in Renamers : rename[q].at # "none" /\ rename[q].s = s}
    /\ UNCHANGED <<server, events, page, archive, removal, gone>>

ServeRename(r) ==
    /\ rename[r].at = "asked"
    /\ \/ /\ rename[r].s \in known /\ RenamedTo(rename[r].s, rename[r].title)
          /\ rename' = [rename EXCEPT ![r].at = "done"] /\ UNCHANGED bounds
       \/ /\ Lose /\ rename' = [rename EXCEPT ![r].at = "failed"]
          /\ UNCHANGED <<server, events>>
       \/ /\ rename[r].s \notin known /\ rename' = [rename EXCEPT ![r].at = "failed"]
          /\ UNCHANGED <<server, events, bounds>>
    /\ UNCHANGED <<list, page, archive, removal, gone, overlapped>>

\* mutant: what was shown while the rename was under way is left.
RollbackNot(ls, r) == ls
\* The name only, and if it is still the one of this rename.
Rollback(ls, r) ==
    IF Existing(ls, r.s) = r.title THEN Patched(ls, r.s, r.previous) ELSE ls

RenameAnswered(r) ==
    /\ \/ /\ rename[r].at = "done" /\ UNCHANGED bounds
          /\ list' = Patched(list, rename[r].s, rename[r].title)
       \/ /\ rename[r].at = "failed" /\ UNCHANGED bounds /\ list' = Rollback(list, rename[r])
       \/ /\ rename[r].at = "done" /\ Lose /\ list' = Rollback(list, rename[r])
    /\ rename' = [rename EXCEPT ![r] = NoRename]
    /\ UNCHANGED <<server, events, page, archive, removal, gone, overlapped>>

----
(* Archives and the removal of a project *)

\* runSessionAction: one at a time.
StartArchive(s) ==
    /\ archive.at = "none" /\ Existing(list, s) # None /\ Change
    /\ archive' = [at |-> "asked", s |-> s, open |-> selected = s]
    /\ overlapped' = IF removal # "none" THEN overlapped \cup {0} ELSE overlapped
    /\ UNCHANGED <<server, events, list, page, rename, removal, gone>>

ServeArchive ==
    /\ archive.at = "asked"
    /\ IF archive.s \in known
       THEN /\ known' = known \ {archive.s} /\ Publish("archived", archive.s, None)
            /\ archive' = [archive EXCEPT !.at = "done"]
       ELSE archive' = [archive EXCEPT !.at = "refused"] /\ UNCHANGED <<known, events>>
    /\ UNCHANGED <<title, had, list, page, rename, removal, gone, overlapped, bounds>>

\* handleArchived for the session that was open when archiving began.
ArchiveAnswered ==
    /\ archive.at \in {"done", "refused"} /\ archive' = NoArchive
    /\ IF archive.at = "refused" THEN UNCHANGED <<list, gone, selected, suppressed>>
       ELSE IF archive.open
       THEN /\ list' = Removed(Cancelled(list), archive.s) /\ gone' = gone \cup {archive.s}
            /\ selected' = 0 /\ suppressed' = FALSE
       ELSE list' = Removed(list, archive.s) /\ UNCHANGED <<gone, selected, suppressed>>
    /\ UNCHANGED <<server, events, searching, rename, removal, overlapped, bounds>>

\* recentSessionToAutoOpen
CanOpen(s) == selected = 0 /\ ~suppressed /\ list["all"].rows[s] # None

\* mutant: the page may open another session at once.
SuppressesNot(s) == FALSE
\* removeProject: the page leaves a session of the project and opens no other.
Suppresses(s) == s \in Doomed
StartRemoval ==
    /\ removal = "none" /\ ~list["all"].stale /\ Change
    /\ ~\E s \in Sessions : CanOpen(s)      \* the page has opened one before
    /\ removal' = "asked"
    /\ IF selected \in Doomed
       THEN /\ selected' = 0 /\ list' = Cancelled(list)
            /\ suppressed' = IF Suppresses(selected) THEN TRUE ELSE suppressed
       ELSE UNCHANGED <<list, selected, suppressed>>
    /\ overlapped' = IF archive.at # "none" THEN overlapped \cup {0} ELSE overlapped
    /\ UNCHANGED <<server, events, searching, rename, archive, gone>>

ServeRemoval ==
    /\ removal = "asked"
    /\ \/ removal' = "done" /\ known' = known \ Doomed /\ UNCHANGED bounds
       \/ removal' = "refused" /\ Lose /\ UNCHANGED known
    /\ UNCHANGED <<title, had, events, list, page, rename, archive, gone, overlapped>>

\* The lists are loaded again before the page may open a session.
RemovalAnswered ==
    /\ removal = "done" /\ removal' = "loading" /\ list' = Invalidated(list)
    /\ UNCHANGED <<server, events, page, rename, archive, gone, overlapped, bounds>>
RemovalEnds ==
    /\ \/ removal = "refused"
       \/ removal = "loading" /\ \A key \in Keys : Shows(key) => list[key].load.at = "none"
    /\ removal' = IF removal = "refused" THEN "none" ELSE "over"
    /\ suppressed' = FALSE
    /\ UNCHANGED <<server, events, list, searching, selected, rename, archive, gone, overlapped, bounds>>

AutoOpen(s) ==
    /\ CanOpen(s) /\ selected' = s
    /\ UNCHANGED <<server, events, list, searching, suppressed, jobs, gone, overlapped, bounds>>

Next ==
    \/ \E key \in Keys : Serve(key) \/ Loaded(key) \/ LoadFails(key)
    \/ Invalidate \/ Search \/ ApplyEvent
    \/ \E s \in Sessions :
        \/ OtherArchive(s) \/ StartArchive(s) \/ AutoOpen(s)
        \/ \E t \in Titles : OtherRename(s, t) \/ \E r \in Renamers : StartRename(r, s, t)
    \/ \E r \in Renamers : ServeRename(r) \/ RenameAnswered(r)
    \/ ServeArchive \/ ArchiveAnswered
    \/ StartRemoval \/ ServeRemoval \/ RemovalAnswered \/ RemovalEnds

Spec == Init /\ [][Next]_vars

----
TypeOK ==
    /\ title \in [Sessions -> Titles] /\ known \subseteq Sessions
    /\ \A key \in Keys :
        /\ list[key].rows \in [Sessions -> Titles \cup {None}]
        /\ list[key].load.at \in {"none", "asked", "served"}
    /\ selected \in Sessions \cup {0}
    /\ removal \in {"none", "asked", "done", "refused", "loading", "over"}

\* A session that was open and that this page has archived is in no list again,
\* whatever loads, events and renames of it were still under way.
ArchivedStaysGone == \A s \in gone, key \in Keys : list[key].rows[s] = None

\* Once no rename and no load is under way, a list on display shows only names
\* that the service gave the session, unless two renames of it met.
FailedNamesLeave ==
    \A s \in Sessions, key \in Keys :
        /\ \A r \in Renamers : rename[r].s # s
        /\ Shows(key) /\ ~list[key].stale /\ list[key].load.at = "none"
        /\ s \notin overlapped
        => list[key].rows[s] \in had[s] \cup {None}

\* The page opens no session by itself that it has archived, nor one of the
\* project that is being removed from under it.
OpensWhatStaysStep ==
    \A s \in Sessions : selected = 0 /\ selected' = s =>
       /\ s \notin gone
       /\ removal \in {"asked", "done"} /\ 0 \notin overlapped => s \notin Doomed
OpensWhatStays == [][OpensWhatStaysStep]_vars
====
