---- MODULE SessionLocks ----
(*
The keys each operation of SessionService and ProjectIndexer locks, in
the order it nests them.  Project keys are those of the indexer's lock
(projectLocks), thread and side-chat keys those of SessionService.locks;
a key is a number, ordered as its identifier is.  The operations left
out lock one key, a project and then one thread, or (createSideChat) a
thread and then a key nobody locks outside of that thread's lock.
The last definitions are the instance that is checked.
*)
EXTENDS KeyedLock, Integers, SequencesExt

ById(k, l) == k < l

\* withKeys: duplicates dropped, sorted.
Sorted(keys) == SetToSortSeq(keys, ById)

ThreadFirst(thread, source, target) == <<thread>> \o Sorted({source, target}) \* mutant

\* moveToProject: both projects, then the thread.
MoveToProject(thread, source, target) == Sorted({source, target}) \o <<thread>>

\* removeProject: the threads of the project, then the side chats they have.
RemoveProject(project, threads, sideChats) ==
    <<project>> \o Sorted(threads) \o Sorted(sideChats)

\* archive: the side chat's lock is taken inside the thread's.
Archive(thread, sideChats) == <<thread>> \o Sorted(sideChats)

\* performScanAll: the matched project and the one the session is mapped to.
ScanSession(matched, mapped) == Sorted({matched, mapped})

----
\* The checked instance: two projects (1 and 2), a thread of project 1 (11) and
\* its side chat (21); the thread moves to the other project while a scan finds
\* it, its project is removed and it is archived.
MCOps == {"move", "scan", "remove", "archive"}

MCKeys == {1, 2, 11, 21}

MCPlan ==
    [o \in MCOps |->
        CASE o = "move"    -> MoveToProject(11, 1, 2)
          [] o = "scan"    -> ScanSession(2, 1)
          [] o = "remove"  -> RemoveProject(1, {11}, {21})
          [] o = "archive" -> Archive(11, {21})]

====
