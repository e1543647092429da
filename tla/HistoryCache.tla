---- MODULE HistoryCache ----
(*
The histories of sessions that pages keep: session-history-cache.ts, a
memory per tab over one IndexedDB for all tabs, and the reads that name
the prefix they have (session-query.ts), which the server leaves out of
its answer while it is unchanged (session-sync.ts).

A Turn is its text and whether it is in progress; the hash of a prefix
is the prefix.  A transaction of IndexedDB is one step; what it read is
handed to the page later.
*)
EXTENDS Naturals, Sequences, SequencesExt

CONSTANTS
    Tabs, Sessions,
    Changing,       \* the sessions whose history changes while pages read
    MaxEntries,     \* MAX_ENTRIES, and what MAX_BYTES has room for
    MaxTurns,       \* bound: Turns of a session
    MaxEdits        \* bound: changes of histories by the App Server

VARIABLES
    history,    \* per session the Turns the server reads
    archived,   \* sessions that the server does not find any more
    edits,
    memory,     \* per tab a sequence of entries, the last one used last
    disk,       \* the sessions of IndexedDB, the last one written last
    fetch       \* per tab its read under way

vars == <<history, archived, edits, memory, disk, fetch>>

----
(* sessionSyncResponse *)

\* The Turns before the first one in progress.
Stable(turns) ==
    LET live == {i \in 1..Len(turns) : turns[i].live}
    IN  IF live = {} THEN Len(turns) ELSE (CHOOSE i \in live : \A j \in live : i <= j) - 1

Hash(turns, count) == SubSeq(turns, 1, count)

\* mutant: the prefix is known by its length.
RetainedByLength(turns, count, hash) == IF count <= Stable(turns) THEN count ELSE 0

\* How many Turns of the reader's prefix are left out.
Retained(turns, count, hash) ==
    IF count <= Stable(turns) /\ hash = Hash(turns, count) THEN count ELSE 0

SyncResponse(turns, count, hash) ==
    LET retained == Retained(turns, count, hash)
    IN  [turns |-> SubSeq(turns, retained + 1, Len(turns)), retained |-> retained,
         prefix |-> Stable(turns), hash |-> Hash(turns, Stable(turns))]

----
(* The cache *)

Entry(s, turns, prefix, hash) ==
    [id |-> s, turns |-> turns, prefix |-> prefix, hash |-> hash]
NoEntry == Entry("none", <<>>, 0, <<>>)
NoFetch == [at |-> "none", id |-> "none", cached |-> NoEntry, response |-> "none", truth |-> <<>>]

Without(entries, s) == SelectSeq(entries, LAMBDA e : e.id # s)
Newest(entries) ==
    SubSeq(entries, IF Len(entries) > MaxEntries THEN Len(entries) - MaxEntries + 1 ELSE 1, Len(entries))

\* remember()
Remember(entries, entry) == Newest(Append(Without(entries, entry.id), entry))

\* The put of writeSessionHistory, and the eviction in its transaction.
Put(entries, entry) == Newest(Append(Without(entries, entry.id), entry))

Kept(entries, s) == SelectSeq(entries, LAMBDA e : e.id = s)
Found(entries, s) == IF Kept(entries, s) = <<>> THEN NoEntry ELSE Kept(entries, s)[1]

\* The entry whose prefix the request has named.
Prefix(tab) == fetch[tab].cached

\* reconstructSession: what it throws for, and what it returns.
Torn(response, cached) ==
    response.retained > 0
    /\ (response.retained # cached.prefix \/ response.retained > Len(cached.turns))
Reconstructed(response, cached) == SubSeq(cached.turns, 1, response.retained) \o response.turns

Init ==
    /\ history = [s \in Sessions |-> <<[text |-> 0, live |-> FALSE]>>] /\ archived = {} /\ edits = 0
    /\ memory = [t \in Tabs |-> <<>>] /\ disk = <<>>
    /\ fetch = [t \in Tabs |-> NoFetch]

\* readSessionHistory finds the entry in memory, or asks IndexedDB.
Fetch(t, s) ==
    /\ fetch[t].at = "none"
    /\ LET hit == Found(memory[t], s)
       IN  IF hit # NoEntry
           THEN /\ memory' = [memory EXCEPT ![t] = Remember(@, hit)]
                /\ fetch' = [fetch EXCEPT ![t] = [NoFetch EXCEPT !.at = "asked", !.id = s, !.cached = hit]]
           ELSE /\ fetch' = [fetch EXCEPT ![t] =
                      [NoFetch EXCEPT !.at = "reading", !.id = s, !.cached = Found(disk, s)]]
                /\ UNCHANGED memory
    /\ UNCHANGED <<history, archived, edits, disk>>

\* IndexedDB hands over its entry, or fails to.
DiskRead(t) ==
    /\ fetch[t].at = "reading"
    /\ \E entry \in {fetch[t].cached, NoEntry} :
        /\ fetch' = [fetch EXCEPT ![t].at = "asked", ![t].cached = entry]
        /\ memory' = IF entry = NoEntry THEN memory
                     ELSE [memory EXCEPT ![t] = Remember(@, entry)]
    /\ UNCHANGED <<history, archived, edits, disk>>

\* GET /api/sessions/:threadId?sync=1
Answer(t) ==
    /\ fetch[t].at = "asked"
    /\ LET s == fetch[t].id
           turns == history[s]
           cached == fetch[t].cached
       IN  fetch' = [fetch EXCEPT ![t] =
              IF s \in archived THEN [@ EXCEPT !.at = "missing"]
              ELSE [@ EXCEPT !.at = "answered", !.truth = turns,
                             !.response = SyncResponse(turns, cached.prefix, cached.hash)]]
    /\ UNCHANGED <<history, archived, edits, memory, disk>>

\* The request fails or is aborted.
Fail(t) ==
    /\ fetch[t].at \in {"reading", "asked", "answered"}
    /\ fetch' = [fetch EXCEPT ![t] = NoFetch]
    /\ UNCHANGED <<history, archived, edits, memory, disk>>

\* fetchMergedSession goes on; a history that is too large is not written.
Handle(t) ==
    /\ fetch[t].at = "answered" /\ ~Torn(fetch[t].response, Prefix(t))
    /\ LET response == fetch[t].response
           turns == Reconstructed(response, Prefix(t))
           entry == Entry(fetch[t].id, turns, response.prefix, response.hash)
       IN  \/ /\ memory' = [memory EXCEPT ![t] = Remember(@, entry)]
              /\ disk' \in {Put(disk, entry), disk}
           \/ UNCHANGED <<memory, disk>>
    /\ fetch' = [fetch EXCEPT ![t] = NoFetch]
    /\ UNCHANGED <<history, archived, edits>>

\* removeSessionHistory, for a 404 or an archived session.
Removes(t, s) ==
    /\ memory' = [memory EXCEPT ![t] = Without(@, s)]
    /\ disk' = Without(disk, s)

Missing(t) ==
    /\ fetch[t].at = "missing" /\ Removes(t, fetch[t].id)
    /\ fetch' = [fetch EXCEPT ![t] = NoFetch]
    /\ UNCHANGED <<history, archived, edits>>

Archived(t, s) ==
    /\ s \in archived /\ Removes(t, s)
    /\ UNCHANGED <<history, archived, edits, fetch>>

\* A page is closed or loaded anew.
Reload(t) ==
    /\ memory' = [memory EXCEPT ![t] = <<>>] /\ fetch' = [fetch EXCEPT ![t] = NoFetch]
    /\ UNCHANGED <<history, archived, edits, disk>>

\* MAX_AGE passes: no entry is used any more, and the next write deletes them.
Age ==
    /\ memory' = [t \in Tabs |-> <<>>] /\ disk' = <<>>
    /\ UNCHANGED <<history, archived, edits, fetch>>

----
(* The App Server: Turns begin, go on, end, and are rewritten or dropped. *)
Edits(turns) ==
    (IF Len(turns) < MaxTurns THEN {Append(turns, [text |-> 0, live |-> TRUE])} ELSE {})
    \cup {[turns EXCEPT ![i].live = FALSE] : i \in {j \in DOMAIN turns : turns[j].live}}
    \cup {[turns EXCEPT ![i].text = 1 - @] : i \in DOMAIN turns}
    \cup (IF turns = <<>> THEN {} ELSE {Front(turns)})

Edit(s) ==
    /\ s \notin archived /\ edits < MaxEdits /\ edits' = edits + 1
    /\ \E turns \in Edits(history[s]) : history' = [history EXCEPT ![s] = turns]
    /\ UNCHANGED <<archived, memory, disk, fetch>>

Archive(s) ==
    /\ edits < MaxEdits /\ edits' = edits + 1
    /\ archived' = archived \cup {s}
    /\ UNCHANGED <<history, memory, disk, fetch>>

Next ==
    \/ \E t \in Tabs : \/ \E s \in Sessions : Fetch(t, s) \/ Archived(t, s)
                       \/ DiskRead(t) \/ Answer(t) \/ Fail(t) \/ Handle(t) \/ Missing(t) \/ Reload(t)
    \/ \E s \in Changing : Edit(s) \/ Archive(s)
    \/ Age

Spec == Init /\ [][Next]_vars

----
\* What a page puts together from its own prefix and the server's answer is the
\* history the server had when it answered, whatever other tabs, evictions and
\* removals did to the cache; the prefix is always there.
ReconstructsTheHistory ==
    \A t \in Tabs :
        fetch[t].at = "answered" =>
            /\ ~Torn(fetch[t].response, Prefix(t))
            /\ Reconstructed(fetch[t].response, Prefix(t)) = fetch[t].truth
====
