---- MODULE StreamedText ----
(*
One streaming Turn as three places keep it: the service's snapshot of
the session with its delta buffers (session-service.ts), the registry's
live deltas (runtime-registry.ts), and the page's timeline with its own
deltas (store.ts, live-session.ts, session-query.ts).  The App Server
says each item letter by letter; a completion may repeat the whole
text, only its end, or nothing; history is read at any moment and is
merged into both copies.  Nothing numbers the letters: every merge
guesses the overlap of two texts (mergeStreamingText).
*)
EXTENDS Integers, SequencesExt, FiniteSetsExt

CONSTANTS
    Letters,     \* what texts are made of: few, so that they repeat
    Agents,      \* ids of assistant messages, numbers in the order they start
    Commands,    \* ids of command executions
    MaxText,     \* bound: letters an item says
    MaxOutages,  \* bound: times the App Server is out of reach for a while
    LateOutput   \* whether a command may print after its Turn is over

Ids == Agents \cup Commands

VARIABLES
    said,      \* what the App Server has said of each item
    phase,     \* "none", "open", "done", or "gone": a retried stream's message
    over,      \* whether the Turn is over
    linked,    \* whether the service is connected to the App Server
    outages,
    snap,      \* the items of the Turn in the service's snapshot
    buffer,    \* SessionService's delta buffers
    live,      \* RuntimeRegistry's live deltas, what bootstrap hands a page
    timeline,  \* the Turn on the page
    shownOver, \* whether it is over there
    deltas,    \* the page's store of deltas
    touched,   \* whether an event changed the page's Turn since it asked
    read       \* the page's request for the session

codex == <<said, phase, over>>
server == <<snap, buffer, live>>
page == <<timeline, shownOver, deltas, touched>>
vars == <<said, phase, over, linked, outages, snap, buffer, live, timeline,
          shownOver, deltas, touched, read>>

Item(i, text) == [id |-> i, text |-> text]
IdsOf(items) == {items[k].id : k \in DOMAIN items}
At(items, i) == CHOOSE k \in DOMAIN items : items[k].id = i
TextOf(items, i) == items[At(items, i)].text
Silent == [i \in Ids |-> <<>>]
NoRead == [asked |-> FALSE, served |-> FALSE]
----
(***************************************************************************)
(* The merges. *)
(***************************************************************************)

\* mergeStreamingText: an update the base starts with is old; otherwise what
\* the longest overlap of the base's end and the update's start leaves.
Merge(base, update) ==
    IF IsPrefix(update, base) THEN base
    ELSE LET overlap == Max({n \in 0..Len(update) :
                                 IsSuffix(SubSeq(update, 1, n), base)})
         IN  base \o SubSeq(update, overlap + 1, Len(update))

\* richerItem: outputs are merged, of two messages the longer one is taken.
Richer(primary, supplemental) ==
    IF primary.id \in Commands
    THEN Item(primary.id, Merge(supplemental.text, primary.text))
    ELSE IF Len(primary.text) >= Len(supplemental.text) THEN primary
         ELSE supplemental

\* What pairs two items: their id when both lists hold it, else their text
\* and how many items before them had the same.
Keys(items, shared) ==
    [k \in DOMAIN items |->
        IF items[k].id \in shared THEN <<"id", items[k].id, 0>>
        ELSE LET key(it) == IF it.id \in Commands THEN <<it.id>> ELSE it.text
             IN  <<"text", key(items[k]),
                   Cardinality({j \in 1..k : /\ items[j].id \notin shared
                                             /\ (items[j].id \in Commands)
                                                   = (items[k].id \in Commands)
                                             /\ key(items[j]) = key(items[k])})>>]

\* commonItemPairs: a longest common subsequence, as places in both lists.
CommonPairs(left, right) ==
    LET common[k \in 1..Len(left) + 1, l \in 1..Len(right) + 1] ==
            IF k > Len(left) \/ l > Len(right) THEN <<>>
            ELSE IF left[k] = right[l]
                 THEN <<<<k, l>>>> \o common[k + 1, l + 1]
            ELSE IF Len(common[k + 1, l]) >= Len(common[k, l + 1])
                 THEN common[k + 1, l]
            ELSE common[k, l + 1]
    IN  common[1, 1]

\* mergeSnapshotItems: the order of the primary list, with what only the
\* supplemental one holds put in at the pairs around it.
MergedItems(primary, supplemental) ==
    LET known == IdsOf(primary)
        extras == IdsOf(supplemental)
        rich == [k \in DOMAIN primary |->
                    IF primary[k].id \in extras
                    THEN Richer(primary[k],
                                supplemental[At(supplemental, primary[k].id)])
                    ELSE primary[k]]
        shared == known \cap extras
        pairs == CommonPairs(Keys(rich, shared), Keys(supplemental, shared))
        ends == Append(pairs, <<Len(rich) + 1, Len(supplemental) + 1>>)
        from(k) == IF k = 1 THEN <<0, 0>> ELSE pairs[k - 1]
        piece(k) ==
            SelectSeq(SubSeq(supplemental, from(k)[2] + 1, ends[k][2] - 1),
                      LAMBDA it : it.id \notin known)
            \o SubSeq(rich, from(k)[1] + 1, ends[k][1] - 1)
            \o (IF k = Len(ends) THEN <<>>
                ELSE <<Richer(rich[ends[k][1]], supplemental[ends[k][2]])>>)
    IN  FlattenSeq([k \in DOMAIN ends |-> piece(k)])

\* reconcileAgentMessageHistory: a cached message that history does not hold,
\* though it holds a later item, was given up by its stream.
Reconciled(history, cached) ==
    SelectSeq(cached, LAMBDA it :
        \/ it.id \in IdsOf(history) \cup Commands
        \/ \A k \in At(cached, it.id)..Len(cached) :
               cached[k].id \notin IdsOf(history))
----
(***************************************************************************)
(* The service applies an event. *)
(***************************************************************************)
\* upsertSnapshotItem, then upsertSnapshotTurn with the list it makes.
Upserted(it) ==
    LET items == IF it.id \notin IdsOf(snap) THEN Append(snap, it)
                 ELSE [snap EXCEPT ![At(snap, it.id)].text = Merge(@, it.text)]
    IN  MergedItems(items, snap)

BufferedNot(it) == it                                           \* mutant

\* withBufferedCommandOutput, withBufferedAgentMessage.
Buffered(it) == Item(it.id, IF buffer[it.id] = <<>> THEN it.text
                            ELSE Merge(buffer[it.id], it.text))

ServerUpserts(i, text, completed) ==
    /\ snap' = Upserted(Buffered(Item(i, text)))
    /\ buffer' = IF completed THEN [buffer EXCEPT ![i] = <<>>] ELSE buffer
    /\ live' = IF completed THEN [live EXCEPT ![i] = <<>>] ELSE live

\* appendSnapshotCommandDelta adds the letter to the output it has;
\* appendSnapshotAgentDelta merges everything it has buffered.
ServerAppends(i, letter) ==
    /\ buffer' = [buffer EXCEPT ![i] = Append(@, letter)]
    /\ live' = [live EXCEPT ![i] = Append(@, letter)]
    /\ snap' = IF i \notin IdsOf(snap) THEN snap
               ELSE Upserted(Item(i, IF i \in Commands
                                     THEN Append(TextOf(snap, i), letter)
                                     ELSE Merge(TextOf(snap, i), buffer'[i])))

ServerCompletes(items) ==
    /\ snap' = MergedItems(items, snap)
    /\ buffer' = Silent
    /\ live' = Silent
----
(***************************************************************************)
(* The page applies the same event.  An event that a dead connection kept *)
(* from the service never comes to the page either. *)
(***************************************************************************)
\* mergeItemSnapshot into the item the list has, or a new item at its end;
\* a stale list keeps the progress that is already shown.
Placed(items, it, stale) ==
    IF it.id \notin IdsOf(items) THEN Append(items, it)
    ELSE [items EXCEPT ![At(items, it.id)].text =
              IF stale THEN Merge(it.text, @) ELSE Merge(@, it.text)]

\* upsertTurn.
TurnWith(items, incoming, stale) ==
    FoldLeft(LAMBDA all, it : Placed(all, it, stale), items, incoming)

\* applySessionEvent of item.upserted, hydrated from the deltas as they were
\* before the store consumed the event.
PageUpserts(i, text, completed) ==
    LET hydrated == IF deltas[i] = <<>> THEN text ELSE Merge(deltas[i], text)
    IN  /\ timeline' = Placed(timeline, Item(i, hydrated), FALSE)
        /\ deltas' = IF completed THEN [deltas EXCEPT ![i] = <<>>] ELSE deltas
        /\ touched' = TRUE
        /\ UNCHANGED shownOver

\* appendCommandDelta: only a command's output grows in the timeline itself.
PageAppends(i, letter) ==
    LET here == i \in Commands \cap IdsOf(timeline)
    IN  /\ deltas' = [deltas EXCEPT ![i] = Append(@, letter)]
        /\ timeline' = IF here
                       THEN [timeline EXCEPT ![At(timeline, i)].text =
                                                        Append(@, letter)]
                       ELSE timeline
        /\ touched' = (touched \/ here)
        /\ UNCHANGED shownOver

PageCompletes(items) ==
    /\ timeline' = TurnWith(timeline, items, FALSE)
    /\ shownOver' = TRUE
    /\ touched' = TRUE
    /\ UNCHANGED deltas
----
(***************************************************************************)
(* The App Server. *)
(***************************************************************************)
\* What an item's completion repeats.
Repeats(i) ==
    IF i \in Agents THEN {<<>>, said[i]}
    ELSE {SubSeq(said[i], k, Len(said[i])) : k \in 1..Len(said[i]) + 1}

Previous(i) == {j \in Ids : j < i}

Starts(i) ==
    /\ ~over /\ phase[i] = "none"
    /\ \A j \in Previous(i) : phase[j] # "none" /\ (j \in Agents => phase[j] # "open")
    /\ phase' = [phase EXCEPT ![i] = "open"]
    /\ IF linked THEN ServerUpserts(i, <<>>, FALSE) /\ PageUpserts(i, <<>>, FALSE)
       ELSE UNCHANGED <<server, page>>
    /\ UNCHANGED <<said, over, linked, outages, read>>

\* A command may print before the event of its start.
Says(i, letter) ==
    /\ Len(said[i]) < MaxText
    /\ over => LateOutput /\ i \in Commands
    /\ \/ phase[i] = "open"
       \/ /\ phase[i] = "none" /\ i \in Commands
          /\ \A j \in Previous(i) : phase[j] # "none"
    /\ said' = [said EXCEPT ![i] = Append(@, letter)]
    /\ IF linked THEN ServerAppends(i, letter) /\ PageAppends(i, letter)
       ELSE UNCHANGED <<server, page>>
    /\ UNCHANGED <<phase, over, linked, outages, read>>

\* A command of an interrupted Turn may exit after it.
Completes(i) ==
    /\ phase[i] = "open"
    /\ over => i \in Commands
    /\ phase' = [phase EXCEPT ![i] = "done"]
    /\ IF linked
       THEN \E text \in Repeats(i) :
                ServerUpserts(i, text, TRUE) /\ PageUpserts(i, text, TRUE)
       ELSE UNCHANGED <<server, page>>
    /\ UNCHANGED <<said, over, linked, outages, read>>

\* A stream that is retried speaks on under a new id.
GivenUp(i) ==
    /\ ~over /\ i \in Agents /\ phase[i] = "open"
    /\ phase' = [phase EXCEPT ![i] = "gone"]
    /\ UNCHANGED <<said, over, linked, outages, server, page, read>>

InOrder(ids) == SetToSortSeq(ids, LAMBDA i, j : i < j)
Done == {i \in Ids : phase[i] = "done"}

\* turn/completed lists no items, or the last of what each one said.
TurnEnds ==
    /\ ~over
    /\ over' = TRUE
    /\ IF linked
       THEN \E listed \in {{}, Done} :
              LET ids == InOrder(listed)
                  items == [k \in DOMAIN ids |->
                              Item(ids[k], LET all == said[ids[k]] IN
                                  IF ids[k] \in Commands /\ all # <<>>
                                  THEN <<Last(all)>> ELSE all)]
              IN  ServerCompletes(items) /\ PageCompletes(items)
       ELSE UNCHANGED <<server, page>>
    /\ UNCHANGED <<said, phase, linked, outages, read>>

\* Stored history: what is complete, of commands only some.
Histories ==
    {LET ids == InOrder(Done \ left)
     IN  [k \in DOMAIN ids |-> Item(ids[k], said[ids[k]])]
     : left \in SUBSET Commands}
----
(***************************************************************************)
(* The page reads the session; the connection breaks and comes back. *)
(***************************************************************************)
Asks ==
    /\ ~read.asked
    /\ read' = [asked |-> TRUE, served |-> FALSE]
    /\ touched' = FALSE
    /\ UNCHANGED <<codex, linked, outages, server, timeline, shownOver, deltas>>

\* readSessionUnlocked: the history, with what the snapshot has beyond it.
Serves ==
    /\ read.asked /\ ~read.served /\ linked
    /\ \E history \in Histories :
        /\ snap' = MergedItems(history, Reconciled(history, snap))
        /\ read' = [asked |-> TRUE, served |-> TRUE, items |-> snap',
                    over |-> over, history |-> IdsOf(history)]
    /\ UNCHANGED <<codex, linked, outages, buffer, live, page>>

\* fetchMergedSession: a Turn that changed meanwhile, or that is not over on
\* both sides, is merged into the answer; any other is replaced by it.
Arrives ==
    /\ read.served
    /\ LET keeps == touched \/ ~shownOver \/ ~read.over
       IN  /\ timeline' = IF keeps
                          THEN TurnWith(read.items, Reconciled(read.items, timeline),
                                        read.over /\ ~shownOver)
                          ELSE read.items
           /\ shownOver' = (read.over \/ shownOver)
    /\ read' = NoRead
    /\ touched' = TRUE
    /\ UNCHANGED <<codex, linked, outages, server, deltas>>

\* handleConnection clears the live deltas; SessionService keeps its buffers.
ConnectionBreaks ==
    /\ linked /\ outages < MaxOutages
    /\ linked' = FALSE
    /\ outages' = outages + 1
    /\ live' = Silent
    /\ read' = NoRead
    /\ UNCHANGED <<codex, snap, buffer, page>>

\* reconcileAfterReconnect replaces the snapshot by a read of the history;
\* the page takes the registry's deltas with its new bootstrap.
ConnectionReturns ==
    /\ ~linked
    /\ linked' = TRUE
    /\ snap' \in Histories
    /\ deltas' = live
    /\ UNCHANGED <<codex, outages, buffer, live, timeline, shownOver, touched, read>>

Init ==
    /\ said = Silent
    /\ phase = [i \in Ids |-> "none"]
    /\ over = FALSE
    /\ linked = TRUE /\ outages = 0
    /\ snap = <<>> /\ buffer = Silent /\ live = Silent
    /\ timeline = <<>> /\ shownOver = FALSE /\ deltas = Silent /\ touched = FALSE
    /\ read = NoRead

Speaks == \E i \in Ids :
    Starts(i) \/ Completes(i) \/ GivenUp(i) \/ \E l \in Letters : Says(i, l)

Next == \/ Speaks \/ TurnEnds
        \/ Asks \/ Serves \/ Arrives
        \/ ConnectionBreaks \/ ConnectionReturns

Spec == Init /\ [][Next]_vars
----
(***************************************************************************)
(* The properties. *)
(***************************************************************************)
\* A list of items tells no more than was said of each, all of what is done,
\* and the items in the order they started.
Tells(items, text(_)) ==
    /\ \A i \in IdsOf(items) : IsPrefix(text(i), said[i])
    /\ \A i \in Done : i \in IdsOf(items) /\ text(i) = said[i]
    /\ \A k, l \in DOMAIN items : k < l => items[k].id < items[l].id

\* Whatever repeats, whatever a completion leaves out and whenever history is
\* read, the service's snapshot holds each finished text exactly once
\* (session-service.ts 1929-2010, shared-types mergeStreamingText).
SnapshotIsWhatWasSaid ==
    linked => Tells(snap, LAMBDA i : TextOf(snap, i))

\* And so does the page, which adds its deltas to what the timeline holds
\* (live-session.ts, session-query.ts 39-52, Timeline.tsx 105-108).
PageShowsWhatWasSaid ==
    linked => Tells(timeline, LAMBDA i : Merge(TextOf(timeline, i), deltas[i]))

\* Even across an outage, nothing of what was said is in the snapshot twice
\* (tests/unit/streaming-text.test.ts 17: "without duplicating cumulative
\* text"; session-service.ts 1975-2006).
NothingTwice ==
    \A k \in DOMAIN snap : Len(snap[k].text) <= Len(said[snap[k].id])

\* A message its stream gave up is on neither side once the page has read a
\* history that goes beyond it (README 310).
GivenUpGoes ==
    [][\A i \in Ids :
         /\ phase[i] = "gone"
         /\ read.served /\ ~read'.asked /\ linked'
         /\ \E j \in read.history : j > i
         => i \notin IdsOf(snap') \cup IdsOf(timeline')]_vars
====
