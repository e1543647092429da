---- MODULE ForkTrees ----
(*
The Forks of a conversation as the page draws them: the family tree of
a session (sessionForkTree) and the rail beside its messages, which
shows in whose column each of them was said (messageRailBranches).

The sessions of the catalog are created, forked at or before a Turn,
found by a scan without a boundary, go on, and are removed; the service
knows of their Turns what it last read.
*)
EXTENDS Integers, Sequences, FiniteSets, SequencesExt

CONSTANTS
    Sessions,   \* 1..n, in the order they are created in
    MaxTurns    \* bound: Turns of a history

VARIABLES
    listed,     \* the sessions of the catalog
    born,
    parent,     \* parentThreadId, None of a root
    origin,     \* created, forked or discovered
    cut,        \* how many Turns it took over
    history,    \* its Turns: who said them, and how they ended
    held        \* how many of them the service has in its snapshot, -1 for none

vars == <<listed, born, parent, origin, cut, history, held>>

None == 0
Unknown == -1
Infinity == MaxTurns + 1
Turns == [by : Sessions, nr : 1..MaxTurns, status : {"completed", "failed"}]

Init ==
    /\ listed = {} /\ born = {}
    /\ parent = [s \in Sessions |-> None] /\ origin = [s \in Sessions |-> "created"]
    /\ cut = [s \in Sessions |-> 0] /\ history = [s \in Sessions |-> <<>>]
    /\ held = [s \in Sessions |-> -1]

----
(* The catalog *)

\* sessionSummary: forkTurnId, and its place among the Turns the service has.
ForkTurn(s) == IF origin[s] = "forked" /\ cut[s] > 0 THEN <<history[s][cut[s]]>> ELSE <<>>
Snapshot(s) == SubSeq(history[s], 1, held[s])
BoundaryTurns(s) ==
    IF held[parent[s]] >= 0 THEN Snapshot(parent[s])
    ELSE IF held[s] >= 0 THEN Snapshot(s) ELSE <<>>
Place(turn, turns) == SelectInSeq(turns, LAMBDA t : <<t>> = turn)
ForkTurnNumber(s) == LET at == Place(ForkTurn(s), BoundaryTurns(s))
                     IN  IF at = 0 THEN Unknown ELSE at

Fresh(s) == s \notin born /\ \A r \in Sessions \ born : s <= r
Known(s) == s \in listed

Create(s) ==
    /\ Fresh(s) /\ born' = born \cup {s} /\ listed' = listed \cup {s}
    /\ held' = [held EXCEPT ![s] = 0]
    /\ UNCHANGED <<parent, origin, cut, history>>

\* A Turn, which the service may not hear of until it reads the session again.
Say(s, status) ==
    /\ Known(s) /\ Len(history[s]) < MaxTurns
    /\ history' = [history EXCEPT
           ![s] = Append(@, [by |-> s, nr |-> Len(@) + 1, status |-> status])]
    /\ \/ held' = [held EXCEPT ![s] = IF @ = Len(history[s]) THEN @ + 1 ELSE @]
       \/ UNCHANGED held
    /\ UNCHANGED <<listed, born, parent, origin, cut>>

Read(s) ==
    /\ Known(s) /\ held[s] < Len(history[s])
    /\ held' = [held EXCEPT ![s] = Len(history[s])]
    /\ UNCHANGED <<listed, born, parent, origin, cut, history>>

Child(p, c, n, kind) ==
    /\ Known(p) /\ Fresh(c)
    /\ born' = born \cup {c} /\ listed' = listed \cup {c}
    /\ parent' = [parent EXCEPT ![c] = p] /\ origin' = [origin EXCEPT ![c] = kind]
    /\ cut' = [cut EXCEPT ![c] = n]
    /\ history' = [history EXCEPT ![c] = SubSeq(history[p], 1, n)]

\* forkBoundaryForTurn: after a completed Turn, or before it, which is after
\* the last completed one of those that precede it.
Completed(s, i) == history[s][i].status = "completed"
Before(s, i) == LET done == {j \in 1..(i - 1) : Completed(s, j)}
                IN  IF done = {} THEN 0 ELSE CHOOSE j \in done : \A k \in done : k <= j
Boundaries(s) == LET ends == {i \in DOMAIN history[s] : Completed(s, i)}
                 IN  ends \cup {Before(s, i) : i \in ends}

\* fork reads the source for its boundary; an empty Fork does not.
Fork(p, c) ==
    \E n \in Boundaries(p) :
        /\ Child(p, c, n, "forked")
        /\ held' = [held EXCEPT ![c] = n, ![p] = IF n = 0 THEN @ ELSE Len(history[p])]

\* The scan takes up a thread that another client forked.
Discover(p, c) ==
    \E n \in 1..Len(history[p]) :
        Child(p, c, n, "discovered") /\ UNCHANGED held

\* Archived, deleted or taken out of the project.
Leave(s) ==
    /\ Known(s) /\ listed' = listed \ {s} /\ held' = [held EXCEPT ![s] = -1]
    /\ UNCHANGED <<born, parent, origin, cut, history>>

Next ==
    \/ \E s \in Sessions :
        \/ Create(s) \/ Read(s) \/ Leave(s)
        \/ \E status \in {"completed", "failed"} : Say(s, status)
    \/ \E p, c \in Sessions : Fork(p, c) \/ Discover(p, c)

Spec == Init /\ [][Next]_vars

----
(* sessionForkTree *)

\* From a listed session to its parent, up to one that is not listed or has none.
Top[s \in Sessions] == IF s \in listed /\ parent[s] # None THEN Top[parent[s]] ELSE s

SortKey(s) == LET number == ForkTurnNumber(s) IN
    IF number # Unknown THEN number
    ELSE IF ForkTurn(s) = <<>> /\ origin[s] = "forked" THEN 0 ELSE Infinity
Children(s) == SetToSortSeq({c \in listed : parent[c] = s},
                   LAMBDA a, b : \/ SortKey(a) < SortKey(b)
                                 \/ SortKey(a) = SortKey(b) /\ a < b)
\* The nodes below one, itself first; only listed ones have children here.
Build[s \in Sessions] ==
    <<s>> \o FlattenSeq([i \in DOMAIN Children(s) |-> Build[Children(s)[i]]])

\* mutant: the tree begins at the session that is open.
RootHere(s) == s
Root(s) == Top[s]
Tree(s) == Build[Root(s)]

----
(* messageRailBranches, of the session that is open *)

Boundary(view, s) ==
    LET at == Place(ForkTurn(s), history[view]) IN
    IF s = Root(view) THEN 0
    ELSE IF at # 0 THEN at
    ELSE IF ForkTurnNumber(s) # Unknown THEN ForkTurnNumber(s)
    ELSE IF ForkTurn(s) = <<>> /\ origin[s] = "forked" THEN 0 ELSE Unknown

\* Without those whose boundary is unknown, and what is below them.
Flat(view) ==
    LET Drawn[s \in Sessions] ==
            IF s = Root(view) THEN TRUE
            ELSE Boundary(view, s) # Unknown /\ Drawn[parent[s]]
    IN  SelectSeq(Tree(view), LAMBDA s : Drawn[s])

\* mutant: the branch leaves the session it was forked from.
ReroutedNot(view, s) == IF s = Root(view) THEN None ELSE parent[s]
\* A Fork before its parent's own one branches from the prefix they share.
Rerouted(view, s) ==
    LET Owner[p \in Sessions] ==
            IF p # Root(view) /\ Boundary(view, p) > Boundary(view, s)
            THEN Owner[parent[p]] ELSE p
    IN  IF s = Root(view) THEN None ELSE Owner[parent[s]]

\* The sessions from the open one up, with the Turn each is left at.
Path(view) ==
    LET Up[s \in Sessions] ==
            IF Rerouted(view, s) = None THEN <<s>>
            ELSE Append(Up[Rerouted(view, s)], s)
    IN  Up[view]
Until(view, i) ==
    IF i = Len(Path(view)) THEN Infinity ELSE Boundary(view, Path(view)[i + 1])

\* mutant: the boundary counts the Turn after it.
OwnsOff(view, s, from, until, turn) == turn > from + 1 /\ turn <= until
Owns(view, s, from, until, turn) == turn > from /\ turn <= until
\* messageColumns: the first of the drawn sessions that owns the Turn, else
\* column 0, which is the root's.
Column(view, turn) ==
    LET path == Path(view)
        owners == {i \in DOMAIN path :
                      Owns(view, path[i], Boundary(view, path[i]), Until(view, i), turn)}
    IN  IF owners = {} THEN Root(view) ELSE path[CHOOSE i \in owners : \A j \in owners : i <= j]

HasRail(view) == Len(Flat(view)) > 1 /\ Contains(Flat(view), view)

----
TypeOK ==
    /\ listed \subseteq born /\ born \subseteq Sessions
    /\ parent \in [Sessions -> Sessions \cup {None}]
    /\ origin \in [Sessions -> {"created", "forked", "discovered"}]
    /\ cut \in [Sessions -> 0..MaxTurns]
    /\ \A s \in Sessions : history[s] \in Seq(Turns) /\ held[s] \in -1..Len(history[s])

\* A session with those it goes back to, as far as they are listed.
Ancestry[s \in Sessions] ==
    {s} \cup (IF s \in listed /\ parent[s] # None THEN Ancestry[parent[s]] ELSE {})

\* Every session that goes back to the same beginning is in the tree, once,
\* whichever of them is open.
FamilyIsWhole ==
    \A s \in listed :
        LET tree == Tree(s)
            family == {r \in listed : Ancestry[r] \cap Ancestry[s] # {}}
        IN  /\ IsInjective(tree)
            /\ ToSet(tree) = family \cup Ancestry[s]

\* The rail puts each message into the column of the session that said it, or
\* into the first column if that session is not listed any more: whatever was
\* forked from whatever, and in whatever order.
AuthorsAreTrue ==
    \A view \in listed : HasRail(view) =>
        \A turn \in DOMAIN history[view] :
            LET by == history[view][turn].by IN
            Column(view, turn) = IF Contains(Tree(view), by) THEN by ELSE Root(view)
====
