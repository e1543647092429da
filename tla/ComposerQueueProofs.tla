---- MODULE ComposerQueueProofs ----
(*
For any number of items, losses, reloads and other Turns: a queued
message becomes one Turn at most, the Turns of the items that were left
to the queue come in the order of entry, and none of them is asked for
while a Turn the page was told of goes on.
*)
EXTENDS ComposerQueue, FiniteSetTheorems, SequenceTheorems, TLAPS

----
(* Data. *)

Turn == [item : Items \cup {0}, done : BOOLEAN]
Srv == [state : {"idle", "running", "disconnected"}, active : 0 .. Len(turns),
        unsure : Nat, base : 0 .. Len(turns), gate : BOOLEAN]
Result == [what : {"none", "pending", "started", "refused", "uncertain"}, turn : Nat]

\* Items are positive numbers, and a steer is none of them.
LEMMA ItemNumbers ==
  /\ Cardinality(Items) \in Nat /\ Messages \subseteq Items
  /\ \A i \in Items : i \in Nat \ {0} /\ i <= Cardinality(Items)
<1>1. Cardinality(Items) \in Nat BY QueueConstants, FS_CardinalityType
<1>2. \A i \in 1 .. Cardinality(Items) : i \in Nat \ {0} /\ i <= Cardinality(Items) BY <1>1
<1>3. \A i \in Items : i \in Nat \ {0} /\ i <= Cardinality(Items) BY <1>2, QueueConstants
<1> QED BY <1>1, <1>3 DEF Messages

\* The Turns ts are ended, and a Turn of item i is added.
LEMMA AllDoneKeeps ==
  ASSUME NEW ts \in Seq(Turn)
  PROVE  /\ AllDone(ts) \in Seq(Turn) /\ Len(AllDone(ts)) = Len(ts)
         /\ DOMAIN AllDone(ts) = DOMAIN ts
         /\ \A n \in DOMAIN ts : AllDone(ts)[n].item = ts[n].item
<1>1. Len(ts) \in Nat /\ DOMAIN ts = 1 .. Len(ts) /\ \A n \in DOMAIN ts : ts[n] \in Turn OBVIOUS
<1>2. ASSUME NEW t \in Turn
      PROVE  [t EXCEPT !.done = TRUE] \in Turn /\ [t EXCEPT !.done = TRUE].item = t.item
  BY DEF Turn
<1>3. AllDone(ts) \in [1 .. Len(ts) -> Turn] BY <1>1, <1>2 DEF AllDone
<1>4. AllDone(ts) \in Seq(Turn) /\ Len(AllDone(ts)) = Len(ts) BY <1>1, <1>3
<1> QED BY <1>1, <1>2, <1>4 DEF AllDone

LEMMA NewTurnAdds ==
  ASSUME turns \in Seq(Turn)
  PROVE  \A i \in Items \cup {0} :
            /\ NewTurn(i) \in Seq(Turn) /\ Len(NewTurn(i)) = Len(turns) + 1
            /\ DOMAIN NewTurn(i) = DOMAIN turns \cup {Len(turns) + 1}
            /\ \A n \in DOMAIN turns : NewTurn(i)[n].item = turns[n].item
            /\ NewTurn(i)[Len(turns) + 1].item = i
            /\ Len(turns) + 1 \notin DOMAIN turns
<1> SUFFICES ASSUME NEW i \in Items \cup {0}
             PROVE  /\ NewTurn(i) \in Seq(Turn) /\ Len(NewTurn(i)) = Len(turns) + 1
                    /\ DOMAIN NewTurn(i) = DOMAIN turns \cup {Len(turns) + 1}
                    /\ \A n \in DOMAIN turns : NewTurn(i)[n].item = turns[n].item
                    /\ NewTurn(i)[Len(turns) + 1].item = i
                    /\ Len(turns) + 1 \notin DOMAIN turns
  OBVIOUS
<1>1. [item |-> i, done |-> FALSE] \in Turn BY DEF Turn
<1>2. Len(turns) \in Nat /\ DOMAIN turns = 1 .. Len(turns) OBVIOUS
<1> QED BY <1>1, <1>2 DEF NewTurn

LEMMA Typed == ASSUME OnceInvariant
               PROVE  /\ turns \in Seq(Turn) /\ Len(turns) \in Nat /\ DOMAIN turns = 1 .. Len(turns)
                      /\ srv \in Srv /\ results \in [Items -> Result]
BY DEF OnceInvariant, QueueTypes, Turn, Srv, Result

----
(* Steps. *)

\* No Turn is added: Turns may end, a message may be begun with, or be forgotten
\* if it has no Turn.
LEMMA NoTurnAdded ==
  ASSUME OnceInvariant, turns' \in {turns, AllDone(turns)},
         op' \in Items \cup {0}, results' \in [Items -> Result], taken' \subseteq Items,
         srv' \in Srv,
         srv'.unsure \in Messages => srv'.unsure = srv.unsure /\ srv'.base = srv.base,
         \A i \in Messages : results'[i].what = "none" \/ op' = i =>
             results[i].what = "none" \/ op = i \/ (srv.unsure = i /\ Len(turns) <= srv.base)
  PROVE  OnceInvariant'
<1>1. /\ turns' \in Seq(Turn) /\ Len(turns') = Len(turns) /\ DOMAIN turns' = DOMAIN turns
      /\ \A n \in DOMAIN turns : turns'[n].item = turns[n].item
  BY Typed, AllDoneKeeps
<1>2. QueueTypes' BY <1>1 DEF OnceInvariant, QueueTypes, Turn, Srv, Result
<1>3. FreshHasNoTurn' BY <1>1 DEF OnceInvariant, FreshHasNoTurn, UnsureHasNoTurn
<1>4. UnsureHasNoTurn' BY <1>1 DEF OnceInvariant, UnsureHasNoTurn
<1>5. QueuedOnce' BY <1>1 DEF OnceInvariant, QueuedOnce
<1> QED BY <1>2, <1>3, <1>4, <1>5 DEF OnceInvariant

\* A Turn is added of item i, a message only if it has no Turn yet and is remembered from now.
LEMMA TurnAdded ==
  ASSUME OnceInvariant, NEW i \in Items \cup {0},
         turns' \in {NewTurn(i), AllDone(NewTurn(i))},
         op' \in Items \cup {0}, results' \in [Items -> Result], taken' \subseteq Items,
         srv' \in [state : {"idle", "running", "disconnected"}, active : 0 .. Len(turns) + 1,
                   unsure : Nat, base : 0 .. Len(turns), gate : BOOLEAN],
         i \in Messages => /\ results[i].what = "none" \/ op = i
                           /\ results'[i].what # "none" /\ op' # i,
         \A j \in Messages : results'[j].what = "none" \/ op' = j => results[j].what = "none" \/ op = j
  PROVE  OnceInvariant'
<1> DEFINE new == Len(turns) + 1
<1>0. Len(turns) \in Nat /\ turns \in Seq(Turn) BY Typed
<1>1. /\ turns' \in Seq(Turn) /\ Len(turns') = new /\ DOMAIN turns' = DOMAIN turns \cup {new}
      /\ \A n \in DOMAIN turns : turns'[n].item = turns[n].item
      /\ turns'[new].item = i
      /\ new \notin DOMAIN turns
  <2>1. /\ NewTurn(i) \in Seq(Turn) /\ Len(NewTurn(i)) = new /\ DOMAIN NewTurn(i) = DOMAIN turns \cup {new}
        /\ \A n \in DOMAIN turns : NewTurn(i)[n].item = turns[n].item
        /\ NewTurn(i)[new].item = i
        /\ new \notin DOMAIN turns
    BY <1>0, NewTurnAdds
  <2>2. /\ AllDone(NewTurn(i)) \in Seq(Turn) /\ Len(AllDone(NewTurn(i))) = new
        /\ DOMAIN AllDone(NewTurn(i)) = DOMAIN turns \cup {new}
        /\ \A n \in DOMAIN turns \cup {new} : AllDone(NewTurn(i))[n].item = NewTurn(i)[n].item
    BY <2>1, AllDoneKeeps
  <2> QED BY <2>1, <2>2
<1>2. QueueTypes'
  <2>1. srv' \in [state : {"idle", "running", "disconnected"}, active : 0 .. new,
                  unsure : Nat, base : 0 .. new, gate : BOOLEAN]
    BY <1>0
  <2> QED BY <1>1, <2>1 DEF QueueTypes, Turn, Result
<1>3. i \in Messages => \A n \in DOMAIN turns : turns[n].item # i BY DEF OnceInvariant, FreshHasNoTurn
<1>4. FreshHasNoTurn' BY <1>1 DEF OnceInvariant, FreshHasNoTurn
<1>5. UnsureHasNoTurn'
  <2>1. srv'.base <= Len(turns) /\ srv'.base \in Nat BY <1>0
  <2> QED BY <1>0, <1>1, <2>1 DEF UnsureHasNoTurn
<1>6. QueuedOnce'
  <2>1. ASSUME NEW m \in DOMAIN turns', NEW n \in DOMAIN turns',
               turns'[m].item \in Messages, turns'[m].item = turns'[n].item
        PROVE  m = n
    <3>1. CASE m \in DOMAIN turns /\ n \in DOMAIN turns
      BY <1>1, <2>1, <3>1 DEF OnceInvariant, QueuedOnce, Messages
    <3>2. CASE m = new BY <1>1, <1>3, <2>1, <3>2
    <3>3. CASE n = new BY <1>1, <1>3, <2>1, <3>3
    <3> QED BY <1>1, <2>1, <3>1, <3>2, <3>3
  <2> QED BY <2>1 DEF QueuedOnce, Messages
<1> QED BY <1>2, <1>4, <1>5, <1>6 DEF OnceInvariant

----
(* The actions. *)

LEMMA OnceInit == Init => OnceInvariant
<1> SUFFICES ASSUME Init PROVE OnceInvariant OBVIOUS
<1>1. turns = <<[item |-> 0, done |-> FALSE]>> /\ [item |-> 0, done |-> FALSE] \in Turn BY DEF Init, Turn
<1>2. turns \in Seq(Turn) /\ Len(turns) = 1 /\ DOMAIN turns = {1} /\ turns[1].item = 0 BY <1>1
<1>3. QueueTypes BY <1>2 DEF Init, QueueTypes, Turn
<1>4. FreshHasNoTurn /\ UnsureHasNoTurn /\ QueuedOnce
  BY <1>2, ItemNumbers DEF Init, FreshHasNoTurn, UnsureHasNoTurn, QueuedOnce
<1> QED BY <1>3, <1>4 DEF OnceInvariant

\* The page's own steps, and what arrives at it, add no Turn and forget nothing.
LEMMA PageStep ==
  ASSUME OnceInvariant, UNCHANGED <<turns, srv, op, results>>, taken' \subseteq Items
  PROVE  OnceInvariant'
<1>1. op' \in Items \cup {0} BY DEF OnceInvariant, QueueTypes
<1> QED BY <1>1, Typed, NoTurnAdded

LEMMA EffectsStep == ASSUME OnceInvariant, Effects PROVE OnceInvariant'
BY PageStep DEF Effects, OnceInvariant, QueueTypes
LEMMA UserStep ==
  ASSUME OnceInvariant, Retry \/ Remount \/ \E i \in Items : Enqueue(i) \/ Cancel(i)
  PROVE  OnceInvariant'
<1>1. taken \subseteq Items BY DEF OnceInvariant, QueueTypes
<1>2. CASE Retry \/ Remount BY <1>1, <1>2, PageStep DEF Retry, Remount, server
<1>3. ASSUME NEW i \in Items, Enqueue(i) \/ Cancel(i) PROVE OnceInvariant'
  BY <1>1, <1>3, PageStep DEF Enqueue, Cancel, server
<1> QED BY <1>2, <1>3

LEMMA ArrivesStep == ASSUME OnceInvariant, Arrives PROVE OnceInvariant'
BY PageStep DEF Arrives, Receive, AnswerArrives, Refetch, server, OnceInvariant, QueueTypes

\* What the server remembers of an item is settled.
LEMMA Remembered ==
  ASSUME OnceInvariant, NEW i \in Items, NEW r \in Result
  PROVE  LET new == [results EXCEPT ![i] = r]
         IN  /\ new \in [Items -> Result] /\ new[i] = r
             /\ \A j \in Items : j # i => new[j] = results[j]
BY Typed

LEMMA HandleAnsweredStep ==
  ASSUME OnceInvariant, NEW i \in Items, HandleAnswered(i) PROVE OnceInvariant'
<1>1. UNCHANGED <<turns, srv, op, taken>> BY DEF HandleAnswered
<1>2. \/ results' = results
      \/ results' = [results EXCEPT ![i] = [what |-> "refused", turn |-> 0]]
  BY DEF HandleAnswered
<1>3. /\ results' \in [Items -> Result]
      /\ \A j \in Items : results'[j].what = "none" => results[j].what = "none"
  <2>1. [what |-> "refused", turn |-> 0] \in Result BY DEF Result
  <2>2. CASE results' = [results EXCEPT ![i] = [what |-> "refused", turn |-> 0]] BY <2>1, <2>2, Remembered
  <2> QED BY <1>2, <2>2, Typed
<1>4. op' \in Items \cup {0} /\ taken' \subseteq Items BY <1>1 DEF OnceInvariant, QueueTypes
<1> QED BY <1>1, <1>3, <1>4, Typed, NoTurnAdded, ItemNumbers

LEMMA HandleStartStep ==
  ASSUME OnceInvariant, NEW i \in Items, HandleStart(i) PROVE OnceInvariant'
<1>1. /\ UNCHANGED <<turns, srv, taken>> /\ op' = i /\ results[i].what = "none"
      /\ results' = [results EXCEPT ![i] = [what |-> "pending", turn |-> 0]]
  BY DEF HandleStart
<1>2. /\ results' \in [Items -> Result]
      /\ \A j \in Items : results'[j].what = "none" => results[j].what = "none"
  BY <1>1, Typed DEF Result
<1>3. op' \in Items \cup {0} /\ taken' \subseteq Items BY <1>1 DEF OnceInvariant, QueueTypes
<1> QED BY <1>1, <1>2, <1>3, Typed, NoTurnAdded, ItemNumbers

LEMMA StartsStep == ASSUME OnceInvariant, Starts PROVE OnceInvariant'
<1> DEFINE r == [what |-> "started", turn |-> IF op \in Compacts THEN 0 ELSE Len(turns) + 1]
<1>1. /\ op \in Items /\ turns' = NewTurn(op) /\ op' = 0 /\ UNCHANGED taken
      /\ srv' = [srv EXCEPT !.state = "running", !.active = Len(turns) + 1]
      /\ results' = [results EXCEPT ![op] = r]
  BY DEF Starts, OnceInvariant, QueueTypes
<1>2. r \in Result /\ r.what # "none" BY Typed DEF Result
<1> HIDE DEF r
<1>3. /\ results' \in [Items -> Result] /\ results'[op] = r
      /\ \A j \in Items : j # op => results'[j] = results[j]
  BY <1>1, <1>2, Remembered
<1>4. srv' \in [state : {"idle", "running", "disconnected"}, active : 0 .. Len(turns) + 1,
                unsure : Nat, base : 0 .. Len(turns), gate : BOOLEAN]
  <2>1. Len(turns) \in Nat /\ Len(turns) + 1 \in 0 .. Len(turns) + 1 BY Typed
  <2>2. srv \in Srv /\ 0 .. Len(turns) \subseteq 0 .. Len(turns) + 1 BY <2>1, Typed
  <2> QED BY <1>1, <2>1, <2>2 DEF Srv
<1>5. op' \in Items \cup {0} /\ taken' \subseteq Items /\ op \in Items \cup {0} /\ op' # op
  BY <1>1, ItemNumbers DEF OnceInvariant, QueueTypes
<1>6. turns' \in {NewTurn(op), AllDone(NewTurn(op))} /\ (op \in Messages => results'[op].what # "none" /\ op' # op)
  BY <1>1, <1>2, <1>3, <1>5
<1>7. \A j \in Messages : results'[j].what = "none" \/ op' = j => results[j].what = "none" \/ op = j
  BY <1>1, <1>2, <1>3, ItemNumbers
<1> QED BY <1>3, <1>4, <1>5, <1>6, <1>7, TurnAdded

LEMMA FailsStep == ASSUME OnceInvariant, Fails PROVE OnceInvariant'
<1> DEFINE r == [results[op] EXCEPT !.what = IF op \in Compacts THEN "none" ELSE "refused"]
<1>1. /\ op \in Items /\ op' = 0 /\ UNCHANGED <<turns, srv, taken>>
      /\ results' = [results EXCEPT ![op] = r]
  BY DEF Fails, OnceInvariant, QueueTypes
<1>2. r \in Result /\ (op \in Messages => r.what # "none") BY <1>1, Typed DEF Result, Messages
<1> HIDE DEF r
<1>3. /\ results' \in [Items -> Result] /\ results'[op] = r
      /\ \A j \in Items : j # op => results'[j] = results[j]
  BY <1>1, <1>2, Remembered
<1>4. op' \in Items \cup {0} /\ taken' \subseteq Items BY <1>1 DEF OnceInvariant, QueueTypes
<1> QED BY <1>1, <1>2, <1>3, <1>4, Typed, NoTurnAdded, ItemNumbers

\* The answer is lost: no new Turn counts as seen before the base that is noted.
LEMMA IsUncertainStep == ASSUME OnceInvariant, IsUncertain PROVE OnceInvariant'
<1>1. /\ op \in Items /\ op \in Messages /\ op' = 0 /\ UNCHANGED taken
      /\ srv' = [state |-> "disconnected", active |-> 0, unsure |-> op, base |-> Len(turns), gate |-> FALSE]
      /\ results' = [results EXCEPT ![op] = Unknown]
      /\ turns' = turns \/ turns' \in {NewTurn(op), AllDone(NewTurn(op))}
  BY DEF IsUncertain, OnceInvariant, QueueTypes, Messages
<1>2. Unknown \in Result /\ Unknown.what = "uncertain" BY DEF Unknown, Result
<1>3. /\ results' \in [Items -> Result] /\ results'[op].what = "uncertain"
      /\ \A j \in Items : j # op => results'[j] = results[j]
  BY <1>1, <1>2, Remembered
<1>4. /\ Len(turns) \in Nat /\ op \in Nat \ {0} BY <1>1, Typed, ItemNumbers
<1>5. srv' \in Srv BY <1>1, <1>4 DEF Srv
<1>6. op' \in Items \cup {0} /\ taken' \subseteq Items /\ op' # op BY <1>1, <1>4 DEF OnceInvariant, QueueTypes
<1>7. CASE turns' \in {NewTurn(op), AllDone(NewTurn(op))}
  <2>1. srv' \in [state : {"idle", "running", "disconnected"}, active : 0 .. Len(turns) + 1,
                  unsure : Nat, base : 0 .. Len(turns), gate : BOOLEAN]
    BY <1>4, <1>5 DEF Srv
  <2>2. \A j \in Messages : results'[j].what = "none" \/ op' = j => results[j].what = "none" \/ op = j
    BY <1>1, <1>3, ItemNumbers
  <2>3. op \in Items \cup {0} /\ (op \in Messages => results'[op].what # "none" /\ op' # op) BY <1>1, <1>3, <1>6
  <2> QED BY <1>3, <1>6, <1>7, <2>1, <2>2, <2>3, TurnAdded
<1>8. CASE turns' = turns
  <2>1. QueueTypes' BY <1>1, <1>3, <1>5, <1>6, <1>8, Typed DEF QueueTypes, Turn, Srv, Result
  <2>2. FreshHasNoTurn' BY <1>1, <1>3, <1>8, ItemNumbers DEF OnceInvariant, FreshHasNoTurn
  <2>3. UnsureHasNoTurn' BY <1>1, <1>8 DEF OnceInvariant, FreshHasNoTurn, UnsureHasNoTurn
  <2>4. QueuedOnce' BY <1>8 DEF OnceInvariant, QueuedOnce
  <2> QED BY <2>1, <2>2, <2>3, <2>4 DEF OnceInvariant
<1> QED BY <1>1, <1>7, <1>8
\* A step of the server that adds no Turn and changes nothing it remembers.
LEMMA ServerChanges ==
  ASSUME OnceInvariant, turns' \in {turns, AllDone(turns)}, UNCHANGED <<op, results, taken>>,
         srv' \in Srv, srv'.unsure \in Messages => srv'.unsure = srv.unsure /\ srv'.base = srv.base
  PROVE  OnceInvariant'
<1>1. op' \in Items \cup {0} /\ taken' \subseteq Items /\ results' \in [Items -> Result]
  BY Typed DEF OnceInvariant, QueueTypes
<1> QED BY <1>1, NoTurnAdded

LEMMA SnapshotType ==
  ASSUME OnceInvariant
  PROVE  Snapshot.state \in {"idle", "running"} /\ Snapshot.active \in 0 .. Len(turns)
BY Typed DEF Snapshot

LEMMA SteeringIsNoItem == ASSUME OnceInvariant PROVE Steering \in Nat /\ Steering \notin Items
<1>1. Len(turns) \in Nat /\ Cardinality(Items) \in Nat BY Typed, ItemNumbers
<1> QED BY <1>1, ItemNumbers DEF Steering

LEMMA ConnectionStep ==
  ASSUME OnceInvariant, GateCloses \/ Reconcile \/ TurnEnds \/ Steer
  PROVE  OnceInvariant'
<1>1. srv \in Srv /\ Len(turns) \in Nat /\ 0 \in 0 .. Len(turns) BY Typed
<1>2. 0 \notin Messages /\ Steering \notin Messages /\ Steering \in Nat BY SteeringIsNoItem, ItemNumbers
<1>3. CASE GateCloses
  <2>1. /\ turns' \in {turns, AllDone(turns)} /\ UNCHANGED <<op, results, taken>>
        /\ srv' = [srv EXCEPT !.gate = FALSE, !.active = 0, !.state = IF @ = "running" THEN "disconnected" ELSE @]
    BY <1>3 DEF GateCloses
  <2>2. srv' \in Srv /\ srv'.unsure = srv.unsure /\ srv'.base = srv.base BY <1>1, <2>1 DEF Srv
  <2> QED BY <2>1, <2>2, ServerChanges
<1>4. CASE Reconcile
  <2>1. PICK stays \in BOOLEAN, state \in {"disconnected", Snapshot.state}, active \in {0, Snapshot.active} :
          srv' = [srv EXCEPT !.gate = TRUE, !.state = state, !.active = active, !.unsure = IF stays THEN @ ELSE 0]
    <3>1. PICK stays \in BOOLEAN :
            LET to == IF stays THEN [state |-> "disconnected", active |-> 0] ELSE Snapshot
            IN  srv' = [srv EXCEPT !.gate = TRUE, !.state = to.state, !.active = to.active,
                                   !.unsure = IF stays THEN @ ELSE 0]
      BY <1>4 DEF Reconcile
    <3> QED BY <3>1
  <2>2. UNCHANGED <<turns, op, results, taken>> BY <1>4 DEF Reconcile
  <2>3. srv' \in Srv /\ srv'.unsure \in {srv.unsure, 0} /\ srv'.base = srv.base
    BY <1>1, <2>1, SnapshotType DEF Srv
  <2> QED BY <1>2, <2>2, <2>3, ServerChanges
<1>5. CASE TurnEnds
  <2>1. /\ turns' = AllDone(turns) /\ UNCHANGED <<op, results, taken>>
        /\ srv' = [srv EXCEPT !.state = "idle", !.active = 0]
    BY <1>5 DEF TurnEnds
  <2>2. srv' \in Srv /\ srv'.unsure = srv.unsure /\ srv'.base = srv.base BY <1>1, <2>1 DEF Srv
  <2> QED BY <2>1, <2>2, ServerChanges
<1>6. CASE Steer
  <2>1. /\ turns' \in {turns, AllDone(turns)} /\ UNCHANGED <<op, results, taken>>
        /\ srv' = [state |-> "disconnected", active |-> 0, unsure |-> Steering, base |-> srv.active, gate |-> FALSE]
    BY <1>6 DEF Steer
  <2>2. srv' \in Srv /\ srv'.unsure \notin Messages BY <1>1, <1>2, <2>1 DEF Srv
  <2> QED BY <2>1, <2>2, ServerChanges
<1> QED BY <1>3, <1>4, <1>5, <1>6

\* The server's runtime when Turn n has begun.
LEMMA BegunType ==
  ASSUME OnceInvariant
  PROVE  [srv EXCEPT !.state = "running", !.active = Len(turns) + 1] \in
           [state : {"idle", "running", "disconnected"}, active : 0 .. Len(turns) + 1,
            unsure : Nat, base : 0 .. Len(turns), gate : BOOLEAN]
<1>1. Len(turns) \in Nat /\ Len(turns) + 1 \in 0 .. Len(turns) + 1 BY Typed
<1>2. srv \in Srv /\ 0 .. Len(turns) \subseteq 0 .. Len(turns) + 1 BY <1>1, Typed
<1> QED BY <1>1, <1>2 DEF Srv

LEMMA OtherStartsStep == ASSUME OnceInvariant, OtherStarts PROVE OnceInvariant'
<1>1. /\ turns' = NewTurn(0) /\ UNCHANGED <<op, results, taken>>
      /\ srv' = [srv EXCEPT !.state = "running", !.active = Len(turns) + 1]
  BY DEF OtherStarts
<1>2. 0 \in Items \cup {0} /\ 0 \notin Messages /\ turns' \in {NewTurn(0), AllDone(NewTurn(0))}
  BY <1>1, ItemNumbers
<1>3. op' \in Items \cup {0} /\ taken' \subseteq Items /\ results' \in [Items -> Result]
  BY <1>1, Typed DEF OnceInvariant, QueueTypes
<1> QED BY <1>1, <1>2, <1>3, BegunType, TurnAdded

\* Only a message that was not applied is forgotten.
LEMMA ResolveStep == ASSUME OnceInvariant, Resolve PROVE OnceInvariant'
<1>1. srv \in Srv /\ Len(turns) \in Nat BY Typed
<1>2. UNCHANGED <<turns, op>> /\ taken' \subseteq Items
  <2>1. \A b \in BOOLEAN : DropsHead(b) => taken' \subseteq Items
    BY DEF DropsHead, HeadMessage, OnceInvariant, QueueTypes
  <2> QED BY <2>1 DEF Resolve
<1>3. \/ results' = results
      \/ /\ srv.unsure \in Items /\ Len(turns) <= srv.base
         /\ results' = [results EXCEPT ![srv.unsure] = [what |-> "none", turn |-> 0]]
  BY <1>1 DEF Resolve, Srv
<1>4. /\ results' \in [Items -> Result]
      /\ \A i \in Items : results'[i].what = "none" =>
            results[i].what = "none" \/ (srv.unsure = i /\ Len(turns) <= srv.base)
  <2>1. [what |-> "none", turn |-> 0] \in Result BY DEF Result
  <2>2. CASE results' = results BY <2>2, Typed
  <2>3. CASE /\ srv.unsure \in Items /\ Len(turns) <= srv.base
             /\ results' = [results EXCEPT ![srv.unsure] = [what |-> "none", turn |-> 0]]
    BY <2>1, <2>3, Remembered
  <2> QED BY <1>3, <2>2, <2>3
<1>5. \/ srv' = srv
      \/ srv' = [srv EXCEPT !.unsure = 0, !.state = Snapshot.state, !.active = Snapshot.active]
  BY DEF Resolve
<1>6. srv' \in Srv /\ (srv'.unsure \in Messages => srv'.unsure = srv.unsure /\ srv'.base = srv.base)
  <2>1. CASE srv' = [srv EXCEPT !.unsure = 0, !.state = Snapshot.state, !.active = Snapshot.active]
    <3>1. srv' \in Srv /\ srv'.unsure = 0 BY <1>1, <2>1, SnapshotType DEF Srv
    <3> QED BY <3>1, ItemNumbers
  <2> QED BY <1>1, <1>5, <2>1
<1>7. op' \in Items \cup {0} BY <1>2 DEF OnceInvariant, QueueTypes
<1> QED BY <1>2, <1>4, <1>6, <1>7, NoTurnAdded, ItemNumbers

LEMMA SendAgainStep == ASSUME OnceInvariant, SendAgain PROVE OnceInvariant'
<1> DEFINE i == page.pending
           r == [what |-> "started", turn |-> Len(turns) + 1]
<1>1. i \in Items /\ UNCHANGED <<op, taken>> /\ op = 0 BY DEF SendAgain, OnceInvariant, QueueTypes
<1>2. \/ UNCHANGED <<turns, srv, results>>
      \/ /\ results[i].what = "none" /\ turns' = NewTurn(i)
         /\ srv' = [srv EXCEPT !.state = "running", !.active = Len(turns) + 1]
         /\ results' = [results EXCEPT ![i] = r]
  BY DEF SendAgain
<1>3. op' \in Items \cup {0} /\ taken' \subseteq Items /\ op' # i
  BY <1>1, ItemNumbers DEF OnceInvariant, QueueTypes
<1> HIDE DEF i
<1>4. CASE UNCHANGED <<turns, srv, results>> BY <1>1, <1>3, <1>4, PageStep
<1>5. CASE /\ results[i].what = "none" /\ turns' = NewTurn(i)
           /\ srv' = [srv EXCEPT !.state = "running", !.active = Len(turns) + 1]
           /\ results' = [results EXCEPT ![i] = r]
  <2>1. r \in Result /\ r.what = "started" BY Typed DEF Result
  <2> HIDE DEF r
  <2>2. /\ results' \in [Items -> Result] /\ results'[i] = r
        /\ \A j \in Items : j # i => results'[j] = results[j]
    BY <1>1, <1>5, <2>1, Remembered
  <2>3. \A j \in Messages : results'[j].what = "none" \/ op' = j => results[j].what = "none" \/ op = j
    BY <1>1, <2>1, <2>2, ItemNumbers
  <2>4. i \in Items \cup {0} /\ turns' \in {NewTurn(i), AllDone(NewTurn(i))} BY <1>1, <1>5
  <2>5. i \in Messages => (results[i].what = "none" \/ op = i) /\ results'[i].what # "none" /\ op' # i
    BY <1>3, <1>5, <2>1, <2>2
  <2> QED BY <1>3, <1>5, <2>2, <2>3, <2>4, <2>5, BegunType, TurnAdded
<1> QED BY <1>2, <1>4, <1>5

----

\* What the server remembers of a message, the Turns of Codex and the number of
\* Turns noted beside an uncertain one agree in every reachable state.
THEOREM QueueInductive == Spec => []OnceInvariant
<1>1. Init => OnceInvariant BY OnceInit
<1>2. OnceInvariant /\ [Next]_vars => OnceInvariant'
  <2> SUFFICES ASSUME OnceInvariant, [Next]_vars PROVE OnceInvariant' OBVIOUS
  <2>1. CASE Next
    <3>1. CASE User BY <3>1, UserStep, ConnectionStep, ResolveStep, SendAgainStep DEF User
    <3>2. CASE Server
      BY <3>2, HandleAnsweredStep, HandleStartStep, StartsStep, FailsStep, IsUncertainStep, ConnectionStep,
        OtherStartsStep DEF Server
    <3> QED BY <2>1, <3>1, <3>2, EffectsStep, ArrivesStep DEF Next
  <2>2. CASE UNCHANGED vars BY <2>2, PageStep DEF vars, server, OnceInvariant, QueueTypes
  <2> QED BY <2>1, <2>2
<1> QED BY <1>1, <1>2, PTL DEF Spec

\* However its answers are lost and its page is loaded again, and whatever the user
\* answers about an uncertain prompt, a queued message becomes one Turn at most.
THEOREM OneTurnEach == Spec => []QueuedOnce
<1>1. OnceInvariant => QueuedOnce BY DEF OnceInvariant
<1> QED BY <1>1, QueueInductive, PTL

----
(* The order of the Turns. *)

\* A queue without one of its items has the others in their order.
LEMMA WithoutOne ==
  ASSUME queue \in Seq(Items), NEW i
  PROVE  /\ Without(i) \in Seq(Items)
         /\ ~Contains(queue, i) => Without(i) = queue
         /\ Contains(queue, i) => \E k \in DOMAIN queue :
              /\ queue[k] = i
              /\ Len(Without(i)) = Len(queue) - 1
              /\ \A a \in 1 .. Len(queue) - 1 : Without(i)[a] = IF a < k THEN queue[a] ELSE queue[a + 1]
<1>1. CASE ~Contains(queue, i) BY <1>1 DEF Without
<1>2. CASE Contains(queue, i)
  <2> DEFINE k == CHOOSE k \in DOMAIN queue : queue[k] = i
             n == Len(queue)
             u == SubSeq(queue, 1, k - 1)
             v == SubSeq(queue, k + 1, n)
  <2>1. n \in Nat /\ DOMAIN queue = 1 .. n /\ \A a \in 1 .. n : queue[a] \in Items OBVIOUS
  <2>2. \E j \in DOMAIN queue : queue[j] = i BY <1>2, <2>1 DEF Contains
  <2>3. k \in 1 .. n /\ queue[k] = i BY <2>1, <2>2
  <2>4. Without(i) = u \o v BY <1>2 DEF Without, RemoveAt
  <2> HIDE DEF k
  <2>5. u \in Seq(Items) /\ Len(u) = k - 1 /\ \A a \in 1 .. k - 1 : u[a] = queue[a]
    <3>1. /\ 1 \in Int /\ k - 1 \in Int /\ \A a \in 1 .. k - 1 : queue[a] \in Items
          /\ (IF 1 <= k - 1 THEN k - 1 - 1 + 1 ELSE 0) = k - 1 /\ k - 1 - 1 + 1 = k - 1
      BY <2>1, <2>3
    <3>2. \A a \in 1 .. k - 1 : 1 + a - 1 = a OBVIOUS
    <3> QED BY <3>1, <3>2, SubSeqProperties
  <2>6. v \in Seq(Items) /\ Len(v) = n - k /\ \A a \in 1 .. n - k : v[a] = queue[k + a]
    <3> HIDE DEF n
    <3>1. k + 1 \in Int /\ n \in Int /\ k \in Nat /\ k >= 1 /\ k <= n BY <2>1, <2>3
    <3>2. \A a \in 1 .. n - k : k + 1 + a - 1 = k + a BY <3>1
    <3>3. (IF k + 1 <= n THEN n - (k + 1) + 1 ELSE 0) = n - k /\ n - (k + 1) + 1 = n - k BY <3>1
    <3>4. \A a \in k + 1 .. n : queue[a] \in Items
      <4>1. \A a \in k + 1 .. n : a \in 1 .. n BY <3>1
      <4> QED BY <2>1, <4>1
    <3>5. /\ SubSeq(queue, k + 1, n) \in Seq(Items)
          /\ Len(SubSeq(queue, k + 1, n)) = IF k + 1 <= n THEN n - (k + 1) + 1 ELSE 0
          /\ \A a \in 1 .. n - (k + 1) + 1 : SubSeq(queue, k + 1, n)[a] = queue[k + 1 + a - 1]
      BY <3>1, <3>4, SubSeqProperties
    <3> QED BY <3>2, <3>3, <3>5
  <2> HIDE DEF u, v
  <2>7. /\ u \o v \in Seq(Items) /\ Len(u \o v) = n - 1
        /\ \A a \in 1 .. n - 1 : (u \o v)[a] = IF a <= k - 1 THEN u[a] ELSE v[a - (k - 1)]
    <3>1. Len(u) + Len(v) = n - 1 BY <2>1, <2>3, <2>5, <2>6
    <3> QED BY <2>5, <2>6, <3>1, ConcatProperties
  <2>8. ASSUME NEW a \in 1 .. n - 1
        PROVE  (u \o v)[a] = IF a < k THEN queue[a] ELSE queue[a + 1]
    <3>1. CASE a < k
      <4>1. a <= k - 1 /\ a \in 1 .. k - 1 BY <2>1, <2>3, <3>1
      <4> QED BY <2>5, <2>7, <3>1, <4>1
    <3>2. CASE ~(a < k)
      <4>1. ~(a <= k - 1) /\ a - (k - 1) \in 1 .. n - k /\ k + (a - (k - 1)) = a + 1 BY <2>1, <2>3, <3>2
      <4> QED BY <2>6, <2>7, <3>2, <4>1
    <3> QED BY <3>1, <3>2
  <2> QED BY <1>2, <2>1, <2>3, <2>4, <2>7, <2>8
<1> QED BY <1>1, <1>2

\* The queue q is p, or p without one of its items.
Thinned(p, q, i) ==
  /\ q \in Seq(Items)
  /\ \/ q = p
     \/ \E k \in 1 .. Len(p) :
           /\ p[k] = i /\ Len(q) = Len(p) - 1
           /\ \A a \in 1 .. Len(q) : q[a] = IF a < k THEN p[a] ELSE p[a + 1]

LEMMA WithoutThins ==
  ASSUME queue \in Seq(Items), NEW i
  PROVE  Thinned(queue, Without(i), i)
<1>1. CASE ~Contains(queue, i) BY <1>1, WithoutOne DEF Thinned
<1>2. CASE Contains(queue, i)
  <2>1. PICK k \in DOMAIN queue :
            /\ queue[k] = i
            /\ Len(Without(i)) = Len(queue) - 1
            /\ \A a \in 1 .. Len(queue) - 1 : Without(i)[a] = IF a < k THEN queue[a] ELSE queue[a + 1]
    BY <1>2, WithoutOne
  <2>2. k \in 1 .. Len(queue) OBVIOUS
  <2> QED BY <2>1, <2>2, WithoutOne DEF Thinned
<1> QED BY <1>1, <1>2

\* The places of the thinned queue are places of the queue, in the same order; the
\* head stays unless it is the item that left.
LEMMA ThinnedPlaces ==
  ASSUME NEW p \in Seq(Items), NEW q, NEW i, Thinned(p, q, i)
  PROVE  \E f \in [DOMAIN q -> DOMAIN p] :
            /\ \A a \in DOMAIN q : q[a] = p[f[a]]
            /\ \A a, b \in DOMAIN q : a < b => f[a] < f[b]
            /\ \A a, b \in DOMAIN q : f[a] = f[b] => a = b
            /\ p # << >> /\ p[1] # i => q # << >> /\ q[1] = p[1]
<1>1. Len(p) \in Nat /\ Len(q) \in Nat /\ DOMAIN p = 1 .. Len(p) /\ DOMAIN q = 1 .. Len(q) BY DEF Thinned
<1>2. CASE q = p
  <2> DEFINE f == [a \in DOMAIN q |-> a]
  <2>1. f \in [DOMAIN q -> DOMAIN p] BY <1>2
  <2>2. \A a \in DOMAIN q : f[a] = a OBVIOUS
  <2> HIDE DEF f
  <2> QED BY <1>2, <2>1, <2>2
<1>3. ASSUME NEW k \in 1 .. Len(p), p[k] = i, Len(q) = Len(p) - 1,
             \A a \in 1 .. Len(q) : q[a] = IF a < k THEN p[a] ELSE p[a + 1]
      PROVE  \E f \in [DOMAIN q -> DOMAIN p] :
                /\ \A a \in DOMAIN q : q[a] = p[f[a]]
                /\ \A a, b \in DOMAIN q : a < b => f[a] < f[b]
                /\ \A a, b \in DOMAIN q : f[a] = f[b] => a = b
                /\ p # << >> /\ p[1] # i => q # << >> /\ q[1] = p[1]
  <2> DEFINE f == [a \in DOMAIN q |-> IF a < k THEN a ELSE a + 1]
  <2>1. \A a \in DOMAIN q : (IF a < k THEN a ELSE a + 1) \in DOMAIN p BY <1>1, <1>3
  <2>2. f \in [DOMAIN q -> DOMAIN p] BY <2>1
  <2>3. \A a \in DOMAIN q : f[a] = IF a < k THEN a ELSE a + 1 OBVIOUS
  <2> HIDE DEF f
  <2>4. \A a \in DOMAIN q : q[a] = p[f[a]] BY <1>1, <1>3, <2>3
  <2>5. \A a, b \in DOMAIN q : a < b => f[a] < f[b] BY <1>1, <1>3, <2>3
  <2>6. \A a, b \in DOMAIN q : f[a] = f[b] => a = b BY <1>1, <1>3, <2>3
  <2>7. p # << >> /\ p[1] # i => q # << >> /\ q[1] = p[1]
    <3> SUFFICES ASSUME p[1] # i PROVE q # << >> /\ q[1] = p[1] OBVIOUS
    <3>1. k # 1 /\ 1 < k /\ 1 \in 1 .. Len(q) BY <1>1, <1>3
    <3>2. q[1] = p[1] BY <1>3, <3>1
    <3>3. q # << >> BY <1>1, <3>1
    <3> QED BY <3>2, <3>3
  <2> QED BY <2>2, <2>4, <2>5, <2>6, <2>7
<1> QED BY <1>1, <1>2, <1>3 DEF Thinned

----
(* Kinds of steps. *)

\* The numbers in the queue, and of those asked for.
LEMMA OrderNumbers ==
  ASSUME OnceInvariant, OrderInvariant
  PROVE  /\ queue \in Seq(Items) /\ Len(queue) \in Nat /\ DOMAIN queue = 1 .. Len(queue)
         /\ \A a \in DOMAIN queue : queue[a] \in Items /\ queue[a] \in Nat
         /\ Untouched \subseteq Items /\ 0 \notin Untouched /\ page.entered \in Nat
         /\ \A i \in Untouched : i \in Nat
         /\ \A n \in DOMAIN turns : turns[n].item \in Items \cup {0}
         /\ queue # << >> => 1 \in DOMAIN queue
<1>1. queue \in Seq(Items) /\ page.entered \in Nat BY DEF OrderInvariant, OrderTypes
<1>2. \A n \in DOMAIN turns : turns[n].item \in Items \cup {0}
  <2>1. \A t \in Turn : t.item \in Items \cup {0} BY DEF Turn
  <2> QED BY <2>1, Typed
<1>3. Untouched \subseteq Items /\ 0 \notin Untouched /\ \A i \in Untouched : i \in Nat
  BY ItemNumbers DEF Untouched
<1> QED BY <1>1, <1>2, <1>3, ItemNumbers

\* Turns keep their items.
SameItems == DOMAIN turns' = DOMAIN turns /\ \A n \in DOMAIN turns : turns'[n].item = turns[n].item

\* Nothing enters or leaves the queue and no Turn is added.
LEMMA QueueRests ==
  ASSUME OnceInvariant, OrderInvariant, OrderTypes', AnswerIsLast', SameItems,
         queue' = queue, taken' = taken, dropped' = dropped, page'.entered = page.entered,
         Sought' \subseteq Sought \cup {0, Head0},
         page'.sending \in {0, page.sending, Head0}
  PROVE  OrderInvariant'
<1>1. Untouched' = Untouched BY DEF Untouched
<1>2. QueueInOrder'
  <2>1. page'.sending <= page'.entered
    <3>1. Head0 <= page.entered BY OrderNumbers DEF Head0, OrderInvariant, QueueInOrder
    <3>2. page.sending <= page.entered /\ 0 <= page.entered BY OrderNumbers DEF OrderInvariant, QueueInOrder
    <3> QED BY <3>1, <3>2
  <2>2. \A n \in DOMAIN turns' : turns'[n].item \in Untouched => turns'[n].item <= page'.entered
    BY DEF OrderInvariant, QueueInOrder, SameItems
  <2> QED BY <1>1, <2>1, <2>2 DEF OrderInvariant, QueueInOrder
<1>3. AsksForHead'
  <2> SUFFICES ASSUME NEW i \in Sought', i \in Untouched
               PROVE  queue # << >> /\ queue[1] = i
    BY <1>1 DEF AsksForHead
  <2>1. CASE i \in Sought BY <2>1 DEF OrderInvariant, AsksForHead
  <2>2. CASE i \in {0, Head0} BY <2>2, OrderNumbers DEF Head0
  <2> QED BY <2>1, <2>2
<1>4. BeforeTheQueue' BY <1>1 DEF OrderInvariant, BeforeTheQueue, SameItems
<1>5. FirstInFirstOut' BY <1>1 DEF OrderInvariant, FirstInFirstOut, SameItems
<1> QED BY <1>2, <1>3, <1>4, <1>5 DEF OrderInvariant

\* A Turn is added, of no item, of a touched one, or of the head of the queue.
LEMMA TurnAddedInOrder ==
  ASSUME OnceInvariant, OrderInvariant, OrderTypes', AnswerIsLast', NEW i \in Items \cup {0},
         turns' \in {NewTurn(i), AllDone(NewTurn(i))},
         i \in Untouched => i \in Sought,
         queue' = queue, taken' = taken, dropped' = dropped, page'.entered = page.entered,
         Sought' \subseteq Sought \cup {0}, page'.sending \in {0, page.sending}
  PROVE  OrderInvariant'
<1> DEFINE new == Len(turns) + 1
<1>1. Untouched' = Untouched BY DEF Untouched
<1>2. /\ DOMAIN turns' = DOMAIN turns \cup {new} /\ turns'[new].item = i
      /\ \A n \in DOMAIN turns : turns'[n].item = turns[n].item
      /\ DOMAIN turns = 1 .. Len(turns) /\ Len(turns) \in Nat
  <2>1. turns \in Seq(Turn) BY Typed
  <2>2. /\ NewTurn(i) \in Seq(Turn) /\ DOMAIN NewTurn(i) = DOMAIN turns \cup {new}
        /\ \A n \in DOMAIN turns : NewTurn(i)[n].item = turns[n].item
        /\ NewTurn(i)[new].item = i
    BY <2>1, NewTurnAdds
  <2>3. /\ DOMAIN AllDone(NewTurn(i)) = DOMAIN turns \cup {new}
        /\ \A n \in DOMAIN turns \cup {new} : AllDone(NewTurn(i))[n].item = NewTurn(i)[n].item
    BY <2>2, AllDoneKeeps
  <2> QED BY <2>2, <2>3, Typed
<1>3. i \in Untouched => queue # << >> /\ queue[1] = i /\ 1 \in DOMAIN queue
  BY OrderNumbers DEF OrderInvariant, AsksForHead
<1>4. \A n \in DOMAIN turns' : n \in DOMAIN turns \/ (n = new /\ turns'[n].item = i) BY <1>2
<1>5. QueueInOrder'
  <2>1. page'.sending <= page'.entered BY OrderNumbers DEF OrderInvariant, QueueInOrder
  <2>2. i \in Untouched => i <= page.entered BY <1>3 DEF OrderInvariant, QueueInOrder
  <2>3. \A n \in DOMAIN turns' : turns'[n].item \in Untouched => turns'[n].item <= page'.entered
    BY <1>2, <1>4, <2>2 DEF OrderInvariant, QueueInOrder
  <2> QED BY <1>1, <2>1, <2>3 DEF OrderInvariant, QueueInOrder
<1>6. AsksForHead' BY <1>1, OrderNumbers DEF OrderInvariant, AsksForHead
<1>7. BeforeTheQueue'
  <2> SUFFICES ASSUME NEW n \in DOMAIN turns', NEW a \in DOMAIN queue,
                      turns'[n].item \in Untouched, queue[a] \in Untouched
               PROVE  turns'[n].item <= queue[a]
    BY <1>1 DEF BeforeTheQueue
  <2>1. CASE n \in DOMAIN turns BY <1>2, <2>1 DEF OrderInvariant, BeforeTheQueue
  <2>2. CASE n = new /\ turns'[n].item = i
    <3>1. queue[1] = i /\ 1 \in DOMAIN queue BY <1>3, <2>2
    <3>2. CASE a = 1 BY <2>2, <3>1, <3>2, OrderNumbers
    <3>3. CASE a # 1
      <4>1. 1 < a BY <3>3, OrderNumbers
      <4>2. queue[1] < queue[a] BY <2>2, <3>1, <4>1 DEF OrderInvariant, QueueInOrder
      <4> QED BY <2>2, <3>1, <4>2, OrderNumbers
    <3> QED BY <3>2, <3>3
  <2> QED BY <1>4, <2>1, <2>2
<1>8. FirstInFirstOut'
  <2> SUFFICES ASSUME NEW m \in DOMAIN turns', NEW n \in DOMAIN turns', m < n,
                      turns'[m].item \in Untouched, turns'[n].item \in Untouched
               PROVE  turns'[m].item <= turns'[n].item
    BY <1>1 DEF FirstInFirstOut
  <2>1. m \in DOMAIN turns BY <1>2
  <2>2. CASE n \in DOMAIN turns BY <1>2, <2>1, <2>2 DEF OrderInvariant, FirstInFirstOut
  <2>3. CASE n = new /\ turns'[n].item = i
    <3>1. turns[m].item <= queue[1] BY <1>2, <1>3, <2>1, <2>3 DEF OrderInvariant, BeforeTheQueue
    <3> QED BY <1>2, <1>3, <2>1, <2>3, <3>1
  <2> QED BY <1>4, <2>2, <2>3
<1> QED BY <1>5, <1>6, <1>7, <1>8 DEF OrderInvariant

\* An item leaves the queue, that nobody asks for from then on unless it is touched.
LEMMA ItemLeaves ==
  ASSUME OnceInvariant, OrderInvariant, OrderTypes', AnswerIsLast', SameItems, NEW i,
         queue' = Without(i), taken \subseteq taken', dropped \subseteq dropped',
         page'.entered = page.entered, page'.sending \in {0, page.sending},
         \A j \in Sought' : j \in Untouched' => j \in Sought /\ j # i
  PROVE  OrderInvariant'
<1>1. Untouched' \subseteq Untouched BY DEF Untouched
<1>2. PICK f \in [DOMAIN queue' -> DOMAIN queue] :
          /\ \A a \in DOMAIN queue' : queue'[a] = queue[f[a]]
          /\ \A a, b \in DOMAIN queue' : a < b => f[a] < f[b]
          /\ \A a, b \in DOMAIN queue' : f[a] = f[b] => a = b
          /\ queue # << >> /\ queue[1] # i => queue' # << >> /\ queue'[1] = queue[1]
  <2>1. queue \in Seq(Items) BY OrderNumbers
  <2>2. Thinned(queue, Without(i), i) BY <2>1, WithoutThins
  <2>3. Thinned(queue, queue', i) BY <2>2
  <2> QED BY <2>1, <2>3, ThinnedPlaces
<1>3. QueueInOrder'
  <2>1. page'.sending <= page'.entered BY OrderNumbers DEF OrderInvariant, QueueInOrder
  <2>2. \A n \in DOMAIN turns' : turns'[n].item \in Untouched' => turns'[n].item <= page'.entered
    BY <1>1 DEF OrderInvariant, QueueInOrder, SameItems
  <2>3. \A a \in DOMAIN queue' : queue'[a] <= page'.entered BY <1>2 DEF OrderInvariant, QueueInOrder
  <2>4. \A a, b \in DOMAIN queue' : queue'[a] = queue'[b] => a = b BY <1>2 DEF OrderInvariant, QueueInOrder
  <2>5. \A a, b \in DOMAIN queue' :
            a < b /\ {queue'[a], queue'[b]} \subseteq Untouched' => queue'[a] < queue'[b]
    <3> SUFFICES ASSUME NEW a \in DOMAIN queue', NEW b \in DOMAIN queue', a < b,
                        {queue'[a], queue'[b]} \subseteq Untouched'
                 PROVE  queue'[a] < queue'[b]
      OBVIOUS
    <3>1. /\ f[a] \in DOMAIN queue /\ f[b] \in DOMAIN queue /\ f[a] < f[b]
          /\ queue'[a] = queue[f[a]] /\ queue'[b] = queue[f[b]]
      BY <1>2
    <3>2. {queue[f[a]], queue[f[b]]} \subseteq Untouched BY <1>1, <3>1
    <3> QED BY <3>1, <3>2 DEF OrderInvariant, QueueInOrder
  <2> QED BY <2>1, <2>2, <2>3, <2>4, <2>5 DEF QueueInOrder
<1>4. AsksForHead'
  <2> SUFFICES ASSUME NEW j \in Sought', j \in Untouched'
               PROVE  queue' # << >> /\ queue'[1] = j
    BY DEF AsksForHead
  <2>1. j \in Sought /\ j # i /\ j \in Untouched BY <1>1
  <2>2. queue # << >> /\ queue[1] = j BY <2>1 DEF OrderInvariant, AsksForHead
  <2> QED BY <1>2, <2>1, <2>2
<1>5. BeforeTheQueue'
  <2> SUFFICES ASSUME NEW n \in DOMAIN turns', NEW a \in DOMAIN queue',
                      {turns'[n].item, queue'[a]} \subseteq Untouched'
               PROVE  turns'[n].item <= queue'[a]
    BY DEF BeforeTheQueue
  <2>1. f[a] \in DOMAIN queue /\ queue'[a] = queue[f[a]] BY <1>2
  <2>2. n \in DOMAIN turns /\ turns'[n].item = turns[n].item BY DEF SameItems
  <2>3. {turns[n].item, queue[f[a]]} \subseteq Untouched BY <1>1, <2>1, <2>2
  <2> QED BY <2>1, <2>2, <2>3 DEF OrderInvariant, BeforeTheQueue
<1>6. FirstInFirstOut'
  <2> SUFFICES ASSUME NEW m \in DOMAIN turns', NEW n \in DOMAIN turns', m < n,
                      {turns'[m].item, turns'[n].item} \subseteq Untouched'
               PROVE  turns'[m].item <= turns'[n].item
    BY DEF FirstInFirstOut
  <2> QED BY <1>1 DEF OrderInvariant, FirstInFirstOut, SameItems
<1> QED BY <1>3, <1>4, <1>5, <1>6 DEF OrderInvariant

\* An item is put at the end: the next that is entered, or a touched one.
LEMMA ItemAppended ==
  ASSUME OnceInvariant, OrderInvariant, OrderTypes', AnswerIsLast', NEW i \in Items,
         queue' = Append(queue, i), UNCHANGED <<turns, taken, dropped>>,
         \A a \in DOMAIN queue : queue[a] # i,
         \/ i = page.entered + 1 /\ page'.entered = i
         \/ i \notin Untouched /\ i <= page.entered /\ page'.entered = page.entered,
         Sought' \subseteq Sought \cup {0}, page'.sending \in {0, page.sending}
  PROVE  OrderInvariant'
<1> DEFINE end == Len(queue) + 1
<1>1. Untouched' = Untouched BY DEF Untouched
<1>2. /\ DOMAIN queue' = DOMAIN queue \cup {end} /\ queue'[end] = i
      /\ \A a \in DOMAIN queue : queue'[a] = queue[a] /\ a < end
      /\ queue' # << >> /\ end \in Nat
  <2>1. queue \in Seq(Items) /\ Len(queue) \in Nat /\ DOMAIN queue = 1 .. Len(queue) BY OrderNumbers
  <2>2. /\ Append(queue, i) \in Seq(Items) /\ Append(queue, i) # << >> /\ Len(Append(queue, i)) = end
        /\ \A a \in 1 .. Len(queue) : Append(queue, i)[a] = queue[a]
        /\ Append(queue, i)[end] = i
    BY <2>1, AppendProperties
  <2>3. DOMAIN Append(queue, i) = 1 .. end BY <2>2
  <2>4. 1 .. end = (1 .. Len(queue)) \cup {end} /\ \A a \in 1 .. Len(queue) : a < end BY <2>1
  <2> QED BY <2>1, <2>2, <2>3, <2>4
<1>3. \A a \in DOMAIN queue' : a \in DOMAIN queue \/ (a = end /\ queue'[a] = i) BY <1>2
<1>4. page.entered <= page'.entered /\ i <= page'.entered /\ page'.entered \in Nat /\ i \in Nat
  BY OrderNumbers, ItemNumbers
<1>5. \A a \in DOMAIN queue : queue[a] <= page.entered BY DEF OrderInvariant, QueueInOrder
<1>6. i \in Untouched => i = page.entered + 1 OBVIOUS
<1>7. QueueInOrder'
  <2>1. page'.sending <= page'.entered
    <3>1. page.sending <= page.entered /\ page.sending \in Nat /\ page.entered \in Nat
      BY ItemNumbers DEF OrderInvariant, QueueInOrder, OrderTypes
    <3> QED BY <1>4, <3>1
  <2>2. \A n \in DOMAIN turns' : turns'[n].item \in Untouched' => turns'[n].item <= page'.entered
    <3> SUFFICES ASSUME NEW n \in DOMAIN turns, turns[n].item \in Untouched
                 PROVE  turns[n].item <= page'.entered
      BY <1>1
    <3>1. turns[n].item <= page.entered /\ turns[n].item \in Nat /\ page.entered \in Nat
      BY OrderNumbers DEF OrderInvariant, QueueInOrder
    <3> QED BY <1>4, <3>1
  <2>3. \A a \in DOMAIN queue' : queue'[a] <= page'.entered
    <3> SUFFICES ASSUME NEW a \in DOMAIN queue' PROVE queue'[a] <= page'.entered OBVIOUS
    <3>1. CASE a \in DOMAIN queue BY <1>2, <1>4, <1>5, <3>1, OrderNumbers
    <3>2. CASE a = end /\ queue'[a] = i BY <1>4, <3>2
    <3> QED BY <1>3, <3>1, <3>2
  <2>4. \A a, b \in DOMAIN queue' : queue'[a] = queue'[b] => a = b
    BY <1>2, <1>3 DEF OrderInvariant, QueueInOrder
  <2>5. ASSUME NEW a \in DOMAIN queue', NEW b \in DOMAIN queue', a < b,
               {queue'[a], queue'[b]} \subseteq Untouched'
        PROVE  queue'[a] < queue'[b]
    <3>1. a \in DOMAIN queue /\ queue'[a] = queue[a]
      <4>1. a # end BY <1>2, <1>3, <2>5, OrderNumbers
      <4> QED BY <1>2, <1>3, <4>1
    <3>2. CASE b \in DOMAIN queue BY <1>1, <1>2, <2>5, <3>1, <3>2 DEF OrderInvariant, QueueInOrder
    <3>3. CASE b = end /\ queue'[b] = i
      <4>1. i = page.entered + 1 /\ queue[a] <= page.entered BY <1>1, <1>5, <1>6, <2>5, <3>1, <3>3
      <4> QED BY <3>1, <3>3, <4>1, OrderNumbers
    <3> QED BY <1>3, <3>2, <3>3
  <2> QED BY <2>1, <2>2, <2>3, <2>4, <2>5 DEF QueueInOrder
<1>8. AsksForHead'
  <2> SUFFICES ASSUME NEW j \in Sought', j \in Untouched
               PROVE  queue' # << >> /\ queue'[1] = j
    BY <1>1 DEF AsksForHead
  <2>1. queue # << >> /\ queue[1] = j BY OrderNumbers DEF OrderInvariant, AsksForHead
  <2> QED BY <1>2, <2>1, OrderNumbers
<1>9. BeforeTheQueue'
  <2> SUFFICES ASSUME NEW n \in DOMAIN turns, NEW a \in DOMAIN queue',
                      turns[n].item \in Untouched, queue'[a] \in Untouched
               PROVE  turns[n].item <= queue'[a]
    BY <1>1 DEF BeforeTheQueue
  <2>1. CASE a \in DOMAIN queue BY <1>2, <2>1 DEF OrderInvariant, BeforeTheQueue
  <2>2. CASE a = end /\ queue'[a] = i
    <3>1. turns[n].item <= page.entered /\ turns[n].item \in Nat /\ page.entered \in Nat
      BY OrderNumbers DEF OrderInvariant, QueueInOrder
    <3> QED BY <1>6, <2>2, <3>1
  <2> QED BY <1>3, <2>1, <2>2
<1>10. FirstInFirstOut' BY <1>1 DEF OrderInvariant, FirstInFirstOut
<1> QED BY <1>7, <1>8, <1>9, <1>10 DEF OrderInvariant

----
(* The steps. *)

\* What a page reads again changes neither what it asks for nor what was entered.
LEMMA PageReads ==
  ASSUME DOMAIN page = PageFields
  PROVE  /\ DOMAIN Refetched(page) = PageFields /\ DOMAIN Refreshed(page) = PageFields
         /\ Refetched(page).sending = page.sending /\ Refetched(page).entered = page.entered
         /\ Refreshed(page).sending = page.sending /\ Refreshed(page).entered = page.entered
<1>1. /\ DOMAIN Refetched(page) = PageFields
      /\ Refetched(page).sending = page.sending /\ Refetched(page).entered = page.entered
  BY DEF Refetched, PageFields
<1> QED BY <1>1 DEF Refreshed, PageFields

\* A step that leaves the queue and its requests alone.
LEMMA RequestsRest ==
  ASSUME OrderInvariant, UNCHANGED <<queue, taken, dropped, asked, op, results>>,
         DOMAIN page' = PageFields, page'.sending = page.sending, page'.entered = page.entered,
         DOMAIN answer' = AnswerFields, answer'.to = answer.to, answer = NoAnswer => answer' = NoAnswer
  PROVE  OrderTypes' /\ AnswerIsLast' /\ Sought' = Sought
<1>1. OrderTypes' BY DEF OrderInvariant, OrderTypes
<1>2. AnswerIsLast' BY DEF OrderInvariant, AnswerIsLast
<1> QED BY <1>1, <1>2 DEF Sought

LEMMA QuietStep ==
  ASSUME OnceInvariant, OrderInvariant, turns' \in {turns, AllDone(turns)},
         UNCHANGED <<queue, taken, dropped, asked, op, results>>,
         DOMAIN page' = PageFields, page'.sending = page.sending, page'.entered = page.entered,
         DOMAIN answer' = AnswerFields, answer'.to = answer.to, answer = NoAnswer => answer' = NoAnswer
  PROVE  OrderInvariant'
<1>1. SameItems BY Typed, AllDoneKeeps DEF SameItems
<1>2. OrderTypes' /\ AnswerIsLast' /\ Sought' = Sought BY RequestsRest
<1> QED BY <1>1, <1>2, QueueRests

LEMMA OrderFacts ==
  ASSUME OrderInvariant
  PROVE  /\ DOMAIN page = PageFields /\ DOMAIN answer = AnswerFields
         /\ page.sending \in Items \cup {0} /\ answer.to \in Items \cup {0} /\ page.entered \in Nat
         /\ asked \subseteq Items /\ dropped \subseteq Items /\ queue \in Seq(Items)
BY DEF OrderInvariant, OrderTypes

LEMMA ServerQuietOrder ==
  ASSUME OnceInvariant, OrderInvariant, GateCloses \/ Reconcile \/ TurnEnds
  PROVE  OrderInvariant'
<1>1. /\ turns' \in {turns, AllDone(turns)}
      /\ UNCHANGED <<queue, taken, dropped, asked, op, results, page, answer>>
  BY DEF GateCloses, Reconcile, TurnEnds, stored
<1> QED BY <1>1, OrderFacts, QuietStep

LEMMA PageQuietOrder ==
  ASSUME OnceInvariant, OrderInvariant, Retry \/ Refetch \/ Steer
  PROVE  OrderInvariant'
<1>1. /\ turns' \in {turns, AllDone(turns)}
      /\ UNCHANGED <<queue, taken, dropped, asked, op, results, answer>>
  BY DEF Retry, Refetch, Steer, stored, server
<1>2. DOMAIN page' = PageFields /\ page'.sending = page.sending /\ page'.entered = page.entered
  <2>1. CASE Retry BY <2>1, OrderFacts DEF Retry, PageFields
  <2>2. CASE Refetch BY <2>2, OrderFacts, PageReads DEF Refetch
  <2>3. CASE Steer BY <2>3, OrderFacts DEF Steer, PageFields
  <2> QED BY <2>1, <2>2, <2>3
<1> QED BY <1>1, <1>2, OrderFacts, QuietStep

LEMMA ReceiveOrder ==
  ASSUME OnceInvariant, OrderInvariant, Receive
  PROVE  OrderInvariant'
<1>1. UNCHANGED <<turns, queue, taken, dropped, asked, op, results>> BY DEF Receive, stored, server
<1>2. DOMAIN page' = PageFields /\ page'.sending = page.sending /\ page'.entered = page.entered
  BY OrderFacts DEF Receive, PageFields
<1>3. /\ DOMAIN answer' = AnswerFields /\ answer'.to = answer.to
      /\ answer = NoAnswer => answer' = NoAnswer
  <2>1. answer' = [answer EXCEPT !.behind = IF @ = 0 THEN 0 ELSE @ - 1] BY DEF Receive
  <2>2. DOMAIN answer' = AnswerFields /\ answer'.to = answer.to BY <2>1, OrderFacts DEF AnswerFields
  <2>3. answer = NoAnswer => answer' = NoAnswer BY <2>1 DEF NoAnswer
  <2> QED BY <2>2, <2>3
<1> QED BY <1>1, <1>2, <1>3, QuietStep

LEMMA OtherStartsOrder ==
  ASSUME OnceInvariant, OrderInvariant, OtherStarts
  PROVE  OrderInvariant'
<1>1. /\ turns' = NewTurn(0) /\ UNCHANGED <<queue, taken, dropped, asked, op, results, page, answer>>
  BY DEF OtherStarts, stored
<1>2. OrderTypes' /\ AnswerIsLast' /\ Sought' = Sought BY <1>1, OrderFacts, RequestsRest
<1>3. 0 \notin Untouched BY OrderNumbers
<1> QED BY <1>1, <1>2, <1>3, TurnAddedInOrder

LEMMA EffectsOrder ==
  ASSUME OnceInvariant, OrderInvariant, Effects
  PROVE  OrderInvariant'
<1>1. UNCHANGED <<turns, queue, taken, dropped, op, results, answer>> BY DEF Effects
<1>2. CASE UNCHANGED <<page, asked>> BY <1>1, <1>2, OrderFacts, QuietStep
<1>3. CASE Sends /\ asked' = asked \cup {Head0}
           /\ page' = [page EXCEPT !.last = Head0, !.sending = Head0, !.prev = page.latest,
                           !.pending = IF Head0 \in Compacts THEN @ ELSE Head0]
  <2>1. DOMAIN page' = PageFields /\ page'.sending = Head0 /\ page'.entered = page.entered
    BY <1>3, OrderFacts DEF PageFields
  <2>2. page.sending = 0 /\ Head0 # 0 /\ Head0 \in Items BY <1>3, OrderNumbers DEF Sends, Head0
  <2>3. answer.to = 0 BY <2>2 DEF OrderInvariant, AnswerIsLast
  <2>4. OrderTypes' BY <1>1, <1>3, <2>1, <2>2, OrderFacts DEF OrderTypes
  <2>5. AnswerIsLast' BY <1>1, <2>3 DEF OrderInvariant, AnswerIsLast
  <2>6. SameItems BY <1>1 DEF SameItems
  <2>7. Sought' \subseteq Sought \cup {Head0} BY <1>1, <1>3, <2>1 DEF Sought
  <2> QED BY <1>1, <2>1, <2>4, <2>5, <2>6, <2>7, QueueRests
<1> QED BY <1>2, <1>3 DEF Effects

LEMMA EnqueueOrder ==
  ASSUME OnceInvariant, OrderInvariant, NEW i \in Items, Enqueue(i)
  PROVE  OrderInvariant'
<1>1. /\ page.entered = i - 1 /\ queue' = Append(queue, i) /\ page' = [page EXCEPT !.entered = i]
      /\ UNCHANGED <<turns, asked, op, results, answer, taken, dropped>>
  BY DEF Enqueue, server
<1>2. DOMAIN page' = PageFields /\ page'.sending = page.sending /\ page'.entered = i
  BY <1>1, OrderFacts DEF PageFields
<1>3. i \in Nat /\ i = page.entered + 1 BY <1>1, ItemNumbers
<1>4. OrderTypes' BY <1>1, <1>2, <1>3, OrderFacts, AppendProperties DEF OrderTypes
<1>5. AnswerIsLast' BY <1>1, <1>2 DEF OrderInvariant, AnswerIsLast
<1>6. \A a \in DOMAIN queue : queue[a] # i
  <2>1. \A a \in DOMAIN queue : queue[a] <= page.entered /\ queue[a] \in Nat /\ page.entered \in Nat
    BY OrderNumbers DEF OrderInvariant, QueueInOrder
  <2> QED BY <1>3, <2>1
<1>7. Sought' = Sought BY <1>1, <1>2 DEF Sought
<1> QED BY <1>1, <1>2, <1>3, <1>4, <1>5, <1>6, <1>7, ItemAppended

LEMMA CancelOrder ==
  ASSUME OnceInvariant, OrderInvariant, NEW i \in Items, Cancel(i)
  PROVE  OrderInvariant'
<1>1. /\ queue' = Without(i) /\ taken' = taken \cup {i}
      /\ page' = [page EXCEPT !.last = IF i = Head0 THEN 0 ELSE @]
      /\ UNCHANGED <<turns, asked, op, results, answer, dropped>>
  BY DEF Cancel, Leaves, server
<1>2. DOMAIN page' = PageFields /\ page'.sending = page.sending /\ page'.entered = page.entered
  BY <1>1, OrderFacts DEF PageFields
<1>3. OrderTypes' BY <1>1, <1>2, OrderFacts, WithoutOne DEF OrderTypes
<1>4. AnswerIsLast' BY <1>1, <1>2 DEF OrderInvariant, AnswerIsLast
<1>5. SameItems BY <1>1 DEF SameItems
<1>6. \A j \in Sought' : j \in Untouched' => j \in Sought /\ j # i BY <1>1, <1>2 DEF Sought, Untouched
<1> QED BY <1>1, <1>2, <1>3, <1>4, <1>5, <1>6, ItemLeaves

LEMMA RemountOrder ==
  ASSUME OnceInvariant, OrderInvariant, Remount
  PROVE  OrderInvariant'
<1>1. UNCHANGED <<turns, queue, taken, dropped, op, results>> BY DEF Remount, stored
<1>2. SameItems BY <1>1 DEF SameItems
<1>3. CASE page' = Refreshed(page) /\ answer' = [answer EXCEPT !.behind = 0] /\ asked' = asked
  <2>1. DOMAIN answer' = AnswerFields /\ answer'.to = answer.to BY <1>3, OrderFacts DEF AnswerFields
  <2>2. answer = NoAnswer => answer' = NoAnswer BY <1>3 DEF NoAnswer
  <2> QED BY <1>1, <1>3, <2>1, <2>2, OrderFacts, PageReads, QuietStep
<1>4. CASE page' = [page EXCEPT !.last = 0] /\ answer' = answer /\ asked' = asked
  <2>1. DOMAIN page' = PageFields /\ page'.sending = page.sending /\ page'.entered = page.entered
    BY <1>4, OrderFacts DEF PageFields
  <2> QED BY <1>1, <1>4, <2>1, OrderFacts, QuietStep
<1>5. CASE /\ page' = [Refreshed(page) EXCEPT !.last = 0, !.sending = 0, !.pending = 0]
           /\ answer' = NoAnswer /\ asked' = asked \cap {op}
  <2> DEFINE p == Refreshed(page)
  <2>1. DOMAIN p = PageFields /\ p.entered = page.entered BY OrderFacts, PageReads
  <2>2. page' = [p EXCEPT !.last = 0, !.sending = 0, !.pending = 0] BY <1>5
  <2> HIDE DEF p
  <2>3. DOMAIN page' = PageFields /\ page'.sending = 0 /\ page'.entered = page.entered
    BY <2>1, <2>2 DEF PageFields
  <2>4. DOMAIN answer' = AnswerFields /\ answer'.to = 0 BY <1>5 DEF NoAnswer, AnswerFields
  <2>5. OrderTypes' BY <1>1, <1>5, <2>3, <2>4, OrderFacts DEF OrderTypes
  <2>6. AnswerIsLast' BY <1>1, <1>5, <2>4 DEF OrderInvariant, AnswerIsLast
  <2>7. Sought' \subseteq Sought \cup {0} BY <1>1, <1>5, <2>3, <2>4 DEF Sought
  <2> QED BY <1>1, <1>2, <2>3, <2>5, <2>6, <2>7, QueueRests
<1> QED BY <1>3, <1>4, <1>5 DEF Remount

\* The answer that a request gets reaches the page only if it waits for it.
LEMMA Replied ==
  ASSUME OrderInvariant, answer = NoAnswer
  PROVE  \A i, what, turn :
            /\ DOMAIN Reply(i, what, turn) = AnswerFields
            /\ Reply(i, what, turn).to = IF page.sending = i THEN i ELSE 0
            /\ page.sending # i => Reply(i, what, turn) = NoAnswer
BY DEF Reply, NoAnswer, AnswerFields

LEMMA HandleAnsweredOrder ==
  ASSUME OnceInvariant, OrderInvariant, NEW i \in Items, HandleAnswered(i)
  PROVE  OrderInvariant'
<1> DEFINE w == Refusal(i)
           t == IF srv.gate THEN results[i].turn ELSE 0
<1>1. /\ i \in asked /\ answer = NoAnswer /\ results[i].what # "pending"
      /\ asked' = asked \ {i} /\ answer' = Reply(i, w, t)
      /\ UNCHANGED <<turns, queue, taken, dropped, op, page>>
      /\ results' \in {results, [results EXCEPT ![i] = [what |-> "refused", turn |-> 0]]}
  BY DEF HandleAnswered, stored
<1> HIDE DEF w, t
<1>2. /\ DOMAIN answer' = AnswerFields /\ answer'.to = IF page.sending = i THEN i ELSE 0
      /\ page.sending # i => answer' = NoAnswer
  BY <1>1, Replied
<1>3. op # i /\ (op # 0 => results'[op].what = "pending")
  <2>1. op # i BY <1>1, ItemNumbers DEF OrderInvariant, AnswerIsLast
  <2>2. op # 0 => results'[op] = results[op] BY <1>1, <2>1, Typed DEF OnceInvariant, QueueTypes
  <2> QED BY <2>1, <2>2 DEF OrderInvariant, AnswerIsLast
<1>4. OrderTypes' BY <1>1, <1>2, OrderFacts DEF OrderTypes
<1>5. AnswerIsLast' BY <1>1, <1>2, <1>3, ItemNumbers DEF AnswerIsLast
<1>6. SameItems BY <1>1 DEF SameItems
<1>7. Sought' \subseteq Sought \cup {0} BY <1>1, <1>2 DEF Sought
<1> QED BY <1>1, <1>4, <1>5, <1>6, <1>7, QueueRests

LEMMA HandleStartOrder ==
  ASSUME OnceInvariant, OrderInvariant, NEW i \in Items, HandleStart(i)
  PROVE  OrderInvariant'
<1>1. /\ i \in asked /\ op' = i
      /\ results' = [results EXCEPT ![i] = [what |-> "pending", turn |-> 0]]
      /\ UNCHANGED <<turns, queue, taken, dropped, asked, answer, page>>
  BY DEF HandleStart, stored
<1>2. OrderTypes' BY <1>1, OrderFacts DEF OrderTypes
<1>3. results'[i].what = "pending" BY <1>1, Typed
<1>4. AnswerIsLast' BY <1>1, <1>3 DEF OrderInvariant, AnswerIsLast
<1>5. SameItems BY <1>1 DEF SameItems
<1>6. Sought' \subseteq Sought BY <1>1 DEF Sought
<1> QED BY <1>1, <1>2, <1>4, <1>5, <1>6, QueueRests

\* The operation ends with an answer.
LEMMA OperationEnds ==
  ASSUME OrderInvariant, op # 0, answer = NoAnswer, NEW w, NEW t,
         answer' = Reply(op, w, t), asked' = asked \ {op}, op' = 0,
         UNCHANGED <<queue, taken, dropped, page>>
  PROVE  OrderTypes' /\ AnswerIsLast' /\ Sought' \subseteq Sought \cup {0}
<1>1. /\ DOMAIN answer' = AnswerFields /\ answer'.to = IF page.sending = op THEN op ELSE 0
      /\ page.sending # op => answer' = NoAnswer
  BY Replied
<1>2. OrderTypes' BY <1>1, OrderFacts DEF OrderTypes
<1>3. AnswerIsLast' BY <1>1 DEF AnswerIsLast
<1> QED BY <1>1, <1>2, <1>3 DEF Sought

LEMMA OperationOrder ==
  ASSUME OnceInvariant, OrderInvariant, Starts \/ Fails \/ IsUncertain
  PROVE  OrderInvariant'
<1>1. /\ op # 0 /\ answer = NoAnswer /\ asked' = asked \ {op} /\ op' = 0
      /\ UNCHANGED <<queue, taken, dropped, page>>
      /\ turns' \in {turns, NewTurn(op), AllDone(NewTurn(op))}
  BY DEF Starts, Fails, IsUncertain, stored
<1>2. OrderTypes' /\ AnswerIsLast' /\ Sought' \subseteq Sought \cup {0}
  <2>1. CASE Starts
    <3>1. answer' = Reply(op, "started", IF op \in Compacts THEN 0 ELSE Len(turns) + 1) BY <2>1 DEF Starts
    <3> QED BY <1>1, <3>1, OperationEnds
  <2>2. CASE Fails
    <3>1. answer' = Reply(op, "refused", 0) BY <2>2 DEF Fails
    <3> QED BY <1>1, <3>1, OperationEnds
  <2>3. CASE IsUncertain
    <3>1. answer' = Reply(op, "uncertain", 0) BY <2>3 DEF IsUncertain
    <3> QED BY <1>1, <3>1, OperationEnds
  <2> QED BY <2>1, <2>2, <2>3
<1>3. CASE turns' = turns
  <2>1. SameItems BY <1>3 DEF SameItems
  <2> QED BY <1>1, <1>2, <2>1, QueueRests
<1>4. CASE turns' \in {NewTurn(op), AllDone(NewTurn(op))}
  <2>1. op \in Sought /\ op \in Items \cup {0} BY DEF Sought, OnceInvariant, QueueTypes
  <2> QED BY <1>1, <1>2, <1>4, <2>1, TurnAddedInOrder
<1> QED BY <1>1, <1>3, <1>4

LEMMA AnswerArrivesOrder ==
  ASSUME OnceInvariant, OrderInvariant, AnswerArrives
  PROVE  OrderInvariant'
<1> DEFINE i == answer.to
<1>1. /\ answer # NoAnswer /\ answer' = NoAnswer
      /\ UNCHANGED <<turns, asked, op, results, taken, dropped>>
  BY DEF AnswerArrives, server
<1>2. SameItems BY <1>1 DEF SameItems
<1>3. DOMAIN page' = PageFields /\ page'.sending = 0 /\ page'.entered = page.entered
  <2> DEFINE p == [page EXCEPT !.sending = 0]
  <2>1. DOMAIN p = PageFields /\ p.sending = 0 /\ p.entered = page.entered BY OrderFacts DEF PageFields
  <2>2. \/ page' = [p EXCEPT !.pending = IF i \in Compacts THEN p.pending ELSE 0,
                             !.last = IF Without(i) = << >> THEN 0 ELSE p.last,
                             !.told = p.told \cup ({i} \ Compacts)]
        \/ page' = p
        \/ page' = [p EXCEPT !.pending = IF i \in Compacts THEN p.pending ELSE 0]
    BY DEF AnswerArrives
  <2> HIDE DEF p
  <2> QED BY <2>1, <2>2 DEF PageFields
<1>4. DOMAIN answer' = AnswerFields /\ answer'.to = 0 BY <1>1 DEF NoAnswer, AnswerFields
<1>5. AnswerIsLast' BY <1>1, <1>4 DEF OrderInvariant, AnswerIsLast
<1>6. Sought' = asked \cup {op, 0} BY <1>1, <1>3, <1>4 DEF Sought
<1>7. i # 0 => i = page.sending /\ i \notin asked /\ i # op BY DEF OrderInvariant, AnswerIsLast
<1>8. CASE queue' = Without(i)
  <2>1. OrderTypes' BY <1>1, <1>3, <1>4, <1>8, OrderFacts, WithoutOne DEF OrderTypes
  <2>2. \A j \in Sought' : j \in Untouched' => j \in Sought /\ j # i
    <3>1. Untouched' = Untouched /\ 0 \notin Untouched BY <1>1, OrderNumbers DEF Untouched
    <3> QED BY <1>6, <1>7, <3>1 DEF Sought
  <2> HIDE DEF i
  <2> QED BY <1>1, <1>2, <1>3, <1>5, <1>8, <2>1, <2>2, ItemLeaves
<1>9. CASE queue' = queue
  <2>1. OrderTypes' BY <1>1, <1>3, <1>4, <1>9, OrderFacts DEF OrderTypes
  <2> QED BY <1>1, <1>2, <1>3, <1>5, <1>6, <1>9, <2>1, QueueRests DEF Sought
<1>10. CASE queue' = Append(queue, i) /\ ~Contains(queue, i) /\ i # 0
  <2>1. i \in Items /\ i = page.sending BY <1>7, <1>10, OrderFacts
  <2>2. \A a \in DOMAIN queue : queue[a] # i BY <1>10, OrderNumbers DEF Contains
  <2>3. OrderTypes' BY <1>1, <1>3, <1>4, <1>10, <2>1, OrderFacts, AppendProperties DEF OrderTypes
  <2>4. i \notin Untouched
    <3>1. i \in Untouched => queue # << >> /\ queue[1] = i BY <2>1 DEF OrderInvariant, AsksForHead, Sought
    <3> QED BY <2>2, <3>1, OrderNumbers
  <2>5. i <= page.entered BY <2>1 DEF OrderInvariant, QueueInOrder
  <2>6. Sought' \subseteq Sought \cup {0} BY <1>6 DEF Sought
  <2> HIDE DEF i
  <2> QED BY <1>1, <1>3, <1>5, <1>10, <2>1, <2>2, <2>3, <2>4, <2>5, <2>6, ItemAppended
<1>11. queue' \in {queue, Without(i)} \/ (queue' = Append(queue, i) /\ ~Contains(queue, i) /\ i # 0)
  <2>1. CASE answer.what = "started" /\ \E b : Leaves(i, b) BY <2>1 DEF Leaves
  <2>2. CASE UNCHANGED stored BY <2>2 DEF stored
  <2>3. CASE answer.what \in {"refused", "closed"} /\ queue' = Kept(i)
    BY <1>1, <2>3 DEF Kept, OrderInvariant, AnswerIsLast
  <2> QED BY <2>1, <2>2, <2>3 DEF AnswerArrives
<1> QED BY <1>8, <1>9, <1>10, <1>11

LEMMA ResolveOrder ==
  ASSUME OnceInvariant, OrderInvariant, Resolve
  PROVE  OrderInvariant'
<1>1. /\ op = 0 /\ \E x : page' = [page EXCEPT !.pending = x]
      /\ UNCHANGED <<turns, op, asked, answer>>
      /\ \E back : DropsHead(back)
  BY DEF Resolve
<1>2. DOMAIN page' = PageFields /\ page'.sending = page.sending /\ page'.entered = page.entered
  BY <1>1, OrderFacts DEF PageFields
<1>3. SameItems /\ Sought' = Sought BY <1>1, <1>2 DEF SameItems, Sought
<1>4. AnswerIsLast' BY <1>1, <1>2 DEF OrderInvariant, AnswerIsLast
<1>5. PICK back : DropsHead(back) BY <1>1
<1>6. CASE HeadMessage = 0
  <2>1. UNCHANGED <<queue, taken, dropped>> BY <1>5, <1>6 DEF DropsHead, stored
  <2>2. OrderTypes' BY <1>1, <1>2, <2>1, OrderFacts DEF OrderTypes
  <2> QED BY <1>2, <1>3, <1>4, <2>1, <2>2, QueueRests
<1>7. CASE HeadMessage # 0
  <2>1. /\ queue' = Without(HeadMessage) /\ taken \subseteq taken' /\ dropped \subseteq dropped'
        /\ HeadMessage \in taken' \cup dropped' /\ dropped' \subseteq dropped \cup {HeadMessage}
    BY <1>5, <1>7 DEF DropsHead, Leaves
  <2>2. HeadMessage \in Items BY <1>7 DEF HeadMessage
  <2>3. OrderTypes' BY <1>1, <1>2, <2>1, <2>2, OrderFacts, WithoutOne DEF OrderTypes
  <2>4. \A j \in Sought' : j \in Untouched' => j \in Sought /\ j # HeadMessage BY <1>3, <2>1 DEF Untouched
  <2> QED BY <1>2, <1>3, <1>4, <2>1, <2>3, <2>4, ItemLeaves
<1> QED BY <1>6, <1>7

LEMMA SendAgainOrder ==
  ASSUME OnceInvariant, OrderInvariant, SendAgain
  PROVE  OrderInvariant'
<1> DEFINE i == page.pending
<1>1. /\ i \in taken /\ op = 0 /\ page' = [page EXCEPT !.pending = 0]
      /\ UNCHANGED <<op, asked, answer, queue, taken, dropped>>
      /\ turns' \in {turns, NewTurn(i)}
  BY DEF SendAgain, stored
<1>2. DOMAIN page' = PageFields /\ page'.sending = page.sending /\ page'.entered = page.entered
  BY <1>1, OrderFacts DEF PageFields
<1> HIDE DEF i
<1>3. OrderTypes' BY <1>1, <1>2, OrderFacts DEF OrderTypes
<1>4. AnswerIsLast' BY <1>1, <1>2 DEF OrderInvariant, AnswerIsLast
<1>5. Sought' = Sought BY <1>1, <1>2 DEF Sought
<1>6. CASE turns' = turns
  <2>1. SameItems BY <1>6 DEF SameItems
  <2> QED BY <1>1, <1>2, <1>3, <1>4, <1>5, <2>1, QueueRests
<1>7. CASE turns' = NewTurn(i)
  <2>1. i \in Items /\ i \notin Untouched BY <1>1 DEF Untouched, OnceInvariant, QueueTypes
  <2> QED BY <1>1, <1>2, <1>3, <1>4, <1>5, <1>7, <2>1, TurnAddedInOrder
<1> QED BY <1>1, <1>6, <1>7

LEMMA OrderInit == Init => OrderInvariant
<1> SUFFICES ASSUME Init PROVE OrderInvariant OBVIOUS
<1>1. queue = << >> /\ asked = {} /\ op = 0 /\ answer = NoAnswer /\ taken = {} /\ dropped = {} BY DEF Init
<1>2. turns = <<[item |-> 0, done |-> FALSE]>> BY DEF Init
<1>3. DOMAIN page = PageFields /\ page.sending = 0 /\ page.entered = 0 BY DEF Init, PageFields
<1>4. answer.to = 0 /\ DOMAIN answer = AnswerFields BY <1>1 DEF NoAnswer, AnswerFields
<1>5. OrderTypes BY <1>1, <1>3, <1>4 DEF OrderTypes
<1>6. DOMAIN queue = {} /\ DOMAIN turns = {1} /\ turns[1].item = 0 /\ 0 \notin Untouched
  BY <1>1, <1>2, ItemNumbers DEF Untouched
<1>7. QueueInOrder /\ BeforeTheQueue /\ FirstInFirstOut
  BY <1>3, <1>6 DEF QueueInOrder, BeforeTheQueue, FirstInFirstOut
<1>8. AsksForHead BY <1>1, <1>3, <1>4, <1>6 DEF AsksForHead, Sought
<1>9. AnswerIsLast BY <1>1, <1>4 DEF AnswerIsLast
<1> QED BY <1>5, <1>7, <1>8, <1>9 DEF OrderInvariant

\* What is entered, asked for and answered follows the order of the queue in every
\* reachable state, as far as the user left the queue alone.
THEOREM OrderInductive == Spec => []OrderInvariant
<1>1. Init => OrderInvariant BY OrderInit
<1>2. OnceInvariant /\ OrderInvariant /\ [Next]_vars => OrderInvariant'
  <2> SUFFICES ASSUME OnceInvariant, OrderInvariant, [Next]_vars PROVE OrderInvariant' OBVIOUS
  <2>1. CASE User
    BY <2>1, PageQuietOrder, EnqueueOrder, CancelOrder, ResolveOrder, SendAgainOrder, RemountOrder DEF User
  <2>2. CASE Arrives BY <2>2, ReceiveOrder, AnswerArrivesOrder, PageQuietOrder DEF Arrives
  <2>3. CASE Server
    BY <2>3, HandleAnsweredOrder, HandleStartOrder, OperationOrder, ServerQuietOrder, OtherStartsOrder DEF
      Server
  <2>4. CASE UNCHANGED vars
    <3>1. UNCHANGED <<turns, queue, taken, dropped, asked, op, results, page, answer>>
      BY <2>4 DEF vars, server, stored
    <3> QED BY <3>1, OrderFacts, QuietStep
  <2> QED BY <2>1, <2>2, <2>3, <2>4, EffectsOrder DEF Next
<1> QED BY <1>1, <1>2, QueueInductive, PTL DEF Spec

\* However its answers are lost and its page is loaded again, a queued message
\* becomes one Turn at most, and the Turns of the items that the user left to the
\* queue come in the order they were entered.
THEOREM OneTurnEachInOrder == Spec => []EachOnceInOrder
<1>1. OnceInvariant /\ OrderInvariant => EachOnceInOrder BY DEF OnceInvariant, OrderInvariant, EachOnceInOrder
<1> QED BY <1>1, QueueInductive, OrderInductive, PTL

----
(* What the page has been told, and what it will have been told: the *)
(* invariant for OneAfterAnother. *)

Event ==
  [kind : {"runtime"}, state : {"idle", "running", "disconnected"}, active : Nat, flag : BOOLEAN]
  \cup [kind : {"turn"}, turn : Nat, done : BOOLEAN]
  \cup [kind : {"gate"}, open : BOOLEAN] \cup {Applied}

TellTypes ==
  /\ wire \in Seq(Event) /\ answer.behind \in 0 .. Len(wire)
  /\ page.state \in {"idle", "running", "disconnected"} /\ page.gate \in BOOLEAN
  /\ page.latest \in DOMAIN turns /\ page.done \in BOOLEAN /\ page.told \subseteq Messages
  /\ DOMAIN barrier = {"prev", "turn", "on"} /\ barrier.on \in BOOLEAN

\* A Turn begins when none goes on: only the last one may.
OnlyLastLives ==
  /\ Live(turns) \subseteq {Len(turns)}
  /\ srv.state = "idle" => Live(turns) = {}
  /\ op # 0 => srv.gate /\ srv.state = "idle"
  /\ srv.active \in {0, Len(turns)}

\* The timeline comes in its order, and a Turn that it ends has ended.
WireInOrder ==
  /\ \A k \in DOMAIN wire : wire[k].kind = "turn" =>
        /\ wire[k].turn \in page.latest .. Len(turns)
        /\ wire[k].done => turns[wire[k].turn].done
  /\ \A j, k \in DOMAIN wire :
        j < k /\ wire[j].kind = "turn" /\ wire[k].kind = "turn" => wire[j].turn <= wire[k].turn
  /\ page.done => turns[page.latest].done

\* The last event of a kind among the first k is the j-th; 0: there is none.
LastOf(events, k, kind, j) ==
  /\ j \in 0 .. k /\ (j # 0 => events[j].kind = kind)
  /\ \A l \in j + 1 .. k : events[l].kind # kind

\* The runtime and the gate that the page has after the first k events.
StateAfter(k, state) ==
  \E j \in 0 .. k : /\ LastOf(wire, k, "runtime", j)
                    /\ state = IF j = 0 THEN page.state ELSE wire[j].state
OpenAfter(k) ==
  \E j \in 0 .. k : /\ LastOf(wire, k, "gate", j)
                    /\ IF j = 0 THEN page.gate ELSE wire[j].open
InStep == StateAfter(Len(wire), srv.state) /\ (srv.gate => OpenAfter(Len(wire)))

\* Turn n is among the first k events; it begins with the events after the first
\* k, the page being idle until then; it begins with the next event.
InWire(n, k) == \E j \in 1 .. k : wire[j] = TurnEvent(n, FALSE)
Coming(n, k) ==
  /\ k + 2 <= Len(wire)
  /\ wire[k + 1] = Runtime("running", n, FALSE) /\ wire[k + 2] = TurnEvent(n, FALSE)
  /\ StateAfter(k, "idle") /\ OpenAfter(k)
Begun(n) == wire # << >> /\ wire[1] = TurnEvent(n, FALSE) /\ page.state = "running" /\ page.gate

\* A message that was started has its Turn, which the page hears of.
StartedHasTurn ==
  /\ \A i \in Messages : results[i].what = "started" =>
        /\ results[i].turn \in DOMAIN turns /\ turns[results[i].turn].item = i
        /\ results[i].turn \in Live(turns) =>
              page.latest = results[i].turn \/ InWire(results[i].turn, Len(wire))
  /\ srv.unsure \in Items => results[srv.unsure].what = "uncertain"
  /\ \A i \in page.told : results[i].what = "started"

\* The answer that names a Turn does not come before the page is idle, or has
\* seen the Turn.
AnswerKnows ==
  answer.what = "started" /\ answer.to \in Messages =>
      /\ results[answer.to] = [what |-> "started", turn |-> answer.turn]
      /\ answer.turn \in Live(turns) =>
            \/ page.latest = answer.turn \/ InWire(answer.turn, answer.behind)
            \/ Coming(answer.turn, answer.behind)
            \/ answer.behind = 0 /\ Begun(answer.turn)

\* Between the answer and the Turn it names the barrier keeps the queue.
ToldIsGuarded ==
  \A n \in Live(turns) : turns[n].item \in page.told =>
      \/ page.latest = n \/ Begun(n)
      \/ /\ Coming(n, 0) /\ page.sending = 0
         /\ queue = << >> \/ (barrier.on /\ barrier.turn = n /\ barrier.prev = page.latest)

SendsAlone == page.sending # 0 => \A n \in Live(turns) : turns[n].item \notin page.told

TellInvariant ==
  /\ TellTypes /\ OnlyLastLives /\ WireInOrder /\ InStep /\ StartedHasTurn
  /\ AnswerKnows /\ ToldIsGuarded /\ SendsAlone

\* The fields of the invariant, for use as facts.
LEMMA TellFacts ==
  ASSUME TellInvariant
  PROVE  /\ wire \in Seq(Event) /\ Len(wire) \in Nat /\ DOMAIN wire = 1 .. Len(wire)
         /\ answer.behind \in 0 .. Len(wire)
         /\ page.state \in {"idle", "running", "disconnected"} /\ page.gate \in BOOLEAN
         /\ page.latest \in DOMAIN turns /\ page.done \in BOOLEAN /\ page.told \subseteq Messages
         /\ DOMAIN barrier = {"prev", "turn", "on"} /\ barrier.on \in BOOLEAN
BY DEF TellInvariant, TellTypes

----
(* The last event of a kind. *)

\* The last event of a kind depends on the events so far and no others.
LEMMA LastKept ==
  ASSUME NEW u, NEW v, NEW k \in Nat, NEW kind, NEW j, LastOf(u, k, kind, j),
         \A l \in 1 .. k : v[l] = u[l]
  PROVE  LastOf(v, k, kind, j) /\ (j # 0 => v[j] = u[j])
BY DEF LastOf

\* What the server sends is an event.
LEMMA EventTypes ==
  /\ \A s \in {"idle", "running", "disconnected"}, n \in Nat, f \in BOOLEAN : Runtime(s, n, f) \in Event
  /\ \A n \in Nat, d \in BOOLEAN : TurnEvent(n, d) \in Event
  /\ \A b \in BOOLEAN : Gate(b) \in Event
  /\ Applied \in Event
BY DEF Event, Runtime, TurnEvent, Gate, Applied

----
(* The page hears nothing, and events are added to the wire. *)

WireGrows ==
  /\ wire' \in Seq(Event) /\ Len(wire) <= Len(wire')
  /\ \A k \in 1 .. Len(wire) : wire'[k] = wire[k]

PageKept ==
  /\ page'.state = page.state /\ page'.gate = page.gate /\ page'.latest = page.latest
  /\ page'.done = page.done /\ page'.told = page.told

\* Where the events of a longer wire come from.
LEMMA Appended ==
  ASSUME TellInvariant, NEW ext \in Seq(Event), wire' = wire \o ext
  PROVE  /\ WireGrows /\ Len(ext) \in Nat /\ Len(wire') = Len(wire) + Len(ext) /\ Len(wire') \in Nat
         /\ \A k \in 1 .. Len(ext) : wire'[Len(wire) + k] = ext[k]
         /\ \A k \in 1 .. Len(wire') : k <= Len(wire) \/ (k - Len(wire) \in 1 .. Len(ext) /\ wire'[k] = ext[k - Len(wire)])
<1>1. wire \in Seq(Event) /\ Len(wire) \in Nat /\ Len(ext) \in Nat BY TellFacts
<1>2. /\ wire \o ext \in Seq(Event) /\ Len(wire \o ext) = Len(wire) + Len(ext)
      /\ \A k \in 1 .. Len(wire) + Len(ext) : (wire \o ext)[k] = IF k <= Len(wire) THEN wire[k] ELSE ext[k - Len(wire)]
  BY <1>1, ConcatProperties
<1>3. WireGrows BY <1>1, <1>2 DEF WireGrows
<1>4. ASSUME NEW k \in 1 .. Len(ext) PROVE wire'[Len(wire) + k] = ext[k]
  <2>1. Len(wire) + k \in 1 .. Len(wire) + Len(ext) /\ ~(Len(wire) + k <= Len(wire)) /\ Len(wire) + k - Len(wire) = k
    BY <1>1
  <2> QED BY <1>2, <2>1
<1>5. ASSUME NEW k \in 1 .. Len(wire'), ~(k <= Len(wire))
      PROVE  k - Len(wire) \in 1 .. Len(ext) /\ wire'[k] = ext[k - Len(wire)]
  BY <1>1, <1>2, <1>5
<1> QED BY <1>1, <1>2, <1>3, <1>4, <1>5

\* The last event of a kind is the last of the new ones, or it was the last before.
LEMMA LastAppended ==
  ASSUME TellInvariant, NEW ext \in Seq(Event), wire' = wire \o ext, NEW kind, NEW i, NEW j,
         j = 0 => LastOf(wire, Len(wire), kind, i), LastOf(ext, Len(ext), kind, j)
  PROVE  IF j = 0 THEN LastOf(wire', Len(wire'), kind, i) /\ (i # 0 => wire'[i] = wire[i])
         ELSE /\ LastOf(wire', Len(wire'), kind, Len(wire) + j)
              /\ wire'[Len(wire) + j] = ext[j] /\ Len(wire) + j # 0
<1> DEFINE n == Len(wire)
           m == Len(ext)
<1>0. /\ n \in Nat /\ m \in Nat /\ Len(wire') = n + m
      /\ \A l \in 1 .. n : wire'[l] = wire[l]
      /\ \A l \in 1 .. m : wire'[n + l] = ext[l]
      /\ \A l \in 1 .. n + m : l <= n \/ (l - n \in 1 .. m /\ wire'[l] = ext[l - n])
  BY TellFacts, Appended DEF WireGrows
<1>1. (j = 0 => LastOf(wire, n, kind, i)) /\ LastOf(ext, m, kind, j) OBVIOUS
<1> HIDE DEF n, m
<1>2. CASE j = 0
  <2>1. /\ i \in 0 .. n + m /\ (i # 0 => wire'[i] = wire[i]) /\ (i # 0 => wire'[i].kind = kind)
        /\ i \in 0 .. n
    BY <1>0, <1>1, <1>2 DEF LastOf
  <2>2. ASSUME NEW l \in i + 1 .. n + m PROVE wire'[l].kind # kind
    <3>0. l \in 1 .. n + m BY <1>0, <2>1
    <3>1. CASE l <= n
      <4>1. l \in i + 1 .. n /\ l \in 1 .. n BY <1>0, <2>1, <3>0, <3>1
      <4> QED BY <1>0, <1>1, <1>2, <4>1 DEF LastOf
    <3>2. CASE ~(l <= n)
      <4>1. l - n \in 1 .. m /\ wire'[l] = ext[l - n] BY <1>0, <3>0, <3>2
      <4>2. l - n \in j + 1 .. m BY <1>0, <1>2, <4>1
      <4> QED BY <1>1, <4>1, <4>2 DEF LastOf
    <3> QED BY <3>1, <3>2
  <2> QED BY <1>0, <1>2, <2>1, <2>2 DEF LastOf
<1>3. CASE j # 0
  <2>1. /\ j \in 1 .. m /\ n + j \in 0 .. n + m /\ n + j # 0
        /\ wire'[n + j] = ext[j] /\ ext[j].kind = kind
    BY <1>0, <1>1, <1>3 DEF LastOf
  <2>2. ASSUME NEW l \in n + j + 1 .. n + m PROVE wire'[l].kind # kind
    <3>0. n \in Nat /\ m \in Nat /\ j \in 1 .. m BY <1>0, <2>1
    <3>1. l \in 1 .. n + m /\ ~(l <= n) /\ l - n \in j + 1 .. m BY <3>0
    <3> QED BY <1>0, <1>1, <3>1 DEF LastOf
  <2> QED BY <1>0, <1>3, <2>1, <2>2 DEF LastOf, n
<1> QED BY <1>2, <1>3 DEF n

\* What the page will have after the events it waits for stays.
LEMMA AfterKept ==
  ASSUME TellInvariant, WireGrows, PageKept
  PROVE  /\ \A k \in 0 .. Len(wire) : \A s : StateAfter(k, s) => StateAfter(k, s)'
         /\ \A k \in 0 .. Len(wire) : OpenAfter(k) => OpenAfter(k)'
         /\ \A k \in 0 .. Len(wire) : \A n : InWire(n, k) => InWire(n, k)'
         /\ \A k \in 0 .. Len(wire) : \A n : Coming(n, k) => Coming(n, k)'
         /\ \A n : Begun(n) => Begun(n)'
<1>1. Len(wire) \in Nat /\ Len(wire') \in Nat BY TellFacts DEF WireGrows
<1>2. ASSUME NEW k \in 0 .. Len(wire) PROVE k \in Nat /\ \A l \in 1 .. k : wire'[l] = wire[l]
  BY <1>1 DEF WireGrows
<1>3. page'.state = page.state /\ page'.gate = page.gate BY DEF PageKept
<1>4. ASSUME NEW k \in 0 .. Len(wire), NEW s, StateAfter(k, s) PROVE StateAfter(k, s)'
  <2>1. PICK j \in 0 .. k : /\ LastOf(wire, k, "runtime", j)
                            /\ s = IF j = 0 THEN page.state ELSE wire[j].state
    BY <1>4 DEF StateAfter
  <2>2. LastOf(wire', k, "runtime", j) /\ (j # 0 => wire'[j] = wire[j]) BY <1>2, <2>1, LastKept
  <2> QED BY <1>3, <2>1, <2>2 DEF StateAfter, LastOf
<1>5. ASSUME NEW k \in 0 .. Len(wire), OpenAfter(k) PROVE OpenAfter(k)'
  <2>1. PICK j \in 0 .. k : /\ LastOf(wire, k, "gate", j)
                            /\ IF j = 0 THEN page.gate ELSE wire[j].open
    BY <1>5 DEF OpenAfter
  <2>2. LastOf(wire', k, "gate", j) /\ (j # 0 => wire'[j] = wire[j]) BY <1>2, <2>1, LastKept
  <2>3. IF j = 0 THEN page'.gate ELSE wire'[j].open BY <1>3, <2>1, <2>2
  <2> QED BY <2>2, <2>3 DEF OpenAfter, LastOf
<1>6. ASSUME NEW k \in 0 .. Len(wire), NEW n, InWire(n, k) PROVE InWire(n, k)'
  BY <1>1, <1>2, <1>6 DEF InWire, TurnEvent
<1>7. ASSUME NEW k \in 0 .. Len(wire), NEW n, Coming(n, k) PROVE Coming(n, k)'
  <2>1. k + 2 <= Len(wire') /\ wire'[k + 1] = wire[k + 1] /\ wire'[k + 2] = wire[k + 2]
    <3>1. k + 2 <= Len(wire) /\ k + 1 \in 1 .. Len(wire) /\ k + 2 \in 1 .. Len(wire) BY <1>1, <1>7 DEF Coming
    <3> QED BY <1>1, <3>1 DEF WireGrows
  <2> QED BY <1>4, <1>5, <1>7, <2>1 DEF Coming, Runtime, TurnEvent
<1>8. ASSUME NEW n, Begun(n) PROVE Begun(n)'
  <2>1. wire' # << >> /\ wire'[1] = wire[1]
    <3>1. Len(wire) # 0 BY <1>8, TellFacts, EmptySeq DEF Begun
    <3>2. Len(wire') # 0 /\ 1 \in 1 .. Len(wire) BY <1>1, <3>1 DEF WireGrows
    <3> QED BY <3>2, EmptySeq DEF WireGrows
  <2> QED BY <1>8, <2>1 DEF Begun, PageKept, TurnEvent
<1> QED BY <1>4, <1>5, <1>6, <1>7, <1>8

----
(* The page hears the next event. *)

\* What receiving the next event leaves of the page and of the wire.
LEMMA NextEvent ==
  ASSUME TellInvariant, OrderInvariant, Receive
  PROVE  /\ 1 \in DOMAIN wire /\ Len(wire) \in Nat \ {0}
         /\ wire' \in Seq(Event) /\ Len(wire') = Len(wire) - 1
         /\ \A k \in 1 .. Len(wire) - 1 : wire'[k] = wire[k + 1]
         /\ page'.state = IF wire[1].kind = "runtime" THEN wire[1].state ELSE page.state
         /\ page'.gate = IF wire[1].kind = "gate" THEN wire[1].open ELSE page.gate
         /\ page'.latest = IF wire[1].kind = "turn" THEN wire[1].turn ELSE page.latest
         /\ page'.done = IF wire[1].kind = "turn" THEN wire[1].done ELSE page.done
         /\ page'.told = page.told /\ page'.sending = page.sending
         /\ answer'.behind = (IF answer.behind = 0 THEN 0 ELSE answer.behind - 1)
         /\ answer'.to = answer.to /\ answer'.what = answer.what /\ answer'.turn = answer.turn
         /\ UNCHANGED <<turns, srv, op, results, queue, barrier>>
<1>1. wire # << >> /\ wire \in Seq(Event) /\ wire' = Tail(wire) BY TellFacts DEF Receive
<1>2. /\ 1 \in DOMAIN wire /\ Len(wire) \in Nat \ {0}
      /\ wire' \in Seq(Event) /\ Len(wire') = Len(wire) - 1
      /\ \A k \in 1 .. Len(wire) - 1 : wire'[k] = wire[k + 1]
  BY <1>1, EmptySeq, HeadTailProperties, LenProperties
<1>3. DOMAIN page = PageFields /\ DOMAIN answer = AnswerFields BY OrderFacts
<1>4. wire[1].kind \in {"runtime", "turn", "gate", "applied"} BY <1>1, <1>2 DEF Event, Applied
<1>5. /\ page'.state = IF wire[1].kind = "runtime" THEN wire[1].state ELSE page.state
      /\ page'.gate = IF wire[1].kind = "gate" THEN wire[1].open ELSE page.gate
      /\ page'.latest = IF wire[1].kind = "turn" THEN wire[1].turn ELSE page.latest
      /\ page'.done = IF wire[1].kind = "turn" THEN wire[1].done ELSE page.done
      /\ page'.told = page.told /\ page'.sending = page.sending
  BY <1>3 DEF Receive, PageFields
<1>6. /\ answer'.behind = (IF answer.behind = 0 THEN 0 ELSE answer.behind - 1)
      /\ answer'.to = answer.to /\ answer'.what = answer.what /\ answer'.turn = answer.turn
  BY <1>3 DEF Receive, AnswerFields
<1> QED BY <1>2, <1>5, <1>6 DEF Receive, server, stored

\* The last event of a kind, once the first of the wire has been received.
LEMMA LastHeard ==
  ASSUME TellInvariant, OrderInvariant, Receive, NEW k \in 1 .. Len(wire), NEW kind, NEW j,
         LastOf(wire, k, kind, j)
  PROVE  IF j = 0 THEN LastOf(wire', k - 1, kind, 0) /\ wire[1].kind # kind
         ELSE /\ LastOf(wire', k - 1, kind, j - 1) /\ (j = 1 => wire[1].kind = kind)
              /\ j # 1 => wire'[j - 1] = wire[j]
<1>0. k \in Nat \ {0} /\ k <= Len(wire) /\ Len(wire) \in Nat /\ \A l \in 1 .. k - 1 : wire'[l] = wire[l + 1]
  <2>1. /\ Len(wire) \in Nat \ {0}
        /\ \A l \in 1 .. Len(wire) - 1 : wire'[l] = wire[l + 1]
    BY NextEvent
  <2>2. \A l \in 1 .. k - 1 : l \in 1 .. Len(wire) - 1 BY <2>1
  <2> QED BY <2>1, <2>2
<1>1. CASE j = 0
  <2>1. wire[1].kind # kind BY <1>0, <1>1 DEF LastOf
  <2>2. ASSUME NEW l \in 0 + 1 .. k - 1 PROVE wire'[l].kind # kind
    <3>1. l \in 1 .. k - 1 /\ l + 1 \in j + 1 .. k BY <1>0, <1>1
    <3> QED BY <1>0, <3>1 DEF LastOf
  <2> QED BY <1>0, <1>1, <2>1, <2>2 DEF LastOf
<1>2. CASE j # 0
  <2>1. j \in 1 .. k /\ j - 1 \in 0 .. k - 1 /\ wire[j].kind = kind BY <1>0, <1>2 DEF LastOf
  <2>2. j # 1 => j - 1 \in 1 .. k - 1 /\ wire'[j - 1] = wire[j]
    <3> SUFFICES ASSUME j # 1 PROVE j - 1 \in 1 .. k - 1 /\ wire'[j - 1] = wire[j] OBVIOUS
    <3>1. j - 1 \in 1 .. k - 1 /\ j - 1 + 1 = j BY <1>0, <2>1
    <3> QED BY <1>0, <3>1
  <2>3. ASSUME NEW l \in j - 1 + 1 .. k - 1 PROVE wire'[l].kind # kind
    <3>1. l \in 1 .. k - 1 /\ l + 1 \in j + 1 .. k BY <1>0, <2>1
    <3> QED BY <1>0, <3>1 DEF LastOf
  <2>4. j - 1 # 0 => wire'[j - 1].kind = kind BY <2>1, <2>2
  <2> QED BY <1>2, <2>1, <2>2, <2>3, <2>4 DEF LastOf
<1> QED BY <1>1, <1>2

\* What was to come after k + 1 events is to come after the k that are left.
LEMMA AfterHeard ==
  ASSUME TellInvariant, OrderInvariant, Receive
  PROVE  /\ \A k \in 1 .. Len(wire) : \A s : StateAfter(k, s) => StateAfter(k - 1, s)'
         /\ \A k \in 1 .. Len(wire) : OpenAfter(k) => OpenAfter(k - 1)'
         /\ \A k \in 1 .. Len(wire) : \A n : InWire(n, k) => page'.latest = n \/ InWire(n, k - 1)'
         /\ \A k \in 1 .. Len(wire) : \A n : Coming(n, k) => Coming(n, k - 1)'
         /\ \A n : Coming(n, 0) => Begun(n)'
         /\ \A n : Begun(n) => page'.latest = n
<1> USE NextEvent
<1>1. ASSUME NEW k \in 1 .. Len(wire), NEW l \in 1 .. k - 1
      PROVE  l + 1 \in 2 .. k /\ l + 1 \in 1 .. k /\ wire'[l] = wire[l + 1]
  <2>1. l \in 1 .. Len(wire) - 1 OBVIOUS
  <2> QED BY <2>1
<1>2. ASSUME NEW k \in 1 .. Len(wire), NEW j \in 2 .. k
      PROVE  j - 1 \in 1 .. k - 1 /\ wire'[j - 1] = wire[j]
  <2>1. j - 1 \in 1 .. Len(wire) - 1 /\ j - 1 + 1 = j OBVIOUS
  <2> QED BY <2>1
<1>3. ASSUME NEW k \in 1 .. Len(wire), NEW s, StateAfter(k, s) PROVE StateAfter(k - 1, s)'
  <2>1. PICK j \in 0 .. k : /\ LastOf(wire, k, "runtime", j)
                            /\ s = IF j = 0 THEN page.state ELSE wire[j].state
    BY <1>3 DEF StateAfter
  <2> DEFINE i == IF j = 0 THEN 0 ELSE j - 1
  <2>2. /\ LastOf(wire', k - 1, "runtime", i)
        /\ j = 0 => wire[1].kind # "runtime"
        /\ j = 1 => wire[1].kind = "runtime"
        /\ j \notin {0, 1} => wire'[j - 1] = wire[j]
    <3>0. LastOf(wire, k, "runtime", j) BY <2>1
    <3>1. IF j = 0 THEN LastOf(wire', k - 1, "runtime", 0) /\ wire[1].kind # "runtime"
          ELSE /\ LastOf(wire', k - 1, "runtime", j - 1) /\ (j = 1 => wire[1].kind = "runtime")
               /\ j # 1 => wire'[j - 1] = wire[j]
      BY <3>0, LastHeard
    <3> QED BY <3>1
  <2>3. s = IF i = 0 THEN page'.state ELSE wire'[i].state BY <2>1, <2>2
  <2>4. i \in 0 .. k - 1 OBVIOUS
  <2> HIDE DEF i
  <2> QED BY <2>2, <2>3, <2>4 DEF StateAfter, LastOf
<1>4. ASSUME NEW k \in 1 .. Len(wire), OpenAfter(k) PROVE OpenAfter(k - 1)'
  <2>1. PICK j \in 0 .. k : /\ LastOf(wire, k, "gate", j)
                            /\ IF j = 0 THEN page.gate ELSE wire[j].open
    BY <1>4 DEF OpenAfter
  <2> DEFINE i == IF j = 0 THEN 0 ELSE j - 1
  <2>2. /\ LastOf(wire', k - 1, "gate", i)
        /\ j = 0 => wire[1].kind # "gate"
        /\ j = 1 => wire[1].kind = "gate"
        /\ j \notin {0, 1} => wire'[j - 1] = wire[j]
    <3>0. LastOf(wire, k, "gate", j) BY <2>1
    <3>1. IF j = 0 THEN LastOf(wire', k - 1, "gate", 0) /\ wire[1].kind # "gate"
          ELSE /\ LastOf(wire', k - 1, "gate", j - 1) /\ (j = 1 => wire[1].kind = "gate")
               /\ j # 1 => wire'[j - 1] = wire[j]
      BY <3>0, LastHeard
    <3> QED BY <3>1
  <2>3. IF i = 0 THEN page'.gate ELSE wire'[i].open
    <3>1. CASE j = 0
      <4>1. page'.gate = page.gate /\ page.gate BY <2>1, <2>2, <3>1
      <4> QED BY <3>1, <4>1
    <3>2. CASE j = 1
      <4>1. page'.gate = wire[1].open /\ wire[1].open BY <2>1, <2>2, <3>2
      <4> QED BY <3>2, <4>1
    <3>3. CASE j \notin {0, 1} BY <2>1, <2>2, <3>3
    <3> QED BY <3>1, <3>2, <3>3
  <2>4. i \in 0 .. k - 1 OBVIOUS
  <2> HIDE DEF i
  <2> QED BY <2>2, <2>3, <2>4 DEF OpenAfter, LastOf
<1>5. ASSUME NEW k \in 1 .. Len(wire), NEW n, InWire(n, k) PROVE page'.latest = n \/ InWire(n, k - 1)'
  <2>1. PICK j \in 1 .. k : wire[j] = TurnEvent(n, FALSE) BY <1>5 DEF InWire
  <2>2. CASE j = 1 BY <2>1, <2>2 DEF TurnEvent
  <2>3. CASE j # 1
    <3>1. j \in 2 .. k /\ j - 1 \in 1 .. k - 1 BY <2>3
    <3>2. wire'[j - 1] = wire[j] BY <1>2, <3>1
    <3> QED BY <2>1, <3>1, <3>2 DEF InWire, TurnEvent
  <2> QED BY <2>2, <2>3
<1>6. ASSUME NEW k \in 1 .. Len(wire), NEW n, Coming(n, k) PROVE Coming(n, k - 1)'
  <2>1. k + 2 <= Len(wire) /\ k \in 1 .. Len(wire) - 1 /\ k + 1 \in 1 .. Len(wire) - 1 /\ k + 1 + 1 = k + 2
    BY <1>6 DEF Coming
  <2>2. wire'[k] = wire[k + 1] /\ wire'[k + 1] = wire[k + 2] BY <2>1
  <2>3. k - 1 + 2 <= Len(wire') /\ k - 1 + 1 = k /\ k - 1 + 2 = k + 1 BY <2>1
  <2> QED BY <1>3, <1>4, <1>6, <2>2, <2>3 DEF Coming, Runtime, TurnEvent
<1>7. ASSUME NEW n, Begun(n) PROVE page'.latest = n BY <1>7 DEF Begun, TurnEvent
<1>8. ASSUME NEW n, Coming(n, 0) PROVE Begun(n)'
  <2>1. /\ Len(wire) >= 2 /\ wire[1] = Runtime("running", n, FALSE) /\ wire[2] = TurnEvent(n, FALSE)
        /\ OpenAfter(0) /\ StateAfter(0, "idle")
    <3>1. 0 + 1 = 1 /\ 0 + 2 = 2 OBVIOUS
    <3> QED BY ONLY <1>8, <3>1, NextEvent, TellFacts DEF Coming
  <2>2. 1 \in 1 .. Len(wire) - 1 /\ wire'[1] = wire[2] /\ Len(wire') # 0
    <3>1. 1 \in 1 .. Len(wire) - 1 /\ 1 + 1 = 2 BY <2>1
    <3> QED BY <3>1
  <2>3. wire' # << >> BY <2>2, EmptySeq
  <2>4. page.gate BY <2>1 DEF OpenAfter, LastOf
  <2>5. page'.state = "running" /\ page'.gate
    <3>1. wire[1].kind = "runtime" /\ wire[1].state = "running" BY <2>1 DEF Runtime
    <3> QED BY <2>4, <3>1
  <2> QED BY <2>1, <2>2, <2>3, <2>5 DEF Begun, TurnEvent
<1> QED BY <1>3, <1>4, <1>5, <1>6, <1>7, <1>8

----
(* Turns end and are added, while the page hears nothing. *)

\* A Turn that is added is not of a message the page was told of.
TurnsGo ==
  /\ turns' \in Seq(Turn) /\ Len(turns') \in Nat /\ DOMAIN turns' = 1 .. Len(turns')
  /\ Len(turns) <= Len(turns')
  /\ \A n \in DOMAIN turns : /\ n \in DOMAIN turns' /\ turns'[n].item = turns[n].item
                             /\ turns[n].done => turns'[n].done
  /\ \A n \in DOMAIN turns' : n \in DOMAIN turns \/ turns'[n].item \notin page.told

\* A Turn lives until it is done.
LEMMA LiveTurns == \A ts, n : n \in Live(ts) <=> n \in DOMAIN ts /\ ~ts[n].done
BY DEF Live

\* A lost App Server ends every Turn.
LEMMA AllDoneEnds ==
  ASSUME NEW ts \in Seq(Turn)
  PROVE  Live(AllDone(ts)) = {} /\ \A n \in DOMAIN ts : AllDone(ts)[n].done
<1>1. ASSUME NEW n \in DOMAIN ts PROVE AllDone(ts)[n].done
  <2>1. ts[n] \in Turn OBVIOUS
  <2>2. [ts[n] EXCEPT !.done = TRUE].done BY <2>1 DEF Turn
  <2> QED BY <2>2 DEF AllDone
<1>2. DOMAIN AllDone(ts) = DOMAIN ts BY DEF AllDone
<1> QED BY <1>1, <1>2 DEF Live

\* Turns that stay as they are keep what is known of them.
LEMMA TurnsRest ==
  ASSUME OnceInvariant, turns' \in {turns, AllDone(turns)}
  PROVE  TurnsGo /\ Len(turns') = Len(turns) /\ Live(turns') \subseteq Live(turns)
<1>1. turns \in Seq(Turn) /\ Len(turns) \in Nat /\ DOMAIN turns = 1 .. Len(turns) BY Typed
<1>2. CASE turns' = turns BY <1>1, <1>2 DEF TurnsGo
<1>3. CASE turns' = AllDone(turns)
  <2>1. \A n \in DOMAIN turns : turns'[n].done BY <1>1, <1>3, AllDoneEnds
  <2>2. /\ turns' \in Seq(Turn) /\ Len(turns') = Len(turns) /\ DOMAIN turns' = DOMAIN turns
        /\ \A n \in DOMAIN turns : turns'[n].item = turns[n].item
    BY <1>1, <1>3, AllDoneKeeps
  <2>3. Live(turns') = {} BY <1>1, <1>3, AllDoneEnds
  <2> QED BY <1>1, <2>1, <2>2, <2>3 DEF TurnsGo
<1> QED BY <1>2, <1>3

\* A new Turn is the last, and the only one that lives.
LEMMA TurnsNew ==
  ASSUME OnceInvariant, Live(turns) = {}, NEW i \in (Items \cup {0}) \ page.told,
         turns' \in {NewTurn(i), AllDone(NewTurn(i))}
  PROVE  /\ TurnsGo /\ Len(turns') = Len(turns) + 1 /\ Live(turns') \subseteq {Len(turns')}
         /\ turns'[Len(turns')].item = i
<1>1. turns \in Seq(Turn) /\ Len(turns) \in Nat /\ DOMAIN turns = 1 .. Len(turns) BY Typed
<1>2. /\ NewTurn(i) \in Seq(Turn) /\ Len(NewTurn(i)) = Len(turns) + 1
      /\ DOMAIN NewTurn(i) = DOMAIN turns \cup {Len(turns) + 1}
      /\ \A n \in DOMAIN turns : NewTurn(i)[n] = turns[n]
      /\ NewTurn(i)[Len(turns) + 1].item = i
  <2>1. \A n \in DOMAIN turns : NewTurn(i)[n] = turns[n] BY <1>1 DEF NewTurn
  <2> QED BY <1>1, <2>1, NewTurnAdds
<1>3. \A n \in DOMAIN turns : turns[n].done BY LiveTurns
<1>4. CASE turns' = NewTurn(i)
  <2>1. TurnsGo BY <1>1, <1>2, <1>4 DEF TurnsGo
  <2>2. Live(turns') \subseteq {Len(turns')} BY <1>2, <1>3, <1>4, LiveTurns
  <2> QED BY <1>2, <1>4, <2>1, <2>2
<1>5. CASE turns' = AllDone(NewTurn(i))
  <2>1. /\ turns' \in Seq(Turn) /\ Len(turns') = Len(turns) + 1 /\ DOMAIN turns' = DOMAIN NewTurn(i)
        /\ \A n \in DOMAIN turns' : turns'[n].item = NewTurn(i)[n].item
    BY <1>2, <1>5, AllDoneKeeps
  <2>2. \A n \in DOMAIN turns' : turns'[n].done BY <1>2, <1>5, <2>1, AllDoneEnds
  <2>3. TurnsGo BY <1>1, <1>2, <2>1, <2>2 DEF TurnsGo
  <2>4. Live(turns') = {} BY <1>2, <1>5, AllDoneEnds
  <2> QED BY <1>1, <1>2, <2>1, <2>3, <2>4
<1> QED BY <1>4, <1>5

\* What the server knows was started stays so.
StartedKept == \A i \in Messages : results[i].what = "started" => results'[i] = results[i]

\* The answer, to i, that names Turn n and has k events before it.
LEMMA AnswerOf ==
  ASSUME NEW i, NEW n, NEW k, answer'.to = i, answer'.turn = n, answer'.behind = k,
         answer'.what = "started" /\ i \in Messages =>
             /\ results'[i] = [what |-> "started", turn |-> n]
             /\ n \in Live(turns') =>
                   page'.latest = n \/ InWire(n, k)' \/ Coming(n, k)' \/ (k = 0 /\ Begun(n)')
  PROVE  AnswerKnows'
BY DEF AnswerKnows, InWire, Coming, StateAfter, OpenAfter, Begun

\* An answer keeps its place before the events that are added behind it.
LEMMA AnswerKept ==
  ASSUME OnceInvariant, TellInvariant, TurnsGo, WireGrows, PageKept, StartedKept, answer' = answer
  PROVE  AnswerKnows'
<1> SUFFICES ASSUME NEW i, NEW n, NEW k, i = answer.to, n = answer.turn, k = answer.behind,
                    answer.what = "started", i \in Messages
             PROVE  /\ results'[i] = [what |-> "started", turn |-> n]
                    /\ n \in Live(turns') =>
                          page'.latest = n \/ InWire(n, k)' \/ Coming(n, k)' \/ (k = 0 /\ Begun(n)')
  BY AnswerOf
<1>1. /\ results[i] = [what |-> "started", turn |-> n]
      /\ n \in Live(turns) => page.latest = n \/ InWire(n, k) \/ Coming(n, k) \/ (k = 0 /\ Begun(n))
  BY DEF TellInvariant, AnswerKnows
<1>2. results'[i] = results[i] BY <1>1 DEF StartedKept
<1>3. n \in DOMAIN turns BY <1>1 DEF TellInvariant, StartedHasTurn
<1>4. n \in Live(turns') => n \in Live(turns) BY <1>3, LiveTurns DEF TurnsGo
<1>5. k \in 0 .. Len(wire) BY TellFacts
<1>6. page'.latest = page.latest BY DEF PageKept
<1> QED BY <1>1, <1>2, <1>4, <1>5, <1>6, AfterKept

\* The barrier goes on guarding while the page hears nothing.
LEMMA GuardKept ==
  ASSUME TellInvariant, TurnsGo, WireGrows, PageKept, page'.sending = page.sending,
         queue' = << >> \/ (barrier' = barrier /\ (queue = << >> => queue' = << >>))
  PROVE  ToldIsGuarded' /\ SendsAlone'
<1>1. \A n \in Live(turns') : turns'[n].item \in page'.told =>
         n \in Live(turns) /\ turns[n].item \in page.told
  BY LiveTurns DEF TurnsGo, PageKept
<1>2. SendsAlone' BY <1>1 DEF TellInvariant, SendsAlone
<1>3. ToldIsGuarded'
  <2> SUFFICES ASSUME NEW n \in Live(turns'), turns'[n].item \in page'.told
               PROVE  \/ page'.latest = n \/ Begun(n)'
                      \/ /\ Coming(n, 0)' /\ page'.sending = 0
                         /\ queue' = << >> \/ (barrier'.on /\ barrier'.turn = n /\ barrier'.prev = page'.latest)
    BY DEF ToldIsGuarded
  <2>1. \/ page.latest = n \/ Begun(n)
        \/ /\ Coming(n, 0) /\ page.sending = 0
           /\ queue = << >> \/ (barrier.on /\ barrier.turn = n /\ barrier.prev = page.latest)
    BY <1>1 DEF TellInvariant, ToldIsGuarded
  <2>2. (Begun(n) => Begun(n)') /\ (Coming(n, 0) => Coming(n, 0)') BY AfterKept, TellFacts
  <2>3. page'.latest = page.latest BY DEF PageKept
  <2> QED BY <2>1, <2>2, <2>3
<1> QED BY <1>2, <1>3

\* The events that are added tell of the last Turn only.
LEMMA TimelineKept ==
  ASSUME OnceInvariant, TellInvariant, TurnsGo, PageKept, NEW ext \in Seq(Event), wire' = wire \o ext,
         \A k \in 1 .. Len(ext) : ext[k].kind = "turn" =>
             ext[k].turn = Len(turns') /\ (ext[k].done => turns'[Len(turns')].done),
         \A j, k \in 1 .. Len(ext) : ext[j].kind = "turn" /\ ext[k].kind = "turn" => j = k
  PROVE  WireInOrder'
<1>1. /\ Len(wire) \in Nat /\ DOMAIN wire = 1 .. Len(wire) /\ page.latest \in DOMAIN turns
      /\ Len(ext) \in Nat /\ Len(wire') = Len(wire) + Len(ext) /\ DOMAIN wire' = 1 .. Len(wire')
      /\ \A k \in 1 .. Len(wire) : wire'[k] = wire[k]
      /\ \A k \in 1 .. Len(wire') :
            k <= Len(wire) \/ (k - Len(wire) \in 1 .. Len(ext) /\ wire'[k] = ext[k - Len(wire)])
  BY TellFacts, Appended DEF WireGrows
<1>2. /\ Len(turns') \in Nat /\ Len(turns) \in Nat /\ Len(turns) <= Len(turns')
      /\ DOMAIN turns = 1 .. Len(turns)
      /\ \A n \in DOMAIN turns : n \in 1 .. Len(turns') /\ (turns[n].done => turns'[n].done)
  BY Typed DEF TurnsGo
<1>3. page'.latest = page.latest /\ page'.done = page.done BY DEF PageKept
<1>4. \A k \in DOMAIN wire : wire[k].kind = "turn" =>
         /\ wire[k].turn \in page.latest .. Len(turns) /\ wire[k].turn \in DOMAIN turns
         /\ wire[k].done => turns[wire[k].turn].done
  BY <1>1, <1>2 DEF TellInvariant, WireInOrder
<1>5. ASSUME NEW k \in DOMAIN wire', wire'[k].kind = "turn"
      PROVE  /\ wire'[k].turn \in page'.latest .. Len(turns')
             /\ wire'[k].done => turns'[wire'[k].turn].done
  <2>1. CASE k <= Len(wire)
    <3>1. k \in DOMAIN wire /\ wire'[k] = wire[k] BY <1>1, <2>1
    <3>2. wire[k].turn \in page.latest .. Len(turns) /\ wire[k].turn \in DOMAIN turns BY <1>4, <1>5, <3>1
    <3> QED BY <1>2, <1>3, <1>4, <1>5, <3>1, <3>2
  <2>2. CASE ~(k <= Len(wire))
    <3>1. k - Len(wire) \in 1 .. Len(ext) /\ wire'[k] = ext[k - Len(wire)] BY <1>1, <2>2
    <3>2. wire'[k].turn = Len(turns') /\ (wire'[k].done => turns'[Len(turns')].done) BY <1>5, <3>1
    <3> QED BY <1>1, <1>2, <1>3, <3>2
  <2> QED BY <2>1, <2>2
<1>6. ASSUME NEW j \in DOMAIN wire', NEW k \in DOMAIN wire', j < k,
             wire'[j].kind = "turn", wire'[k].kind = "turn"
      PROVE  wire'[j].turn <= wire'[k].turn
  <2>1. CASE k <= Len(wire)
    <3>1. k \in DOMAIN wire /\ j \in DOMAIN wire /\ wire'[k] = wire[k] /\ wire'[j] = wire[j] BY <1>1, <1>6, <2>1
    <3> QED BY <1>6, <3>1 DEF TellInvariant, WireInOrder
  <2>2. CASE ~(k <= Len(wire))
    <3>1. k - Len(wire) \in 1 .. Len(ext) /\ wire'[k] = ext[k - Len(wire)] BY <1>1, <2>2
    <3>2. wire'[k].turn = Len(turns') BY <1>6, <3>1
    <3>3. wire'[j].turn \in page'.latest .. Len(turns') BY <1>5, <1>6
    <3> QED BY <1>1, <1>2, <1>3, <3>2, <3>3
  <2> QED BY <2>1, <2>2
<1>7. page'.done => turns'[page'.latest].done
  <2>1. page.done => turns[page.latest].done BY DEF TellInvariant, WireInOrder
  <2> QED BY <1>1, <1>2, <1>3, <2>1
<1> QED BY <1>5, <1>6, <1>7 DEF WireInOrder

\* The runtime and the gate that are added last, or were before, are the server's.
LEMMA InStepKept ==
  ASSUME TellInvariant, PageKept, NEW ext \in Seq(Event), wire' = wire \o ext,
         \E j \in 0 .. Len(ext) : /\ LastOf(ext, Len(ext), "runtime", j)
                                  /\ srv'.state = IF j = 0 THEN srv.state ELSE ext[j].state,
         srv'.gate => \E j \in 0 .. Len(ext) : /\ LastOf(ext, Len(ext), "gate", j)
                                               /\ IF j = 0 THEN srv.gate ELSE ext[j].open
  PROVE  InStep'
<1>1. /\ Len(wire) \in Nat /\ Len(ext) \in Nat /\ Len(wire') \in Nat
      /\ \A i \in 0 .. Len(wire) : i \in 0 .. Len(wire')
      /\ \A j \in 0 .. Len(ext) : Len(wire) + j \in 0 .. Len(wire')
  <2>1. Len(wire) \in Nat /\ Len(ext) \in Nat /\ Len(wire') = Len(wire) + Len(ext) BY TellFacts, Appended
  <2> QED BY <2>1
<1>2. page'.state = page.state /\ page'.gate = page.gate BY DEF PageKept
<1>4. \E i \in 0 .. Len(wire') : /\ LastOf(wire', Len(wire'), "runtime", i)
                                 /\ srv'.state = IF i = 0 THEN page'.state ELSE wire'[i].state
  <2>1. PICK j \in 0 .. Len(ext) : /\ LastOf(ext, Len(ext), "runtime", j)
                                   /\ srv'.state = IF j = 0 THEN srv.state ELSE ext[j].state
    OBVIOUS
  <2>2. PICK i \in 0 .. Len(wire) : /\ LastOf(wire, Len(wire), "runtime", i)
                                    /\ srv.state = IF i = 0 THEN page.state ELSE wire[i].state
    BY DEF TellInvariant, InStep, StateAfter
  <2>3. IF j = 0 THEN LastOf(wire', Len(wire'), "runtime", i) /\ (i # 0 => wire'[i] = wire[i])
        ELSE /\ LastOf(wire', Len(wire'), "runtime", Len(wire) + j)
             /\ wire'[Len(wire) + j] = ext[j] /\ Len(wire) + j # 0
    BY <2>1, <2>2, LastAppended
  <2>4. i \in 0 .. Len(wire') /\ Len(wire) + j \in 0 .. Len(wire') BY <1>1
  <2> QED BY <1>2, <2>1, <2>2, <2>3, <2>4
<1>5. ASSUME srv'.gate
      PROVE  \E i \in 0 .. Len(wire') : /\ LastOf(wire', Len(wire'), "gate", i)
                                        /\ IF i = 0 THEN page'.gate ELSE wire'[i].open
  <2>1. PICK j \in 0 .. Len(ext) : /\ LastOf(ext, Len(ext), "gate", j)
                                   /\ IF j = 0 THEN srv.gate ELSE ext[j].open
    BY <1>5
  <2>0. LastOf(ext, Len(ext), "gate", j) BY <2>1
  <2>2. CASE j = 0
    <3>1. PICK i \in 0 .. Len(wire) : /\ LastOf(wire, Len(wire), "gate", i)
                                      /\ IF i = 0 THEN page.gate ELSE wire[i].open
      BY <2>1, <2>2 DEF TellInvariant, InStep, OpenAfter
    <3>2. LastOf(wire', Len(wire'), "gate", i) /\ (i # 0 => wire'[i] = wire[i])
      <4>1. LastOf(wire, Len(wire), "gate", i) BY <3>1
      <4> QED BY <2>0, <2>2, <4>1, LastAppended
    <3>3. i \in 0 .. Len(wire') /\ IF i = 0 THEN page'.gate ELSE wire'[i].open BY <1>1, <1>2, <3>1, <3>2
    <3> QED BY <3>2, <3>3
  <2>3. CASE j # 0
    <3>1. /\ LastOf(wire', Len(wire'), "gate", Len(wire) + j)
          /\ wire'[Len(wire) + j] = ext[j] /\ Len(wire) + j # 0
      BY <2>0, <2>3, LastAppended
    <3>2. Len(wire) + j \in 0 .. Len(wire') /\ ext[j].open BY <1>1, <2>1, <2>3
    <3>3. IF Len(wire) + j = 0 THEN page'.gate ELSE wire'[Len(wire) + j].open BY <3>1, <3>2
    <3> QED BY <3>1, <3>2, <3>3
  <2> QED BY <2>2, <2>3
<1> QED BY <1>4, <1>5 DEF InStep, StateAfter, OpenAfter

\* A message that is started from now on has the Turn that is added.
LEMMA StartedStays ==
  ASSUME OnceInvariant, TellInvariant, TurnsGo, WireGrows, PageKept, StartedKept,
         \A i \in Messages : results'[i].what = "started" =>
             \/ results'[i] = results[i]
             \/ /\ results'[i].turn = Len(turns') /\ Len(turns') # 0 /\ turns'[Len(turns')].item = i
                /\ \E k \in 1 .. Len(wire') : wire'[k] = TurnEvent(Len(turns'), FALSE),
         srv'.unsure \in Items => results'[srv'.unsure].what = "uncertain"
  PROVE  StartedHasTurn'
<1> SUFFICES ASSUME NEW i \in Messages, NEW n, n = results'[i].turn, results'[i].what = "started"
             PROVE  /\ n \in DOMAIN turns' /\ turns'[n].item = i
                    /\ n \in Live(turns') => page'.latest = n \/ \E k \in 1 .. Len(wire') : wire'[k] = TurnEvent(n, FALSE)
  <2>1. \A i \in page'.told : results'[i].what = "started"
    BY TellFacts DEF PageKept, StartedKept, TellInvariant, StartedHasTurn
  <2> QED BY <2>1 DEF StartedHasTurn, InWire, TurnEvent
<1>1. CASE results'[i] = results[i]
  <2>1. /\ n \in DOMAIN turns /\ turns[n].item = i
        /\ n \in Live(turns) => page.latest = n \/ InWire(n, Len(wire))
    BY <1>1 DEF TellInvariant, StartedHasTurn
  <2>2. /\ n \in DOMAIN turns' /\ turns'[n].item = i /\ (n \in Live(turns') => n \in Live(turns))
        /\ page'.latest = page.latest
    BY <2>1, LiveTurns DEF TurnsGo, PageKept
  <2>3. InWire(n, Len(wire)) => \E k \in 1 .. Len(wire') : wire'[k] = TurnEvent(n, FALSE)
    <3> SUFFICES ASSUME NEW k \in 1 .. Len(wire), wire[k] = TurnEvent(n, FALSE)
                 PROVE  \E j \in 1 .. Len(wire') : wire'[j] = TurnEvent(n, FALSE)
      BY DEF InWire
    <3>1. Len(wire) \in Nat /\ Len(wire') \in Nat BY TellFacts DEF WireGrows
    <3>2. Len(wire) <= Len(wire') /\ wire'[k] = wire[k] BY DEF WireGrows
    <3>3. k \in 1 .. Len(wire') BY <3>1, <3>2
    <3> QED BY <3>2, <3>3
  <2> QED BY <2>1, <2>2, <2>3
<1>2. CASE /\ n = Len(turns') /\ Len(turns') # 0 /\ turns'[Len(turns')].item = i
           /\ \E k \in 1 .. Len(wire') : wire'[k] = TurnEvent(Len(turns'), FALSE)
  <2>1. Len(turns') \in DOMAIN turns' BY <1>2 DEF TurnsGo
  <2> QED BY <1>2, <2>1
<1> QED BY <1>1, <1>2

----
(* What the server tells. *)

\* The events tell of the last Turn only, and leave the server's runtime and gate.
Tells(ext) ==
  /\ ext \in Seq(Event) /\ wire' = wire \o ext
  /\ \A k \in 1 .. Len(ext) : ext[k].kind = "turn" =>
        ext[k].turn = Len(turns') /\ (ext[k].done => turns'[Len(turns')].done)
  /\ \A j, k \in 1 .. Len(ext) : ext[j].kind = "turn" /\ ext[k].kind = "turn" => j = k
  /\ \E j \in 0 .. Len(ext) : /\ LastOf(ext, Len(ext), "runtime", j)
                              /\ srv'.state = IF j = 0 THEN srv.state ELSE ext[j].state
  /\ srv'.gate => \E j \in 0 .. Len(ext) : /\ LastOf(ext, Len(ext), "gate", j)
                                           /\ IF j = 0 THEN srv.gate ELSE ext[j].open

\* No event, and a runtime and a gate as before, are in step.
LEMMA TellsNothing ==
  ASSUME wire \in Seq(Event), wire' = wire, srv'.state = srv.state, srv'.gate = srv.gate
  PROVE  Tells(<< >>)
<1>1. wire' = wire \o << >> /\ << >> \in Seq(Event) /\ Len(<< >>) = 0 BY ConcatEmptySeq, EmptySeq
<1> DEFINE e == << >>
<1>2. LastOf(e, 0, "runtime", 0) /\ LastOf(e, 0, "gate", 0) /\ 0 \in 0 .. 0 BY DEF LastOf
<1> HIDE DEF e
<1>3. e = << >> BY DEF e
<1> QED BY <1>1, <1>2, <1>3 DEF Tells

\* A runtime that is sent, and what may be sent with it, are in step with it.
LEMMA TellsRuntime ==
  ASSUME NEW s \in {"idle", "running", "disconnected"}, NEW n \in Nat, NEW f \in BOOLEAN,
         srv'.state = s
  PROVE  /\ wire' = wire \o <<Runtime(s, n, f)>> /\ srv'.gate = srv.gate => Tells(<<Runtime(s, n, f)>>)
         /\ wire' = wire \o <<Runtime(s, n, f), Applied>> /\ srv'.gate = srv.gate =>
              Tells(<<Runtime(s, n, f), Applied>>)
         /\ \A b \in BOOLEAN : wire' = wire \o <<Runtime(s, n, f), Gate(b)>> /\ srv'.gate = b =>
              Tells(<<Runtime(s, n, f), Gate(b)>>)
         /\ wire' = wire \o <<Runtime(s, n, f), Applied, Gate(TRUE)>> /\ srv'.gate =>
              Tells(<<Runtime(s, n, f), Applied, Gate(TRUE)>>)
         /\ \A d \in BOOLEAN :
              /\ wire' = wire \o <<Runtime(s, n, f), TurnEvent(Len(turns'), d)>>
              /\ Len(turns') \in Nat /\ srv'.gate = srv.gate
              /\ d => turns'[Len(turns')].done
              => Tells(<<Runtime(s, n, f), TurnEvent(Len(turns'), d)>>)
<1> DEFINE r == Runtime(s, n, f)
<1>1. r \in Event /\ r.kind = "runtime" /\ r.state = s BY DEF Runtime, Event
<1>2. Applied \in Event /\ Applied.kind = "applied" BY DEF Applied, Event
<1>3. \A b \in BOOLEAN : Gate(b) \in Event /\ Gate(b).kind = "gate" /\ Gate(b).open = b BY DEF Gate, Event
<1>4. \A t \in Nat, d \in BOOLEAN :
         /\ TurnEvent(t, d) \in Event /\ TurnEvent(t, d).kind = "turn"
         /\ TurnEvent(t, d).turn = t /\ TurnEvent(t, d).done = d
  BY DEF TurnEvent, Event
<1> HIDE DEF r
<1>5. ASSUME wire' = wire \o <<r>>, srv'.gate = srv.gate PROVE Tells(<<r>>)
  <2> DEFINE e == <<r>>
  <2>1. e \in Seq(Event) /\ Len(e) = 1 /\ e[1] = r BY <1>1
  <2> HIDE DEF e
  <2>2. LastOf(e, 1, "runtime", 1) /\ LastOf(e, 1, "gate", 0) BY <1>1, <2>1 DEF LastOf
  <2>3. wire' = wire \o e BY <1>5 DEF e
  <2>4. Tells(e) BY <1>1, <1>5, <2>1, <2>2, <2>3 DEF Tells
  <2> QED BY <2>4 DEF e
<1>6. ASSUME wire' = wire \o <<r, Applied>>, srv'.gate = srv.gate PROVE Tells(<<r, Applied>>)
  <2> DEFINE e == <<r, Applied>>
  <2>1. e \in Seq(Event) /\ Len(e) = 2 /\ e[1] = r /\ e[2] = Applied BY <1>1, <1>2
  <2> HIDE DEF e
  <2>2. LastOf(e, 2, "runtime", 1) /\ LastOf(e, 2, "gate", 0) BY <1>1, <1>2, <2>1 DEF LastOf
  <2>3. wire' = wire \o e BY <1>6 DEF e
  <2>4. Tells(e) BY <1>1, <1>2, <1>6, <2>1, <2>2, <2>3 DEF Tells
  <2> QED BY <2>4 DEF e
<1>7. ASSUME NEW b \in BOOLEAN, wire' = wire \o <<r, Gate(b)>>, srv'.gate = b PROVE Tells(<<r, Gate(b)>>)
  <2> DEFINE e == <<r, Gate(b)>>
  <2>1. e \in Seq(Event) /\ Len(e) = 2 /\ e[1] = r /\ e[2] = Gate(b) BY <1>1, <1>3
  <2> HIDE DEF e
  <2>2. LastOf(e, 2, "runtime", 1) /\ LastOf(e, 2, "gate", 2) BY <1>1, <1>3, <2>1 DEF LastOf
  <2>3. wire' = wire \o e BY <1>7 DEF e
  <2>4. srv'.gate => e[2].open BY <1>3, <1>7, <2>1
  <2>5. Tells(e) BY <1>1, <1>3, <2>1, <2>2, <2>3, <2>4 DEF Tells
  <2> QED BY <2>5 DEF e
<1>8. ASSUME wire' = wire \o <<r, Applied, Gate(TRUE)>>, srv'.gate PROVE Tells(<<r, Applied, Gate(TRUE)>>)
  <2> DEFINE a == Applied
             g == Gate(TRUE)
             e == <<r, a, g>>
  <2>0. a \in Event /\ a.kind = "applied" /\ g \in Event /\ g.kind = "gate" /\ g.open BY <1>2, <1>3
  <2> HIDE DEF a, g
  <2>1. e \in Seq(Event) /\ Len(e) = 3 /\ e[1] = r /\ e[2] = a /\ e[3] = g BY <1>1, <2>0
  <2> HIDE DEF e
  <2>2. LastOf(e, 3, "runtime", 1)
    <3>1. \A l \in 1 + 1 .. 3 : l = 2 \/ l = 3 OBVIOUS
    <3> QED BY <1>1, <2>0, <2>1, <3>1 DEF LastOf
  <2>3. LastOf(e, 3, "gate", 3) BY <2>0, <2>1 DEF LastOf
  <2>4. wire' = wire \o e BY <1>8 DEF e, a, g
  <2>5. \A k \in 1 .. 3 : e[k].kind # "turn"
    <3>1. \A l \in 1 .. 3 : l = 1 \/ l = 2 \/ l = 3 OBVIOUS
    <3> QED BY <1>1, <2>0, <2>1, <3>1
  <2>6. \E j \in 0 .. 3 : LastOf(e, 3, "runtime", j) /\ srv'.state = IF j = 0 THEN srv.state ELSE e[j].state
    BY <1>1, <2>1, <2>2
  <2>7. \E j \in 0 .. 3 : LastOf(e, 3, "gate", j) /\ IF j = 0 THEN srv.gate ELSE e[j].open
    <3>1. 3 \in 0 .. 3 /\ IF 3 = 0 THEN srv.gate ELSE e[3].open BY <2>0, <2>1
    <3> QED BY <2>3, <3>1
  <2>8. Tells(e) BY <2>1, <2>4, <2>5, <2>6, <2>7 DEF Tells
  <2> QED BY <2>8 DEF e, a, g
<1>9. ASSUME NEW d \in BOOLEAN, wire' = wire \o <<r, TurnEvent(Len(turns'), d)>>, Len(turns') \in Nat,
             srv'.gate = srv.gate, d => turns'[Len(turns')].done
      PROVE  Tells(<<r, TurnEvent(Len(turns'), d)>>)
  <2> DEFINE t == TurnEvent(Len(turns'), d)
             e == <<r, t>>
  <2>0. t \in Event /\ t.kind = "turn" /\ t.turn = Len(turns') /\ t.done = d BY <1>4, <1>9
  <2> HIDE DEF t
  <2>1. e \in Seq(Event) /\ Len(e) = 2 /\ e[1] = r /\ e[2] = t BY <1>1, <2>0
  <2> HIDE DEF e
  <2>2. LastOf(e, 2, "runtime", 1) /\ LastOf(e, 2, "gate", 0) BY <1>1, <2>0, <2>1 DEF LastOf
  <2>3. wire' = wire \o e BY <1>9 DEF e, t
  <2>4. Tells(e) BY <1>1, <1>9, <2>0, <2>1, <2>2, <2>3 DEF Tells
  <2> QED BY <2>4 DEF e, t
<1> QED BY <1>5, <1>6, <1>7, <1>8, <1>9 DEF r

\* So is a gate that closes.
LEMMA TellsClosed ==
  ASSUME srv'.state = srv.state, ~srv'.gate, wire' = wire \o <<Gate(FALSE)>>
  PROVE  Tells(<<Gate(FALSE)>>)
<1> DEFINE g == Gate(FALSE)
           e == <<g>>
<1>1. g \in Event /\ g.kind = "gate" BY DEF Gate, Event
<1> HIDE DEF g
<1>2. e \in Seq(Event) /\ Len(e) = 1 /\ e[1] = g BY <1>1
<1>3. wire' = wire \o e BY DEF g
<1> HIDE DEF e
<1>4. LastOf(e, 1, "runtime", 0) BY <1>1, <1>2 DEF LastOf
<1>5. \E j \in 0 .. 1 : LastOf(e, 1, "runtime", j) /\ srv'.state = IF j = 0 THEN srv.state ELSE e[j].state
  BY <1>4
<1>6. \A k \in 1 .. 1 : e[k].kind # "turn" BY <1>1, <1>2
<1>7. Tells(e) BY <1>2, <1>3, <1>5, <1>6 DEF Tells
<1> QED BY <1>7 DEF e, g

\* A step of which the page hears nothing, its answer apart.
LEMMA Unheard ==
  ASSUME OnceInvariant, TellInvariant, TurnsGo, PageKept, page'.sending = page.sending,
         NEW ext, Tells(ext), StartedKept,
         \A i \in Messages : results'[i].what = "started" =>
             \/ results'[i] = results[i]
             \/ /\ results'[i].turn = Len(turns') /\ Len(turns') # 0 /\ turns'[Len(turns')].item = i
                /\ \E k \in 1 .. Len(ext) : ext[k] = TurnEvent(Len(turns'), FALSE),
         srv'.unsure \in Items => results'[srv'.unsure].what = "uncertain",
         queue' = << >> \/ (barrier' = barrier /\ (queue = << >> => queue' = << >>)),
         DOMAIN barrier' = {"prev", "turn", "on"}, barrier'.on \in BOOLEAN,
         OnlyLastLives', answer' = answer \/ (AnswerKnows' /\ answer'.behind \in 0 .. Len(wire'))
  PROVE  TellInvariant'
<1>1. ext \in Seq(Event) /\ wire' = wire \o ext BY DEF Tells
<1>2. /\ WireGrows /\ Len(ext) \in Nat /\ Len(wire') = Len(wire) + Len(ext) /\ Len(wire') \in Nat
      /\ \A k \in 1 .. Len(ext) : wire'[Len(wire) + k] = ext[k]
  BY <1>1, Appended
<1>3. TellTypes'
  <2>1. wire' \in Seq(Event) BY <1>2 DEF WireGrows
  <2>2. answer'.behind \in 0 .. Len(wire') BY <1>2, TellFacts
  <2>3. page'.latest \in DOMAIN turns' BY TellFacts DEF PageKept, TurnsGo
  <2> QED BY <2>1, <2>2, <2>3, TellFacts DEF TellTypes, PageKept
<1>4. WireInOrder' BY <1>1, TimelineKept DEF Tells
<1>5. InStep' BY <1>1, InStepKept DEF Tells
<1>6. StartedHasTurn'
  <2>1. ASSUME NEW k \in 1 .. Len(ext), ext[k] = TurnEvent(Len(turns'), FALSE)
        PROVE  \E l \in 1 .. Len(wire') : wire'[l] = TurnEvent(Len(turns'), FALSE)
    <3>1. Len(wire) \in Nat BY TellFacts
    <3>2. Len(wire) + k \in 1 .. Len(wire') /\ wire'[Len(wire) + k] = ext[k] BY <1>2, <3>1
    <3> QED BY <2>1, <3>2
  <2> QED BY <1>2, <2>1, StartedStays
<1>7. AnswerKnows' BY <1>2, AnswerKept
<1>8. ToldIsGuarded' /\ SendsAlone' BY <1>2, GuardKept
<1> QED BY <1>3, <1>4, <1>5, <1>6, <1>7, <1>8 DEF TellInvariant

----
(* The steps of the server. *)

\* Events sent one after the other are on the wire as if they were sent at once.
LEMMA Joined ==
  ASSUME wire \in Seq(Event), NEW a \in Event, NEW b \in Event, NEW c \in Event
  PROVE  /\ (wire \o << >>) \o <<a>> = wire \o <<a>>
         /\ (wire \o <<a>>) \o << >> = wire \o <<a>>
         /\ (wire \o <<a>>) \o <<b>> = wire \o <<a, b>>
         /\ ((wire \o <<a>>) \o << >>) \o <<b>> = wire \o <<a, b>>
         /\ ((wire \o <<a>>) \o <<b>>) \o <<c>> = wire \o <<a, b, c>>
<1>1. \A e \in Event : <<e>> \in Seq(Event) OBVIOUS
<1>2. wire \o <<a>> \in Seq(Event) /\ wire \o << >> = wire /\ (wire \o <<a>>) \o << >> = wire \o <<a>>
  BY <1>1, ConcatEmptySeq, ConcatProperties
<1>3. (wire \o <<a>>) \o <<b>> = wire \o (<<a>> \o <<b>>) BY <1>1, ConcatAssociative
<1>4. <<a>> \o <<b>> = <<a, b>> /\ <<a, b>> \in Seq(Event)
  <2> DEFINE u == <<a>>
             v == <<b>>
             w == <<a, b>>
  <2>1. /\ u \in Seq(Event) /\ Len(u) = 1 /\ u[1] = a
        /\ v \in Seq(Event) /\ Len(v) = 1 /\ v[1] = b
        /\ w \in Seq(Event) /\ Len(w) = 2 /\ w[1] = a /\ w[2] = b
    OBVIOUS
  <2> HIDE DEF u, v, w
  <2>2. /\ u \o v \in Seq(Event) /\ Len(u \o v) = 2
        /\ \A i \in 1 .. 2 : (u \o v)[i] = IF i <= 1 THEN u[i] ELSE v[i - 1]
    <3>1. 1 + 1 = 2 OBVIOUS
    <3> QED BY <2>1, <3>1, ConcatProperties
  <2>3. \A i \in 1 .. 2 : (u \o v)[i] = w[i]
    <3>1. \A i \in 1 .. 2 : i = 1 \/ i = 2 OBVIOUS
    <3>2. (u \o v)[1] = a /\ (u \o v)[2] = b BY <2>1, <2>2
    <3> QED BY <2>1, <3>1, <3>2
  <2>4. u \o v = w BY <2>1, <2>2, <2>3, SeqEqual
  <2> QED BY <2>1, <2>4 DEF u, v, w
<1>5. (wire \o <<a, b>>) \o <<c>> = wire \o (<<a, b>> \o <<c>>) BY <1>1, <1>4, ConcatAssociative
<1>6. <<a, b>> \o <<c>> = <<a, b, c>>
  <2> DEFINE u == <<a, b>>
             v == <<c>>
             w == <<a, b, c>>
  <2>1. /\ u \in Seq(Event) /\ Len(u) = 2 /\ u[1] = a /\ u[2] = b
        /\ v \in Seq(Event) /\ Len(v) = 1 /\ v[1] = c
        /\ w \in Seq(Event) /\ Len(w) = 3 /\ w[1] = a /\ w[2] = b /\ w[3] = c
    OBVIOUS
  <2> HIDE DEF u, v, w
  <2>2. /\ u \o v \in Seq(Event) /\ Len(u \o v) = 3
        /\ \A i \in 1 .. 3 : (u \o v)[i] = IF i <= 2 THEN u[i] ELSE v[i - 2]
    <3>1. /\ u \o v \in Seq(Event) /\ Len(u \o v) = Len(u) + Len(v)
          /\ \A i \in 1 .. Len(u) + Len(v) : (u \o v)[i] = IF i <= Len(u) THEN u[i] ELSE v[i - Len(u)]
      BY <2>1, ConcatProperties
    <3>2. Len(u) + Len(v) = 3 BY <2>1
    <3> QED BY <2>1, <3>1, <3>2
  <2>3. \A i \in 1 .. 3 : (u \o v)[i] = w[i]
    <3>1. \A i \in 1 .. 3 : i = 1 \/ i = 2 \/ i = 3 OBVIOUS
    <3>2. (u \o v)[1] = a /\ (u \o v)[2] = b /\ (u \o v)[3] = c BY <2>1, <2>2
    <3> QED BY <2>1, <3>1, <3>2
  <2>4. u \o v = w BY <2>1, <2>2, <2>3, SeqEqual
  <2> QED BY <2>4 DEF u, v, w
<1> QED BY <1>2, <1>3, <1>4, <1>5, <1>6

\* What the step lemmas need of both invariants.
LEMMA Known ==
  ASSUME OnceInvariant, TellInvariant
  PROVE  /\ turns \in Seq(Turn) /\ Len(turns) \in Nat /\ DOMAIN turns = 1 .. Len(turns)
         /\ srv.state \in {"idle", "running", "disconnected"} /\ srv.gate \in BOOLEAN
         /\ srv.active \in {0, Len(turns)} /\ srv.unsure \in Nat
         /\ Live(turns) \subseteq {Len(turns)} /\ (srv.state = "idle" => Live(turns) = {})
         /\ op # 0 => srv.gate /\ srv.state = "idle"
         /\ srv.unsure \in Items => results[srv.unsure].what = "uncertain"
         /\ \A i \in page.told : i \in Messages /\ results[i].what = "started"
         /\ 0 \notin page.told
<1>1. /\ srv.state \in {"idle", "running", "disconnected"} /\ srv.gate \in BOOLEAN /\ srv.unsure \in Nat
  BY DEF OnceInvariant, QueueTypes
<1>2. OnlyLastLives /\ StartedHasTurn BY DEF TellInvariant
<1>3. page.told \subseteq Messages /\ 0 \notin Messages BY TellFacts, ItemNumbers
<1> QED BY <1>1, <1>2, <1>3, Typed DEF OnlyLastLives, StartedHasTurn

\* A step of the server alone, that starts nothing.
LEMMA ServerOnly ==
  ASSUME OnceInvariant, TellInvariant, turns' \in {turns, AllDone(turns)}, NEW ext, Tells(ext),
         UNCHANGED <<results, answer, queue, barrier, page>>,
         op' # 0 => srv'.gate /\ srv'.state = "idle",
         srv'.state = "idle" => Live(turns') = {}, srv'.active \in {0, Len(turns)},
         srv'.unsure \in Items => srv'.unsure = srv.unsure
  PROVE  TellInvariant'
<1>1. TurnsGo /\ Len(turns') = Len(turns) /\ Live(turns') \subseteq Live(turns) BY TurnsRest
<1>2. OnlyLastLives' BY <1>1, Known DEF OnlyLastLives
<1>3. PageKept /\ StartedKept BY DEF PageKept, StartedKept
<1>4. srv'.unsure \in Items => results'[srv'.unsure].what = "uncertain" BY Known
<1> QED BY <1>1, <1>2, <1>3, <1>4, TellFacts, Unheard

\* The connection to the App Server is lost.
LEMMA GateClosesTell ==
  ASSUME OnceInvariant, TellInvariant, GateCloses
  PROVE  TellInvariant'
<1>1. /\ op = 0 /\ op' = 0 /\ turns' \in {turns, AllDone(turns)}
      /\ srv' = [srv EXCEPT !.gate = FALSE, !.active = 0,
                            !.state = IF srv.state = "running" THEN "disconnected" ELSE srv.state]
      /\ wire' = wire \o (IF srv.state = "running" THEN <<Runtime("disconnected", 0, FALSE)>> ELSE << >>)
                      \o <<Gate(FALSE)>>
      /\ UNCHANGED <<results, answer, queue, barrier, page>>
  BY DEF GateCloses, stored
<1>2. srv \in Srv BY Typed
<1>3. /\ ~srv'.gate /\ srv'.active = 0 /\ srv'.unsure = srv.unsure
      /\ srv'.state = IF srv.state = "running" THEN "disconnected" ELSE srv.state
  BY <1>1, <1>2 DEF Srv
<1>4. \E ext : Tells(ext)
  <2>1. wire \in Seq(Event) BY TellFacts
  <2>2. CASE srv.state = "running"
    <3>1. wire' = wire \o <<Runtime("disconnected", 0, FALSE), Gate(FALSE)>>
      BY <1>1, <2>1, <2>2, EventTypes, Joined
    <3>2. srv'.gate = FALSE /\ srv'.state = "disconnected" BY <1>1, <1>2, <2>2 DEF Srv
    <3>3. Tells(<<Runtime("disconnected", 0, FALSE), Gate(FALSE)>>) BY <3>1, <3>2, TellsRuntime
    <3> QED BY <3>3
  <2>3. CASE srv.state # "running"
    <3>1. wire' = wire \o <<Gate(FALSE)>> BY <1>1, <2>1, <2>3, EventTypes, Joined
    <3> QED BY <1>3, <2>3, <3>1, TellsClosed
  <2> QED BY <2>2, <2>3
<1>5. srv'.state = "idle" => Live(turns') = {} BY <1>1, <1>3, Known, TurnsRest
<1> QED BY <1>1, <1>3, <1>4, <1>5, ServerOnly

\* What a snapshot of the thread gives.
LEMMA SnapshotKnows ==
  ASSUME OnceInvariant, TellInvariant
  PROVE  /\ Snapshot.state \in {"idle", "running", "disconnected"} /\ Snapshot.active \in {0, Len(turns)}
         /\ Snapshot.state = "idle" => Live(turns) = {}
         /\ Snapshot.active \in Nat
BY Known DEF Snapshot

\* It is back, and the runtime is what it was found to be.
LEMMA ReconcileTell ==
  ASSUME OnceInvariant, TellInvariant, Reconcile
  PROVE  TellInvariant'
<1> DEFINE seen == srv.unsure \in Items /\ Len(turns) > srv.base
           stays == srv.unsure # 0 /\ ~seen
           to == IF stays THEN [state |-> "disconnected", active |-> 0] ELSE Snapshot
<1>1. /\ ~srv.gate /\ UNCHANGED <<turns, op, results, answer, queue, barrier, page>>
      /\ srv' = [srv EXCEPT !.gate = TRUE, !.state = to.state, !.active = to.active,
                            !.unsure = IF stays THEN srv.unsure ELSE 0]
      /\ wire' = wire \o <<Runtime(to.state, to.active, stays)>>
                      \o (IF seen THEN <<Applied>> ELSE << >>) \o <<Gate(TRUE)>>
  BY DEF Reconcile, stored
<1>2. srv \in Srv /\ stays \in BOOLEAN BY Typed
<1>3. /\ to.state \in {"idle", "running", "disconnected"} /\ to.active \in {0, Len(turns)}
      /\ to.state = "idle" => Live(turns) = {}
      /\ to.active \in Nat
  BY SnapshotKnows
<1> HIDE DEF to, stays
<1>4. /\ srv'.gate = TRUE /\ srv'.active = to.active /\ srv'.state = to.state
      /\ srv'.unsure = IF stays THEN srv.unsure ELSE 0
  BY <1>1, <1>2 DEF Srv
<1>5. \E ext : Tells(ext)
  <2>1. wire \in Seq(Event) /\ Runtime(to.state, to.active, stays) \in Event
    BY <1>2, <1>3, TellFacts, EventTypes
  <2>2. CASE seen
    <3>1. wire' = wire \o <<Runtime(to.state, to.active, stays), Applied, Gate(TRUE)>>
      BY <1>1, <2>1, <2>2, EventTypes, Joined
    <3> QED BY <1>2, <1>3, <1>4, <3>1, TellsRuntime
  <2>3. CASE ~seen
    <3>1. wire' = wire \o <<Runtime(to.state, to.active, stays), Gate(TRUE)>>
      BY <1>1, <2>1, <2>3, EventTypes, Joined
    <3> QED BY <1>2, <1>3, <1>4, <3>1, TellsRuntime
  <2> QED BY <2>2, <2>3
<1>6. op' = 0 /\ (srv'.unsure \in Items => srv'.unsure = srv.unsure) BY <1>1, <1>4, Known, ItemNumbers
<1> QED BY <1>1, <1>3, <1>4, <1>5, <1>6, ServerOnly

\* A Turn ends, and its runtime with it.
LEMMA TurnEndsTell ==
  ASSUME OnceInvariant, TellInvariant, TurnEnds
  PROVE  TellInvariant'
<1>1. /\ srv.gate /\ srv.active # 0 /\ turns' = AllDone(turns)
      /\ srv' = [srv EXCEPT !.state = "idle", !.active = 0]
      /\ wire' = wire \o <<Runtime("idle", 0, FALSE), TurnEvent(srv.active, TRUE)>>
      /\ UNCHANGED <<op, results, answer, queue, barrier, page>>
  BY DEF TurnEnds, stored
<1>2. srv \in Srv BY Typed
<1>3. srv'.gate = srv.gate /\ srv'.active = 0 /\ srv'.unsure = srv.unsure /\ srv'.state = "idle"
  BY <1>1, <1>2 DEF Srv
<1>4. /\ srv.active = Len(turns) /\ Len(turns) \in DOMAIN turns
      /\ Len(turns') = Len(turns) /\ Len(turns') \in Nat
      /\ Live(turns') = {} /\ turns'[Len(turns')].done
  BY <1>1, Known, AllDoneEnds, AllDoneKeeps
<1>5. \E ext : Tells(ext)
  <2>1. wire' = wire \o <<Runtime("idle", 0, FALSE), TurnEvent(Len(turns'), TRUE)>> BY <1>1, <1>4
  <2>2. Tells(<<Runtime("idle", 0, FALSE), TurnEvent(Len(turns'), TRUE)>>)
    <3>1. "idle" \in {"idle", "running", "disconnected"} /\ 0 \in Nat /\ FALSE \in BOOLEAN /\ TRUE \in BOOLEAN
      OBVIOUS
    <3>2. srv'.gate = srv.gate /\ srv'.state = "idle" /\ (TRUE => turns'[Len(turns')].done) BY <1>3, <1>4
    <3> QED BY <1>4, <2>1, <3>1, <3>2, TellsRuntime
  <2> QED BY <2>2
<1> QED BY <1>1, <1>3, <1>4, <1>5, Known, ServerOnly

----
(* The steps of the server that begin and end operations. *)

\* A Turn begins.
LEMMA TellsBegin ==
  ASSUME NEW n \in Nat, n = Len(turns'), srv'.state = "running", srv'.gate = srv.gate,
         wire' = wire \o <<Runtime("running", n, FALSE), TurnEvent(n, FALSE)>>
  PROVE  Tells(<<Runtime("running", n, FALSE), TurnEvent(n, FALSE)>>)
<1>1. "running" \in {"idle", "running", "disconnected"} /\ FALSE \in BOOLEAN OBVIOUS
<1>2. /\ wire' = wire \o <<Runtime("running", n, FALSE), TurnEvent(Len(turns'), FALSE)>>
      /\ Len(turns') \in Nat /\ srv'.gate = srv.gate /\ (FALSE => turns'[Len(turns')].done)
  OBVIOUS
<1>3. Tells(<<Runtime("running", n, FALSE), TurnEvent(Len(turns'), FALSE)>>) BY <1>1, <1>2, TellsRuntime
<1> QED BY <1>3

\* The thread is disconnected, and the gate is closed.
LEMMA TellsLost ==
  ASSUME srv'.state = "disconnected", srv'.gate = FALSE,
         wire' = wire \o <<Runtime("disconnected", 0, TRUE), Gate(FALSE)>>
  PROVE  Tells(<<Runtime("disconnected", 0, TRUE), Gate(FALSE)>>)
<1>1. "disconnected" \in {"idle", "running", "disconnected"} /\ 0 \in Nat /\ TRUE \in BOOLEAN /\ FALSE \in BOOLEAN
  OBVIOUS
<1> QED BY <1>1, TellsRuntime

\* A Turn of nobody's message begins.
LEMMA OtherStartsTell ==
  ASSUME OnceInvariant, TellInvariant, OtherStarts
  PROVE  TellInvariant'
<1> DEFINE n == Len(turns) + 1
           ext == <<Runtime("running", n, FALSE), TurnEvent(n, FALSE)>>
<1>1. /\ op = 0 /\ op' = 0 /\ srv.state = "idle" /\ turns' = NewTurn(0)
      /\ srv' = [srv EXCEPT !.state = "running", !.active = n]
      /\ wire' = wire \o ext
      /\ UNCHANGED <<results, answer, queue, barrier, page>>
  BY DEF OtherStarts, stored
<1>2. srv \in Srv BY Typed
<1>3. srv'.state = "running" /\ srv'.active = n /\ srv'.gate = srv.gate /\ srv'.unsure = srv.unsure
  BY <1>1, <1>2 DEF Srv
<1>4. /\ TurnsGo /\ Len(turns') = n /\ n \in Nat /\ Live(turns') \subseteq {Len(turns')}
  <2>1. 0 \in (Items \cup {0}) \ page.told /\ Live(turns) = {} /\ turns' \in {NewTurn(0), AllDone(NewTurn(0))}
    BY <1>1, Known
  <2> QED BY <2>1, TurnsNew, Known
<1>5. Tells(ext) BY <1>1, <1>3, <1>4, TellsBegin
<1>6. OnlyLastLives' BY <1>1, <1>3, <1>4 DEF OnlyLastLives
<1>7. PageKept /\ StartedKept /\ page'.sending = page.sending BY <1>1 DEF PageKept, StartedKept
<1>8. srv'.unsure \in Items => results'[srv'.unsure].what = "uncertain" BY <1>1, <1>3, Known
<1>9. \A i \in Messages : results'[i].what = "started" => results'[i] = results[i] BY <1>1
<1> HIDE DEF ext
<1> QED BY <1>1, <1>4, <1>5, <1>6, <1>7, <1>8, <1>9, TellFacts, Unheard

\* The answer that is given now has all of the wire before it.
LEMMA RepliesLast ==
  ASSUME OnceInvariant, TellInvariant, answer = NoAnswer, WireGrows,
         NEW i, NEW w, NEW n, NEW k, k = Len(wire), answer' = Reply(i, w, n),
         w = "started" /\ i \in Messages =>
             /\ results'[i] = [what |-> "started", turn |-> n]
             /\ n \in Live(turns') => page'.latest = n \/ InWire(n, k)' \/ Coming(n, k)'
  PROVE  answer' = answer \/ (AnswerKnows' /\ answer'.behind \in 0 .. Len(wire'))
<1>1. CASE page.sending # i BY <1>1 DEF Reply
<1>2. CASE page.sending = i
  <2>1. answer' = [to |-> i, what |-> w, turn |-> n, behind |-> k] BY <1>2 DEF Reply
  <2>2. answer'.to = i /\ answer'.what = w /\ answer'.turn = n /\ answer'.behind = k BY <2>1
  <2>3. k \in 0 .. Len(wire') BY TellFacts DEF WireGrows
  <2>4. answer'.what = "started" /\ i \in Messages =>
           /\ results'[i] = [what |-> "started", turn |-> n]
           /\ n \in Live(turns') =>
                 page'.latest = n \/ InWire(n, k)' \/ Coming(n, k)' \/ (k = 0 /\ Begun(n)')
    BY <2>2
  <2>5. AnswerKnows' BY ONLY <2>2, <2>4, AnswerOf
  <2> QED BY <2>2, <2>3, <2>5
<1> QED BY <1>1, <1>2

\* A request that starts nothing is answered.
LEMMA HandleAnsweredTell ==
  ASSUME OnceInvariant, TellInvariant, NEW i \in Items, HandleAnswered(i)
  PROVE  TellInvariant'
<1> DEFINE none == srv.gate /\ results[i].what = "none" /\ i \notin Compacts
           w == Refusal(i)
           t == IF srv.gate THEN results[i].turn ELSE 0
<1>1. /\ answer = NoAnswer /\ answer' = Reply(i, w, t)
      /\ results' = IF none THEN [results EXCEPT ![i] = [what |-> "refused", turn |-> 0]] ELSE results
      /\ UNCHANGED <<turns, srv, op, wire, queue, barrier, page>>
  BY DEF HandleAnswered, stored
<1>2. \A j \in Items : /\ results'[j] = results[j] \/ (results[j].what = "none" /\ results'[j].what = "refused")
                       /\ results[j] \in Result
  BY <1>1, Typed
<1>3. w = "started" => srv.gate /\ results[i].what = "started" /\ t = results[i].turn BY DEF Refusal
<1> HIDE DEF none, w, t
<1>4. /\ TurnsGo /\ Len(turns') = Len(turns) /\ PageKept /\ page'.sending = page.sending
      /\ StartedKept /\ wire' = wire /\ srv' = srv
  <2>1. StartedKept BY <1>2, ItemNumbers DEF StartedKept
  <2> QED BY <1>1, <2>1, TurnsRest DEF PageKept
<1>5. Tells(<< >>) /\ WireGrows
  <2>1. Tells(<< >>) BY <1>4, TellFacts, TellsNothing
  <2> QED BY <1>4, <2>1, TellFacts DEF WireGrows
<1>6. OnlyLastLives' BY <1>1, Known DEF OnlyLastLives
<1>7. srv'.unsure \in Items => results'[srv'.unsure].what = "uncertain"
  <2>1. srv.unsure \in Items => results[srv.unsure].what = "uncertain" BY Known
  <2> QED BY <1>2, <1>4, <2>1
<1>8. \A j \in Messages : results'[j].what = "started" => results'[j] = results[j] BY <1>2, ItemNumbers
<1>9. answer' = answer \/ (AnswerKnows' /\ answer'.behind \in 0 .. Len(wire'))
  <2> SUFFICES ASSUME NEW k, k = Len(wire), NEW n, n = t, NEW what, what = w
               PROVE  answer' = answer \/ (AnswerKnows' /\ answer'.behind \in 0 .. Len(wire'))
    OBVIOUS
  <2>1. ASSUME what = "started", i \in Messages
        PROVE  /\ results'[i] = [what |-> "started", turn |-> n]
               /\ n \in Live(turns') => page'.latest = n \/ InWire(n, k)' \/ Coming(n, k)'
    <3>1. results'[i] = results[i] /\ results[i] = [what |-> "started", turn |-> n]
      <4>1. results[i] \in Result /\ results[i].what = "started" /\ results[i].turn = n BY <1>2, <1>3, <2>1
      <4>2. results[i] = [what |-> "started", turn |-> n] BY <4>1 DEF Result
      <4> QED BY <1>2, <4>1, <4>2
    <3>2. n \in Live(turns) => page.latest = n \/ InWire(n, Len(wire))
      BY <2>1, <1>3 DEF TellInvariant, StartedHasTurn
    <3>3. k \in 0 .. Len(wire) BY TellFacts
    <3>4. InWire(n, k) => InWire(n, k)' BY <1>4, <1>5, <3>3, AfterKept
    <3> QED BY <1>1, <3>1, <3>2, <3>4
  <2>2. answer = NoAnswer /\ answer' = Reply(i, what, n) BY <1>1
  <2> QED BY <1>5, <2>1, <2>2, RepliesLast
<1>10. DOMAIN barrier' = {"prev", "turn", "on"} /\ barrier'.on \in BOOLEAN BY <1>1, TellFacts
<1>11. queue' = << >> \/ (barrier' = barrier /\ (queue = << >> => queue' = << >>)) BY <1>1
<1>12. \A j \in Messages : results'[j].what = "started" =>
               \/ results'[j] = results[j]
               \/ /\ results'[j].turn = Len(turns') /\ Len(turns') # 0 /\ turns'[Len(turns')].item = j
                  /\ \E k \in 1 .. Len(<< >>) : << >>[k] = TurnEvent(Len(turns'), FALSE)
  BY <1>8
<1> QED BY <1>4, <1>5, <1>6, <1>7, <1>9, <1>10, <1>11, <1>12, Unheard

\* The start of a message: the operation begins, and waits for the App Server.
LEMMA HandleStartTell ==
  ASSUME OnceInvariant, TellInvariant, NEW i \in Items, HandleStart(i)
  PROVE  TellInvariant'
<1>1. /\ srv.gate /\ srv.state = "idle" /\ op' = i /\ results[i].what = "none"
      /\ results' = [results EXCEPT ![i] = [what |-> "pending", turn |-> 0]]
      /\ UNCHANGED <<turns, srv, wire, answer, queue, barrier, page>>
  BY DEF HandleStart, stored
<1>2. \A j \in Items : results'[j] = results[j] \/ (results[j].what = "none" /\ results'[j].what = "pending")
  BY <1>1, Typed
<1>3. /\ TurnsGo /\ Len(turns') = Len(turns) /\ PageKept /\ page'.sending = page.sending
      /\ StartedKept /\ wire' = wire /\ srv' = srv
  <2>1. StartedKept BY <1>2, ItemNumbers DEF StartedKept
  <2> QED BY <1>1, <2>1, TurnsRest DEF PageKept
<1>4. Tells(<< >>) BY <1>3, TellFacts, TellsNothing
<1>5. OnlyLastLives' BY <1>1, Known DEF OnlyLastLives
<1>6. srv'.unsure \in Items => results'[srv'.unsure].what = "uncertain"
  <2>1. srv.unsure \in Items => results[srv.unsure].what = "uncertain" BY Known
  <2> QED BY <1>2, <1>3, <2>1
<1>7. \A j \in Messages : results'[j].what = "started" =>
               \/ results'[j] = results[j]
               \/ /\ results'[j].turn = Len(turns') /\ Len(turns') # 0 /\ turns'[Len(turns')].item = j
                  /\ \E k \in 1 .. Len(<< >>) : << >>[k] = TurnEvent(Len(turns'), FALSE)
  BY <1>2, ItemNumbers
<1> QED BY <1>1, <1>3, <1>4, <1>5, <1>6, <1>7, TellFacts, Unheard

\* Codex answers: the Turn's events are behind the idle runtime that the page gets
\* or has, and before them the answer finds its place.
LEMMA StartsTell ==
  ASSUME OnceInvariant, OrderInvariant, TellInvariant, Starts
  PROVE  TellInvariant'
<1> DEFINE n == Len(turns) + 1
           ext == <<Runtime("running", n, FALSE), TurnEvent(n, FALSE)>>
           t == IF op \in Compacts THEN 0 ELSE n
           r == [what |-> "started", turn |-> t]
<1>1. /\ op # 0 /\ op' = 0 /\ answer = NoAnswer /\ turns' = NewTurn(op)
      /\ srv' = [srv EXCEPT !.state = "running", !.active = n]
      /\ wire' = wire \o ext
      /\ results' = [results EXCEPT ![op] = r]
      /\ answer' = Reply(op, "started", t)
      /\ UNCHANGED <<queue, barrier, page>>
  BY DEF Starts, stored
<1>2. /\ op \in Items /\ srv.gate /\ srv.state = "idle" /\ Live(turns) = {}
      /\ results[op].what = "pending" /\ op \notin page.told /\ op # srv.unsure
  <2>1. op \in Items /\ results[op].what = "pending"
    BY <1>1 DEF OnceInvariant, QueueTypes, OrderInvariant, AnswerIsLast
  <2> QED BY <1>1, <2>1, Known
<1>3. srv \in Srv BY Typed
<1>4. srv'.state = "running" /\ srv'.active = n /\ srv'.gate = srv.gate /\ srv'.unsure = srv.unsure
  BY <1>1, <1>3 DEF Srv
<1>5. /\ TurnsGo /\ Len(turns') = n /\ n \in Nat \ {0} /\ Live(turns') \subseteq {n}
      /\ turns'[n].item = op
  <2>1. op \in (Items \cup {0}) \ page.told /\ turns' \in {NewTurn(op), AllDone(NewTurn(op))} BY <1>1, <1>2
  <2> QED BY <1>2, <2>1, TurnsNew, Known
<1>6. \A j \in Items : results'[j] = IF j = op THEN r ELSE results[j] BY <1>1, <1>2, Typed
<1>7. Tells(ext) BY <1>1, <1>4, <1>5, TellsBegin
<1>8. ext \in Seq(Event) /\ Len(ext) = 2 /\ ext[1] = Runtime("running", n, FALSE) /\ ext[2] = TurnEvent(n, FALSE)
  BY <1>7 DEF Tells
<1>9. op \in Messages => t = n BY DEF Messages
<1> HIDE DEF n, ext, t
<1>10. OnlyLastLives' BY <1>1, <1>4, <1>5 DEF OnlyLastLives
<1>11. PageKept /\ StartedKept /\ page'.sending = page.sending
  BY <1>1, <1>2, <1>6, ItemNumbers DEF PageKept, StartedKept
<1>12. srv'.unsure \in Items => results'[srv'.unsure].what = "uncertain" BY <1>2, <1>4, <1>6, Known
<1>13. \A j \in Messages : results'[j].what = "started" =>
               \/ results'[j] = results[j]
               \/ /\ results'[j].turn = Len(turns') /\ Len(turns') # 0 /\ turns'[Len(turns')].item = j
                  /\ \E k \in 1 .. Len(ext) : ext[k] = TurnEvent(Len(turns'), FALSE)
  <2>1. \E k \in 1 .. Len(ext) : ext[k] = TurnEvent(Len(turns'), FALSE)
    <3>1. 2 \in 1 .. Len(ext) BY <1>8
    <3> QED BY <1>5, <1>8, <3>1
  <2>2. op \in Messages => results'[op].turn = n BY <1>2, <1>6, <1>9
  <2> QED BY <1>5, <1>6, <2>1, <2>2, ItemNumbers
<1>14. WireGrows BY <1>1, <1>8, Appended
<1>15. answer' = answer \/ (AnswerKnows' /\ answer'.behind \in 0 .. Len(wire'))
  <2> SUFFICES ASSUME NEW k, k = Len(wire), NEW m, m = n, NEW i, i = op, NEW c, c = t
               PROVE  answer' = answer \/ (AnswerKnows' /\ answer'.behind \in 0 .. Len(wire'))
    OBVIOUS
  <2>1. Coming(m, k)'
    <3>1. k \in 0 .. Len(wire) /\ k \in Nat BY TellFacts
    <3>2. StateAfter(k, "idle") /\ OpenAfter(k) BY <1>2 DEF TellInvariant, InStep
    <3>3. StateAfter(k, "idle")' /\ OpenAfter(k)' BY <1>11, <1>14, <3>1, <3>2, AfterKept
    <3>4. Len(wire') = k + 2 /\ wire'[k + 1] = ext[1] /\ wire'[k + 2] = ext[2]
      <4>1. 1 \in 1 .. Len(ext) /\ 2 \in 1 .. Len(ext) /\ ext \in Seq(Event) /\ wire' = wire \o ext
        BY <1>1, <1>8
      <4> QED BY <1>8, <4>1, Appended
    <3>5. k + 2 <= Len(wire') BY <3>1, <3>4
    <3> QED BY <1>8, <3>3, <3>4, <3>5 DEF Coming, Runtime, TurnEvent
  <2>2. i \in Messages => results'[i] = [what |-> "started", turn |-> c] BY <1>2, <1>6
  <2>3. i \in Messages => c = m BY <1>9
  <2>4. "started" = "started" /\ i \in Messages =>
               /\ results'[i] = [what |-> "started", turn |-> c]
               /\ c \in Live(turns') => page'.latest = c \/ InWire(c, k)' \/ Coming(c, k)'
    BY <2>1, <2>2, <2>3
  <2>5. answer = NoAnswer /\ answer' = Reply(i, "started", c) BY <1>1
  <2> QED BY <1>14, <2>4, <2>5, RepliesLast
<1>16. DOMAIN barrier' = {"prev", "turn", "on"} /\ barrier'.on \in BOOLEAN BY <1>1, TellFacts
<1>17. queue' = << >> \/ (barrier' = barrier /\ (queue = << >> => queue' = << >>)) BY <1>1
<1> QED BY <1>5, <1>7, <1>10, <1>11, <1>12, <1>13, <1>15, <1>16, <1>17, Unheard

\* The App Server refuses.
LEMMA FailsTell ==
  ASSUME OnceInvariant, OrderInvariant, TellInvariant, Fails
  PROVE  TellInvariant'
<1> DEFINE r == [results[op] EXCEPT !.what = IF op \in Compacts THEN "none" ELSE "refused"]
<1>1. /\ op # 0 /\ op' = 0 /\ answer = NoAnswer
      /\ results' = [results EXCEPT ![op] = r]
      /\ answer' = Reply(op, "refused", 0)
      /\ UNCHANGED <<turns, srv, wire, queue, barrier, page>>
  BY DEF Fails, stored
<1>2. op \in Items /\ results[op].what = "pending" /\ op # srv.unsure /\ results[op] \in Result
  <2>1. op \in Items /\ results[op].what = "pending"
    BY <1>1 DEF OnceInvariant, QueueTypes, OrderInvariant, AnswerIsLast
  <2> QED BY <1>1, <2>1, Known, Typed
<1>3. r.what # "started" BY <1>2 DEF Result
<1> HIDE DEF r
<1>4. \A j \in Items : results'[j] = IF j = op THEN r ELSE results[j] BY <1>1, <1>2, Typed
<1>5. /\ TurnsGo /\ PageKept /\ page'.sending = page.sending /\ StartedKept /\ wire' = wire /\ srv' = srv
  <2>1. StartedKept BY <1>2, <1>4, ItemNumbers DEF StartedKept
  <2> QED BY <1>1, <2>1, TurnsRest DEF PageKept
<1>6. Tells(<< >>) /\ WireGrows
  <2>1. Tells(<< >>) BY <1>5, TellFacts, TellsNothing
  <2> QED BY <1>5, <2>1, TellFacts DEF WireGrows
<1>7. OnlyLastLives' BY <1>1, Known DEF OnlyLastLives
<1>8. srv'.unsure \in Items => results'[srv'.unsure].what = "uncertain" BY <1>2, <1>4, <1>5, Known
<1>9. \A j \in Messages : results'[j].what = "started" =>
               \/ results'[j] = results[j]
               \/ /\ results'[j].turn = Len(turns') /\ Len(turns') # 0 /\ turns'[Len(turns')].item = j
                  /\ \E k \in 1 .. Len(<< >>) : << >>[k] = TurnEvent(Len(turns'), FALSE)
  BY <1>3, <1>4, ItemNumbers
<1>10. answer' = answer \/ (AnswerKnows' /\ answer'.behind \in 0 .. Len(wire'))
  <2> SUFFICES ASSUME NEW k, k = Len(wire), NEW i, i = op
               PROVE  answer' = answer \/ (AnswerKnows' /\ answer'.behind \in 0 .. Len(wire'))
    OBVIOUS
  <2>1. answer = NoAnswer /\ answer' = Reply(i, "refused", 0) BY <1>1
  <2> QED BY <1>6, <2>1, RepliesLast
<1> QED BY <1>1, <1>5, <1>6, <1>7, <1>8, <1>9, <1>10, TellFacts, Unheard

\* Nobody knows whether the App Server began the Turn.
LEMMA IsUncertainTell ==
  ASSUME OnceInvariant, OrderInvariant, TellInvariant, IsUncertain
  PROVE  TellInvariant'
<1> DEFINE ext == <<Runtime("disconnected", 0, TRUE), Gate(FALSE)>>
<1>1. /\ op # 0 /\ op' = 0 /\ answer = NoAnswer
      /\ turns' = turns \/ turns' \in {NewTurn(op), AllDone(NewTurn(op))}
      /\ srv' = [state |-> "disconnected", active |-> 0, unsure |-> op, base |-> Len(turns), gate |-> FALSE]
      /\ wire' = wire \o ext
      /\ results' = [results EXCEPT ![op] = Unknown]
      /\ answer' = Reply(op, "uncertain", 0)
      /\ UNCHANGED <<queue, barrier, page>>
  BY DEF IsUncertain, stored
<1>2. /\ op \in Items /\ results[op].what = "pending" /\ op \notin page.told /\ Live(turns) = {}
  <2>1. op \in Items /\ results[op].what = "pending"
    BY <1>1 DEF OnceInvariant, QueueTypes, OrderInvariant, AnswerIsLast
  <2> QED BY <1>1, <2>1, Known
<1>3. srv'.state = "disconnected" /\ srv'.active = 0 /\ srv'.unsure = op /\ srv'.gate = FALSE BY <1>1
<1>4. \A j \in Items : results'[j] = IF j = op THEN Unknown ELSE results[j] BY <1>1, <1>2, Typed
<1>5. TurnsGo /\ Live(turns') \subseteq {Len(turns')}
  <2>1. CASE turns' = turns BY <1>2, <2>1, TurnsRest
  <2>2. CASE turns' \in {NewTurn(op), AllDone(NewTurn(op))}
    <3>1. op \in (Items \cup {0}) \ page.told BY <1>2
    <3> QED BY <1>2, <2>2, <3>1, TurnsNew
  <2> QED BY <1>1, <2>1, <2>2
<1>6. Tells(ext) BY <1>1, <1>3, TellsLost
<1>7. WireGrows BY <1>6, Appended DEF Tells
<1> HIDE DEF ext
<1>8. OnlyLastLives' BY <1>1, <1>3, <1>5 DEF OnlyLastLives
<1>9. PageKept /\ StartedKept /\ page'.sending = page.sending
  BY <1>1, <1>2, <1>4, ItemNumbers DEF PageKept, StartedKept
<1>10. srv'.unsure \in Items => results'[srv'.unsure].what = "uncertain" BY <1>2, <1>3, <1>4 DEF Unknown
<1>11. \A j \in Messages : results'[j].what = "started" => results'[j] = results[j]
  BY <1>4, ItemNumbers DEF Unknown
<1>12. answer' = answer \/ (AnswerKnows' /\ answer'.behind \in 0 .. Len(wire'))
  <2> SUFFICES ASSUME NEW k, k = Len(wire), NEW i, i = op
               PROVE  answer' = answer \/ (AnswerKnows' /\ answer'.behind \in 0 .. Len(wire'))
    OBVIOUS
  <2>1. answer = NoAnswer /\ answer' = Reply(i, "uncertain", 0) BY <1>1
  <2> QED BY <1>7, <2>1, RepliesLast
<1>13. DOMAIN barrier' = {"prev", "turn", "on"} /\ barrier'.on \in BOOLEAN BY <1>1, TellFacts
<1>14. queue' = << >> \/ (barrier' = barrier /\ (queue = << >> => queue' = << >>)) BY <1>1
<1> QED BY <1>5, <1>6, <1>8, <1>9, <1>10, <1>11, <1>12, <1>13, <1>14, Unheard

\* A steer is unknown: it is no item.
LEMMA SteeringIsNone == ASSUME OnceInvariant PROVE Steering \notin Items
<1>1. Len(turns) \in Nat /\ Cardinality(Items) \in Nat BY Typed, ItemNumbers
<1>2. Steering \in Nat /\ Steering > Cardinality(Items) BY <1>1 DEF Steering
<1> QED BY <1>1, <1>2, ItemNumbers

\* A steer gets no answer, and the runtime is unsure of it.
LEMMA SteerTell ==
  ASSUME OnceInvariant, OrderInvariant, TellInvariant, Steer
  PROVE  TellInvariant'
<1> DEFINE ext == <<Runtime("disconnected", 0, TRUE), Gate(FALSE)>>
<1>1. /\ op = 0 /\ op' = 0 /\ turns' \in {turns, AllDone(turns)}
      /\ srv' = [state |-> "disconnected", active |-> 0, unsure |-> Steering, base |-> srv.active, gate |-> FALSE]
      /\ wire' = wire \o ext /\ page' = [page EXCEPT !.pending = Steering]
      /\ UNCHANGED <<results, answer, queue, barrier>>
  BY DEF Steer, stored
<1>2. srv'.state = "disconnected" /\ srv'.active = 0 /\ srv'.unsure = Steering /\ srv'.gate = FALSE BY <1>1
<1>3. TurnsGo /\ Len(turns') = Len(turns) /\ Live(turns') \subseteq Live(turns) BY <1>1, TurnsRest
<1>4. Tells(ext) BY <1>1, <1>2, TellsLost
<1> HIDE DEF ext
<1>5. OnlyLastLives' BY <1>1, <1>2, <1>3, Known DEF OnlyLastLives
<1>6. PageKept /\ StartedKept /\ page'.sending = page.sending
  BY <1>1, OrderFacts DEF PageKept, StartedKept, PageFields
<1>7. srv'.unsure \in Items => results'[srv'.unsure].what = "uncertain" BY <1>2, SteeringIsNone
<1> QED BY <1>1, <1>3, <1>4, <1>5, <1>6, <1>7, TellFacts, Unheard

\* The head is dropped: the queue becomes empty, or its barrier stays.
LEMMA LeavesGuarded ==
  ASSUME TellInvariant, NEW i, Leaves(i, barrier)
  PROVE  /\ DOMAIN barrier' = {"prev", "turn", "on"} /\ barrier'.on \in BOOLEAN
         /\ queue # << >> => queue' = << >> \/ (barrier' = barrier /\ (queue = << >> => queue' = << >>))
BY TellFacts DEF Leaves, NoBarrier

\* What was uncertain is found out.
LEMMA ResolveTell ==
  ASSUME OnceInvariant, OrderInvariant, TellInvariant, Resolve
  PROVE  TellInvariant'
<1> DEFINE settled == srv.unsure = 0
           own == srv.unsure \in Items
           r == Runtime(Snapshot.state, Snapshot.active, FALSE)
<1>1. PICK applied \in BOOLEAN :
         /\ settled => ~applied
         /\ page' = [page EXCEPT !.pending = IF applied THEN 0 ELSE page.pending]
         /\ DropsHead(~settled /\ ~applied /\ own)
         /\ results' = IF own /\ ~applied
                       THEN [results EXCEPT ![srv.unsure] = [what |-> "none", turn |-> 0]] ELSE results
         /\ IF settled THEN UNCHANGED <<srv, wire>>
            ELSE /\ srv' = [srv EXCEPT !.unsure = 0, !.state = Snapshot.state, !.active = Snapshot.active]
                 /\ wire' = wire \o <<r>> \o (IF applied THEN <<Applied>> ELSE << >>)
  BY DEF Resolve
<1>2. op = 0 /\ op' = 0 /\ UNCHANGED <<turns, asked, answer>> /\ srv \in Srv BY Typed DEF Resolve
<1>3. /\ srv'.gate = srv.gate /\ srv'.unsure = 0
      /\ srv'.state = IF settled THEN srv.state ELSE Snapshot.state
      /\ srv'.active = IF settled THEN srv.active ELSE Snapshot.active
  BY <1>1, <1>2 DEF Srv
<1>4. \A j \in Items : \/ results'[j] = results[j]
                       \/ results[j].what = "uncertain" /\ results'[j].what = "none"
  <2>1. own => results[srv.unsure].what = "uncertain" BY Known
  <2> QED BY <1>1, <2>1, Typed
<1>5. TurnsGo /\ Len(turns') = Len(turns) BY <1>2, TurnsRest
<1>6. OnlyLastLives' BY <1>2, <1>3, Known, SnapshotKnows DEF OnlyLastLives
<1>7. PageKept /\ StartedKept /\ page'.sending = page.sending
  <2>1. PageKept /\ page'.sending = page.sending BY <1>1, OrderFacts DEF PageKept, PageFields
  <2> QED BY <1>4, <2>1, ItemNumbers DEF StartedKept
<1>8. srv'.unsure \notin Items BY <1>3, ItemNumbers
<1>9. \A j \in Messages : results'[j].what = "started" => results'[j] = results[j] BY <1>4, ItemNumbers
<1>10. \E ext : Tells(ext)
  <2>0. wire \in Seq(Event) BY TellFacts
  <2>1. CASE settled BY <1>1, <2>0, <2>1, TellsNothing
  <2>2. CASE ~settled
    <3>1. srv'.state = Snapshot.state /\ srv'.gate = srv.gate BY <1>3, <2>2
    <3>2. Snapshot.state \in {"idle", "running", "disconnected"} /\ Snapshot.active \in Nat BY SnapshotKnows
    <3>3. r \in Event BY <3>2, EventTypes
    <3>4. CASE applied
      <4>1. wire' = wire \o <<r, Applied>> BY <1>1, <2>0, <2>2, <3>3, <3>4, EventTypes, Joined
      <4>2. Tells(<<r, Applied>>) BY <3>1, <3>2, <4>1, TellsRuntime
      <4> QED BY <4>2
    <3>5. CASE ~applied
      <4>1. wire' = wire \o <<r>> BY <1>1, <2>0, <2>2, <3>3, <3>5, Joined
      <4>2. Tells(<<r>>) BY <3>1, <3>2, <4>1, TellsRuntime
      <4> QED BY <4>2
    <3> QED BY <3>4, <3>5
  <2> QED BY <2>1, <2>2
<1>11. /\ DOMAIN barrier' = {"prev", "turn", "on"} /\ barrier'.on \in BOOLEAN
       /\ queue' = << >> \/ (barrier' = barrier /\ (queue = << >> => queue' = << >>))
  <2>1. CASE HeadMessage = 0
    <3>1. UNCHANGED <<queue, barrier>> BY <1>1, <2>1 DEF DropsHead, stored
    <3> QED BY <3>1, TellFacts
  <2>2. CASE HeadMessage # 0
    <3>1. Leaves(HeadMessage, barrier) /\ queue # << >> BY <1>1, <2>2 DEF DropsHead, HeadMessage, Head0
    <3> QED BY <3>1, LeavesGuarded
  <2> QED BY <2>1, <2>2
<1> QED BY <1>2, <1>5, <1>6, <1>7, <1>8, <1>9, <1>10, <1>11, Unheard

\* The page asks again for what it has no answer to.
LEMMA SendAgainTell ==
  ASSUME OnceInvariant, OrderInvariant, TellInvariant, SendAgain
  PROVE  TellInvariant'
<1> DEFINE i == page.pending
           n == Len(turns) + 1
           ext == <<Runtime("running", n, FALSE), TurnEvent(n, FALSE)>>
<1>1. /\ i \in taken /\ op = 0 /\ op' = 0 /\ page' = [page EXCEPT !.pending = 0]
      /\ UNCHANGED <<answer, queue, barrier>>
  BY DEF SendAgain, stored
<1>2. PageKept /\ page'.sending = page.sending BY <1>1, OrderFacts DEF PageKept, PageFields
<1>3. i \in Items BY <1>1 DEF OnceInvariant, QueueTypes
<1>4. CASE UNCHANGED <<turns, srv, results, wire>>
  <2>1. TurnsGo /\ Tells(<< >>) BY <1>4, TurnsRest, TellFacts, TellsNothing
  <2>2. OnlyLastLives' /\ StartedKept BY <1>1, <1>4, Known DEF OnlyLastLives, StartedKept
  <2>3. srv'.unsure \in Items => results'[srv'.unsure].what = "uncertain" BY <1>4, Known
  <2> QED BY <1>1, <1>2, <1>4, <2>1, <2>2, <2>3, TellFacts, Unheard
<1>5. CASE /\ results[i].what = "none" /\ srv.state = "idle"
           /\ turns' = NewTurn(i)
           /\ srv' = [srv EXCEPT !.state = "running", !.active = n]
           /\ results' = [results EXCEPT ![i] = [what |-> "started", turn |-> n]]
           /\ wire' = wire \o ext
  <2>1. srv \in Srv BY Typed
  <2>2. srv'.state = "running" /\ srv'.active = n /\ srv'.gate = srv.gate /\ srv'.unsure = srv.unsure
    BY <1>5, <2>1 DEF Srv
  <2>3. /\ i \notin page.told /\ i # srv.unsure /\ Live(turns) = {} BY <1>3, <1>5, Known
  <2>4. /\ TurnsGo /\ Len(turns') = n /\ n \in Nat \ {0} /\ Live(turns') \subseteq {n} /\ turns'[n].item = i
    <3>1. i \in (Items \cup {0}) \ page.told /\ turns' \in {NewTurn(i), AllDone(NewTurn(i))} BY <1>3, <1>5, <2>3
    <3> QED BY <2>3, <3>1, TurnsNew, Known
  <2>5. \A j \in Items : results'[j] = IF j = i THEN [what |-> "started", turn |-> n] ELSE results[j]
    BY <1>3, <1>5, Typed
  <2>6. Tells(ext) BY <1>5, <2>2, <2>4, TellsBegin
  <2>7. OnlyLastLives' BY <1>1, <2>2, <2>4 DEF OnlyLastLives
  <2>8. StartedKept BY <1>5, <2>5, ItemNumbers DEF StartedKept
  <2>9. srv'.unsure \in Items => results'[srv'.unsure].what = "uncertain" BY <2>2, <2>3, <2>5, Known
  <2>10. \A j \in Messages : results'[j].what = "started" =>
               \/ results'[j] = results[j]
               \/ /\ results'[j].turn = Len(turns') /\ Len(turns') # 0 /\ turns'[Len(turns')].item = j
                  /\ \E k \in 1 .. Len(ext) : ext[k] = TurnEvent(Len(turns'), FALSE)
    <3>1. \E k \in 1 .. Len(ext) : ext[k] = TurnEvent(Len(turns'), FALSE)
      <4>1. 2 \in 1 .. Len(ext) /\ ext[2] = TurnEvent(n, FALSE) OBVIOUS
      <4> QED BY <2>4, <4>1
    <3>2. results'[i].turn = n BY <1>3, <2>5
    <3>3. Len(turns') # 0 /\ turns'[Len(turns')].item = i /\ results'[i].turn = Len(turns') BY <2>4, <3>2
    <3>4. \A j \in Messages : j = i \/ results'[j] = results[j] BY <2>5, ItemNumbers
    <3> HIDE DEF ext, n, i
    <3> QED BY <3>1, <3>3, <3>4
  <2> HIDE DEF ext, n, i
  <2> QED BY <1>1, <1>2, <2>4, <2>6, <2>7, <2>8, <2>9, <2>10, TellFacts, Unheard
<1> QED BY <1>4, <1>5 DEF SendAgain

----
(* The page's own steps. *)

\* The page works on its queue: only what guards the told Turns has to be seen to.
LEMMA PageStill ==
  ASSUME OnceInvariant, TellInvariant, PageKept, UNCHANGED <<turns, srv, op, results, answer, wire>>,
         DOMAIN barrier' = {"prev", "turn", "on"}, barrier'.on \in BOOLEAN,
         ToldIsGuarded', SendsAlone'
  PROVE  TellInvariant'
<1>1. /\ TurnsGo /\ StartedKept /\ wire' = wire /\ Tells(<< >>)
      /\ WireGrows
  <2>1. TurnsGo /\ StartedKept BY TurnsRest DEF StartedKept
  <2>2. Tells(<< >>) BY TellFacts, TellsNothing
  <2> QED BY <2>1, <2>2, TellFacts DEF WireGrows
<1>2. TellTypes' BY TellFacts DEF TellTypes, PageKept
<1>3. OnlyLastLives' BY Known DEF OnlyLastLives
<1> DEFINE e == << >>
<1>4. e \in Seq(Event) /\ wire' = wire \o e /\ Tells(e) BY <1>1 DEF Tells
<1> HIDE DEF e
<1>5. WireInOrder' BY <1>1, <1>4, TimelineKept DEF Tells
<1>6. InStep' BY <1>4, InStepKept DEF Tells
<1>7. StartedHasTurn' BY <1>1, Known, StartedStays
<1>8. AnswerKnows' BY <1>1, AnswerKept
<1> QED BY <1>2, <1>3, <1>5, <1>6, <1>7, <1>8 DEF TellInvariant

\* As long as nothing of the timeline comes, so does what guards the told Turns.
LEMMA Unmoved ==
  ASSUME TellInvariant, PageKept, wire' = wire
  PROVE  \A n : (Coming(n, 0) => Coming(n, 0)') /\ (Begun(n) => Begun(n)')
<1>1. WireGrows BY TellFacts DEF WireGrows
<1>2. 0 \in 0 .. Len(wire) BY TellFacts
<1> QED BY <1>1, <1>2, AfterKept

\* The page is idle before a Turn comes, with its connection open.
LEMMA IdleBefore ==
  ASSUME TellInvariant, NEW n, Coming(n, 0)
  PROVE  page.state = "idle" /\ page.gate
<1>1. StateAfter(0, "idle") /\ OpenAfter(0) BY DEF Coming
<1>2. 0 .. 0 = {0} OBVIOUS
<1> QED BY <1>1, <1>2 DEF StateAfter, OpenAfter

\* The page tries again, or a message is cancelled.
LEMMA QuietTell ==
  ASSUME OnceInvariant, OrderInvariant, TellInvariant, Retry \/ \E i \in Items : Cancel(i)
  PROVE  TellInvariant'
<1>1. /\ UNCHANGED <<turns, srv, op, results, answer, wire>>
      /\ \E x : page' = [page EXCEPT !.last = x]
  BY DEF Retry, Cancel, server
<1>2. PageKept /\ page'.sending = page.sending BY <1>1, OrderFacts DEF PageKept, PageFields
<1>3. /\ DOMAIN barrier' = {"prev", "turn", "on"} /\ barrier'.on \in BOOLEAN
      /\ queue' = << >> \/ (barrier' = barrier /\ (queue = << >> => queue' = << >>))
  <2>1. CASE Retry BY <2>1, TellFacts DEF Retry, stored
  <2>2. ASSUME NEW i \in Items, Cancel(i)
        PROVE  /\ DOMAIN barrier' = {"prev", "turn", "on"} /\ barrier'.on \in BOOLEAN
               /\ queue' = << >> \/ (barrier' = barrier /\ (queue = << >> => queue' = << >>))
    <3>1. Leaves(i, barrier) /\ Contains(queue, i) BY <2>2 DEF Cancel
    <3>2. queue # << >> BY <3>1 DEF Contains
    <3> QED BY <3>1, <3>2, LeavesGuarded
  <2> QED BY <2>1, <2>2
<1>4. TurnsGo /\ WireGrows BY <1>1, TurnsRest, TellFacts DEF WireGrows
<1>5. ToldIsGuarded' /\ SendsAlone' BY <1>2, <1>3, <1>4, GuardKept
<1> QED BY <1>1, <1>2, <1>3, <1>5, PageStill

\* Something is entered only while the page shows a Turn: no told one is awaited.
LEMMA EnqueueTell ==
  ASSUME OnceInvariant, OrderInvariant, TellInvariant, NEW i \in Items, Enqueue(i)
  PROVE  TellInvariant'
<1>1. /\ Running /\ UNCHANGED <<turns, srv, op, results, answer, wire>>
      /\ page' = [page EXCEPT !.entered = i]
      /\ barrier' = IF barrier.on THEN barrier ELSE BarrierOf
  BY DEF Enqueue, server
<1>2. PageKept /\ page'.sending = page.sending BY <1>1, OrderFacts DEF PageKept, PageFields
<1>3. DOMAIN barrier' = {"prev", "turn", "on"} /\ barrier'.on \in BOOLEAN
  BY <1>1, TellFacts DEF BarrierOf, NoBarrier, Barrier
<1>4. SendsAlone' BY <1>1, <1>2 DEF TellInvariant, SendsAlone, PageKept
<1>5. ToldIsGuarded'
  <2> SUFFICES ASSUME NEW n \in Live(turns'), turns'[n].item \in page'.told
               PROVE  page'.latest = n \/ Begun(n)'
    BY DEF ToldIsGuarded
  <2>1. n \in Live(turns) /\ turns[n].item \in page.told /\ page'.latest = page.latest
    BY <1>1, <1>2 DEF PageKept
  <2>2. page.latest = n \/ Begun(n) \/ Coming(n, 0) BY <2>1 DEF TellInvariant, ToldIsGuarded
  <2>3. ~Coming(n, 0) BY <1>1, IdleBefore DEF Running, Shown
  <2> QED BY <1>1, <1>2, <2>1, <2>2, <2>3, Unmoved
<1> QED BY <1>1, <1>2, <1>3, <1>4, <1>5, PageStill

\* The effects: an item is sent only when no told Turn goes on, and the barrier of
\* a Turn that comes is neither dropped nor turned to another one.
LEMMA EffectsTell ==
  ASSUME OnceInvariant, OrderInvariant, TellInvariant, Effects
  PROVE  TellInvariant'
<1>1. /\ UNCHANGED <<turns, srv, op, results, answer, wire, queue>>
      /\ barrier' = IF barrier.on THEN Advanced(barrier) ELSE IF Awaited THEN BarrierOf ELSE barrier
      /\ \/ ~Sends /\ page' = page
         \/ /\ Sends
            /\ page' = [page EXCEPT !.last = Head0, !.sending = Head0, !.prev = page.latest,
                          !.pending = IF Head0 \in Compacts THEN page.pending ELSE Head0]
  BY DEF Effects
<1>2. PageKept BY <1>1, OrderFacts DEF PageKept, PageFields
<1>3. DOMAIN barrier' = {"prev", "turn", "on"} /\ barrier'.on \in BOOLEAN
  <2> DEFINE o == Observed(barrier)
  <2>1. barrier' \in {NoBarrier, barrier, [barrier EXCEPT !.turn = o], Barrier(page.latest, page.active)}
    BY <1>1 DEF Advanced, BarrierOf
  <2> HIDE DEF o
  <2>2. CASE barrier' = NoBarrier BY <2>2 DEF NoBarrier
  <2>3. CASE barrier' = Barrier(page.latest, page.active) BY <2>3 DEF Barrier
  <2>4. CASE barrier' = barrier BY <2>4, TellFacts
  <2>5. CASE barrier' = [barrier EXCEPT !.turn = o] BY <2>5, TellFacts
  <2> QED BY <2>1, <2>2, <2>3, <2>4, <2>5
<1>4. CASE Sends
  <2>1. page.state = "idle" /\ page.gate /\ queue # << >> /\ ~barrier.on /\ (page.latest # 0 => page.done)
    BY <1>4, TellFacts DEF Sends, Running, Blocked, Shown, Head0
  <2>2. ASSUME NEW n \in Live(turns), turns[n].item \in page.told PROVE FALSE
    <3>1. page.latest # n
      <4> SUFFICES ASSUME page.latest = n PROVE FALSE OBVIOUS
      <4>1. page.latest \in DOMAIN turns /\ DOMAIN turns = 1 .. Len(turns) BY TellFacts, Known
      <4>2. page.latest # 0 BY <4>1
      <4>3. turns[page.latest].done BY <2>1, <4>2 DEF TellInvariant, WireInOrder
      <4> QED BY <4>3, LiveTurns
    <3>2. ~Begun(n) BY <2>1 DEF Begun
    <3> QED BY <2>1, <2>2, <3>1, <3>2 DEF TellInvariant, ToldIsGuarded
  <2>3. ToldIsGuarded' /\ SendsAlone' BY <1>1, <1>2, <2>2 DEF ToldIsGuarded, SendsAlone, PageKept
  <2> QED BY <1>1, <1>2, <1>3, <2>3, PageStill
<1>5. CASE page' = page
  <2>1. SendsAlone' BY <1>1, <1>5 DEF TellInvariant, SendsAlone
  <2>2. ToldIsGuarded'
    <3> SUFFICES ASSUME NEW n \in Live(turns), turns[n].item \in page.told, page.latest # n, ~Begun(n)
                 PROVE  /\ Coming(n, 0)' /\ page'.sending = 0
                        /\ queue' = << >> \/ (barrier'.on /\ barrier'.turn = n /\ barrier'.prev = page'.latest)
      BY <1>1, <1>2, <1>5, Unmoved DEF ToldIsGuarded
    <3>1. /\ Coming(n, 0) /\ page.sending = 0
          /\ queue = << >> \/ (barrier.on /\ barrier.turn = n /\ barrier.prev = page.latest)
      BY DEF TellInvariant, ToldIsGuarded
    <3>2. Coming(n, 0)' BY <1>1, <1>2, <3>1, Unmoved
    <3>3. CASE queue = << >> BY <1>1, <1>5, <3>1, <3>2, <3>3
    <3>4. CASE barrier.on /\ barrier.turn = n /\ barrier.prev = page.latest
      <4>1. Shown = "idle" BY <3>1, IdleBefore DEF Shown
      <4>2. n # 0 BY LiveTurns, Known
      <4>3. Observed(barrier) = n BY <3>4, <4>2 DEF Observed
      <4>4. barrier' = [barrier EXCEPT !.turn = n] BY <1>1, <3>4, <4>1, <4>2, <4>3 DEF Advanced
      <4>5. barrier'.on /\ barrier'.turn = n /\ barrier'.prev = page.latest BY <3>4, <4>4, TellFacts
      <4> QED BY <1>5, <3>1, <3>2, <4>5
    <3> QED BY <3>1, <3>3, <3>4
  <2> QED BY <1>1, <1>2, <1>3, <2>1, <2>2, PageStill
<1> QED BY <1>1, <1>4, <1>5

----
(* What comes back to the page. *)

\* A page that reads all of the session knows of the last Turn, the only one that
\* may go on.
LEMMA ReadsAll ==
  ASSUME OnceInvariant, TellInvariant, UNCHANGED <<turns, srv, op, results, barrier>>,
         page'.latest = Len(turns), page'.done = (Live(turns) = {}), page'.told = page.told,
         page'.state = srv.state, page'.gate \in BOOLEAN, srv.gate => page'.gate,
         page'.sending \in {page.sending, 0}, wire' = << >>, answer'.behind = 0,
         \/ answer'.what = answer.what /\ answer'.to = answer.to /\ answer'.turn = answer.turn
         \/ answer'.what = "none"
  PROVE  TellInvariant'
<1>1. /\ Len(turns) \in Nat /\ DOMAIN turns = 1 .. Len(turns) /\ Len(turns) \in DOMAIN turns
      /\ Live(turns) \subseteq {Len(turns)}
  <2>1. Len(turns) \in Nat /\ DOMAIN turns = 1 .. Len(turns) /\ Live(turns) \subseteq {Len(turns)} BY Known
  <2>2. page.latest \in 1 .. Len(turns) BY <2>1, TellFacts
  <2> QED BY <2>1, <2>2
<1>2. wire' \in Seq(Event) /\ Len(wire') = 0 /\ DOMAIN wire' = {} BY EmptySeq
<1>3. TellTypes' BY <1>1, <1>2, Known, TellFacts DEF TellTypes
<1>4. OnlyLastLives' BY Known DEF OnlyLastLives
<1>5. WireInOrder'
  <2>1. page'.done => turns[Len(turns)].done BY <1>1, LiveTurns
  <2> QED BY <1>2, <2>1 DEF WireInOrder
<1>6. InStep'
  <2>1. \A kind : LastOf(wire', 0, kind, 0) BY DEF LastOf
  <2>2. StateAfter(0, srv.state)' /\ (srv.gate => OpenAfter(0)')
    <3>1. 0 \in 0 .. 0 OBVIOUS
    <3> QED BY <2>1, <3>1 DEF StateAfter, OpenAfter
  <2> QED BY <1>2, <2>2 DEF InStep, StateAfter, OpenAfter
<1>7. StartedHasTurn'
  <2>1. \A n \in Live(turns) : page'.latest = n BY <1>1
  <2> QED BY <2>1 DEF TellInvariant, StartedHasTurn
<1>8. AnswerKnows'
  <2> SUFFICES ASSUME answer'.what = "started", answer'.to \in Messages
               PROVE  /\ results[answer'.to] = [what |-> "started", turn |-> answer'.turn]
                      /\ answer'.turn \in Live(turns) => page'.latest = answer'.turn
    BY DEF AnswerKnows
  <2> QED BY <1>1 DEF TellInvariant, AnswerKnows
<1>9. ToldIsGuarded' BY <1>1 DEF ToldIsGuarded
<1>10. SendsAlone' BY DEF TellInvariant, SendsAlone
<1> QED BY <1>3, <1>4, <1>5, <1>6, <1>7, <1>8, <1>9, <1>10 DEF TellInvariant

\* The fields of a page that has read the session, or all of it.
LEMMA ReadFields ==
  ASSUME OrderInvariant
  PROVE  LET p == Refetched(page)
             q == Refreshed(page)
         IN  /\ p.latest = Len(turns) /\ p.done = (Live(turns) = {}) /\ p.told = page.told
             /\ p.state = page.state /\ p.gate = page.gate /\ p.sending = page.sending
             /\ q.latest = Len(turns) /\ q.done = (Live(turns) = {}) /\ q.told = page.told
             /\ q.state = srv.state /\ q.gate = srv.gate /\ q.sending = page.sending
             /\ DOMAIN p = PageFields /\ DOMAIN q = PageFields
<1> DEFINE p == Refetched(page)
           q == [p EXCEPT !.state = srv.state, !.active = srv.active,
                          !.flag = srv.unsure # 0, !.gate = srv.gate]
<1>1. DOMAIN page = PageFields BY OrderFacts
<1>2. /\ p.latest = Len(turns) /\ p.done = (Live(turns) = {}) /\ p.told = page.told
      /\ p.state = page.state /\ p.gate = page.gate /\ p.sending = page.sending /\ DOMAIN p = PageFields
  BY <1>1 DEF Refetched, PageFields
<1>3. q = Refreshed(page) BY DEF Refreshed
<1> HIDE DEF p
<1>4. /\ q.latest = p.latest /\ q.done = p.done /\ q.told = p.told
      /\ q.state = srv.state /\ q.gate = srv.gate /\ q.sending = p.sending /\ DOMAIN q = PageFields
  BY <1>2 DEF PageFields
<1> QED BY <1>2, <1>3, <1>4 DEF p

\* The page reads the session again.
LEMMA RefetchTell ==
  ASSUME OnceInvariant, OrderInvariant, TellInvariant, Refetch
  PROVE  TellInvariant'
<1>1. /\ wire = << >> /\ wire' = << >> /\ page' = Refetched(page)
      /\ UNCHANGED <<turns, srv, op, results, answer, barrier>>
  BY DEF Refetch, server, stored
<1>2. /\ page'.latest = Len(turns) /\ page'.done = (Live(turns) = {}) /\ page'.told = page.told
      /\ page'.state = page.state /\ page'.gate = page.gate /\ page'.sending = page.sending
  BY <1>1, ReadFields
<1>3. page.state = srv.state /\ (srv.gate => page.gate) /\ page.gate \in BOOLEAN /\ answer.behind = 0
  <2>1. Len(wire) = 0 /\ 0 .. 0 = {0} BY <1>1, EmptySeq
  <2>2. StateAfter(0, srv.state) /\ (srv.gate => OpenAfter(0)) BY <2>1 DEF TellInvariant, InStep
  <2> QED BY <2>1, <2>2, TellFacts DEF StateAfter, OpenAfter
<1> QED BY <1>1, <1>2, <1>3, ReadsAll

\* The page is loaded again: it has been told of nothing.
LEMMA RemountTell ==
  ASSUME OnceInvariant, OrderInvariant, TellInvariant, Remount
  PROVE  TellInvariant'
<1>1. UNCHANGED <<turns, srv, op, results, queue, barrier>> /\ srv.gate \in BOOLEAN BY Known DEF Remount, stored
<1> DEFINE q == Refreshed(page)
<1>2. /\ q.latest = Len(turns) /\ q.done = (Live(turns) = {}) /\ q.told = page.told
      /\ q.state = srv.state /\ q.gate = srv.gate /\ q.sending = page.sending /\ DOMAIN q = PageFields
  BY ReadFields
<1>3. CASE page' = q /\ wire' = << >> /\ answer' = [answer EXCEPT !.behind = 0]
  <2>1. answer'.behind = 0 /\ answer'.what = answer.what /\ answer'.to = answer.to /\ answer'.turn = answer.turn
    BY <1>3, OrderFacts DEF AnswerFields
  <2> HIDE DEF q
  <2> QED BY <1>1, <1>2, <1>3, <2>1, ReadsAll
<1>4. CASE page' = [page EXCEPT !.last = 0] /\ wire' = wire /\ answer' = answer
  <2>1. PageKept /\ page'.sending = page.sending BY <1>4, OrderFacts DEF PageKept, PageFields
  <2>2. TurnsGo /\ WireGrows BY <1>1, <1>4, TurnsRest, TellFacts DEF WireGrows
  <2>3. ToldIsGuarded' /\ SendsAlone' BY <1>1, <2>1, <2>2, GuardKept
  <2> QED BY <1>1, <1>4, <2>1, <2>3, TellFacts, PageStill
<1>5. CASE page' = [q EXCEPT !.last = 0, !.sending = 0, !.pending = 0] /\ wire' = << >> /\ answer' = NoAnswer
  <2>1. answer'.behind = 0 /\ answer'.what = "none" BY <1>5 DEF NoAnswer
  <2> HIDE DEF q
  <2>2. /\ page'.latest = q.latest /\ page'.done = q.done /\ page'.told = q.told
        /\ page'.state = q.state /\ page'.gate = q.gate /\ page'.sending = 0
    BY <1>2, <1>5 DEF PageFields
  <2> QED BY <1>1, <1>2, <1>5, <2>1, <2>2, ReadsAll
<1> QED BY <1>3, <1>4, <1>5 DEF Remount

\* The next event.
LEMMA ReceiveTell ==
  ASSUME OnceInvariant, OrderInvariant, TellInvariant, Receive
  PROVE  TellInvariant'
<1>1. /\ 1 \in DOMAIN wire /\ Len(wire) \in Nat \ {0} /\ DOMAIN wire = 1 .. Len(wire)
      /\ wire' \in Seq(Event) /\ Len(wire') = Len(wire) - 1 /\ DOMAIN wire' = 1 .. Len(wire) - 1
      /\ \A k \in 1 .. Len(wire) - 1 : wire'[k] = wire[k + 1]
      /\ page'.told = page.told /\ page'.sending = page.sending
      /\ answer'.behind = (IF answer.behind = 0 THEN 0 ELSE answer.behind - 1)
      /\ answer'.to = answer.to /\ answer'.what = answer.what /\ answer'.turn = answer.turn
      /\ UNCHANGED <<turns, srv, op, results, queue, barrier>>
  BY NextEvent, TellFacts
<1>2. /\ page'.state = IF wire[1].kind = "runtime" THEN wire[1].state ELSE page.state
      /\ page'.gate = IF wire[1].kind = "gate" THEN wire[1].open ELSE page.gate
      /\ page'.latest = IF wire[1].kind = "turn" THEN wire[1].turn ELSE page.latest
      /\ page'.done = IF wire[1].kind = "turn" THEN wire[1].done ELSE page.done
  BY NextEvent
<1>3. /\ Len(turns) \in Nat /\ DOMAIN turns = 1 .. Len(turns) /\ page.latest \in 1 .. Len(turns)
      /\ Live(turns) \subseteq {Len(turns)}
  BY Known, TellFacts
<1>4. /\ wire[1] \in Event
      /\ wire[1].kind = "turn" => /\ wire[1].turn \in page.latest .. Len(turns)
                                  /\ wire[1].done => turns[wire[1].turn].done
  BY <1>1, TellFacts DEF TellInvariant, WireInOrder
<1>5. /\ page'.latest \in page.latest .. Len(turns) /\ page'.latest \in DOMAIN turns
      /\ page'.done => turns[page'.latest].done
  <2>1. page.done => turns[page.latest].done BY DEF TellInvariant, WireInOrder
  <2> QED BY <1>2, <1>3, <1>4, <2>1
<1>6. \A n \in Live(turns) : page.latest = n => page'.latest = n BY <1>3, <1>5
<1>7. TellTypes'
  <2>1. /\ page'.state \in {"idle", "running", "disconnected"} /\ page'.gate \in BOOLEAN
        /\ page'.done \in BOOLEAN
    BY <1>2, <1>4, TellFacts DEF Event, Applied
  <2>2. answer'.behind \in 0 .. Len(wire') BY <1>1, TellFacts
  <2> QED BY <1>1, <1>5, <2>1, <2>2, TellFacts DEF TellTypes
<1>8. OnlyLastLives' BY <1>1, Known DEF OnlyLastLives
<1>9. WireInOrder'
  <2>1. ASSUME NEW k \in DOMAIN wire', wire'[k].kind = "turn"
        PROVE  /\ wire'[k].turn \in page'.latest .. Len(turns)
               /\ wire'[k].done => turns[wire'[k].turn].done
    <3>1. k + 1 \in DOMAIN wire /\ wire'[k] = wire[k + 1] /\ 1 < k + 1 BY <1>1
    <3>2. /\ wire[k + 1].turn \in page.latest .. Len(turns)
          /\ wire[k + 1].done => turns[wire[k + 1].turn].done
          /\ wire[1].kind = "turn" => wire[1].turn <= wire[k + 1].turn
      BY <1>1, <2>1, <3>1 DEF TellInvariant, WireInOrder
    <3> QED BY <1>2, <1>3, <1>5, <3>1, <3>2
  <2>2. ASSUME NEW j \in DOMAIN wire', NEW k \in DOMAIN wire', j < k,
               wire'[j].kind = "turn", wire'[k].kind = "turn"
        PROVE  wire'[j].turn <= wire'[k].turn
    <3>1. /\ k + 1 \in DOMAIN wire /\ j + 1 \in DOMAIN wire /\ j + 1 < k + 1
          /\ wire'[k] = wire[k + 1] /\ wire'[j] = wire[j + 1]
      BY <1>1, <2>2
    <3> QED BY <2>2, <3>1 DEF TellInvariant, WireInOrder
  <2> QED BY <1>1, <1>5, <2>1, <2>2 DEF WireInOrder
<1>10. InStep'
  <2> SUFFICES ASSUME NEW k, k = Len(wire), NEW s, s = srv.state PROVE InStep' OBVIOUS
  <2>1. k \in 1 .. Len(wire) /\ StateAfter(k, s) /\ (srv.gate => OpenAfter(k)) BY <1>1 DEF TellInvariant, InStep
  <2>2. StateAfter(k - 1, s)' /\ (srv.gate => OpenAfter(k - 1)') BY <2>1, AfterHeard
  <2> QED BY <1>1, <2>2 DEF InStep, StateAfter, OpenAfter
<1>11. StartedHasTurn'
  <2>1. ASSUME NEW n \in Live(turns), page.latest = n \/ InWire(n, Len(wire))
        PROVE  page'.latest = n \/ \E j \in 1 .. Len(wire') : wire'[j] = TurnEvent(n, FALSE)
    <3> SUFFICES ASSUME NEW m, m = n, NEW k, k = Len(wire), InWire(m, k)
                 PROVE  page'.latest = m \/ \E j \in 1 .. Len(wire') : wire'[j] = TurnEvent(m, FALSE)
      BY <1>6, <2>1
    <3>1. k \in 1 .. Len(wire) /\ Len(wire') = k - 1 BY <1>1
    <3>2. page'.latest = m \/ InWire(m, k - 1)' BY <3>1, AfterHeard
    <3> QED BY <3>1, <3>2 DEF InWire, TurnEvent
  <2>2. ASSUME NEW i \in Messages, results[i].what = "started"
        PROVE  /\ results[i].turn \in DOMAIN turns /\ turns[results[i].turn].item = i
               /\ results[i].turn \in Live(turns) =>
                     page'.latest = results[i].turn
                     \/ \E j \in 1 .. Len(wire') : wire'[j] = TurnEvent(results[i].turn, FALSE)
    <3>1. /\ results[i].turn \in DOMAIN turns /\ turns[results[i].turn].item = i
          /\ results[i].turn \in Live(turns) => page.latest = results[i].turn \/ InWire(results[i].turn, Len(wire))
      BY <2>2 DEF TellInvariant, StartedHasTurn
    <3> QED BY <2>1, <3>1
  <2>3. srv.unsure \in Items => results[srv.unsure].what = "uncertain" BY Known
  <2>4. \A i \in page'.told : results[i].what = "started" BY <1>1, Known
  <2> QED BY <1>1, <2>2, <2>3, <2>4 DEF StartedHasTurn, InWire, TurnEvent
<1>12. AnswerKnows'
  <2> SUFFICES ASSUME NEW i, NEW n, NEW k, NEW l, i = answer'.to, n = answer'.turn, k = answer.behind,
                      l = answer'.behind
               PROVE  AnswerKnows'
    OBVIOUS
  <2>1. i = answer.to /\ n = answer.turn /\ answer'.what = answer.what /\ results' = results /\ turns' = turns
    BY <1>1
  <2>2. ASSUME answer'.what = "started", i \in Messages
        PROVE  /\ results'[i] = [what |-> "started", turn |-> n]
               /\ n \in Live(turns') =>
                     page'.latest = n \/ InWire(n, l)' \/ Coming(n, l)' \/ (l = 0 /\ Begun(n)')
    <3>1. /\ results[i] = [what |-> "started", turn |-> n]
          /\ n \in Live(turns) => page.latest = n \/ InWire(n, k) \/ Coming(n, k) \/ (k = 0 /\ Begun(n))
      BY <2>1, <2>2 DEF TellInvariant, AnswerKnows
    <3>2. CASE k = 0
      <4>1. l = 0 /\ ~InWire(n, 0) BY <1>1, <3>2 DEF InWire
      <4> QED BY <1>6, <2>1, <3>1, <3>2, <4>1, AfterHeard
    <3>3. CASE k # 0
      <4>1. l = k - 1 /\ k \in 1 .. Len(wire) BY <1>1, <3>3, TellFacts
      <4> QED BY <1>6, <2>1, <3>1, <3>3, <4>1, AfterHeard
    <3> QED BY <3>2, <3>3
  <2>3. answer'.to = i /\ answer'.turn = n /\ answer'.behind = l OBVIOUS
  <2> QED BY ONLY <2>2, <2>3, AnswerOf
<1>13. ToldIsGuarded'
  <2> SUFFICES ASSUME NEW n \in Live(turns), turns[n].item \in page.told
               PROVE  page'.latest = n \/ Begun(n)'
    BY <1>1 DEF ToldIsGuarded
  <2>1. page.latest = n \/ Begun(n) \/ Coming(n, 0) BY DEF TellInvariant, ToldIsGuarded
  <2> QED BY <1>6, <2>1, AfterHeard
<1>14. SendsAlone' BY <1>1 DEF TellInvariant, SendsAlone
<1> QED BY <1>7, <1>8, <1>9, <1>10, <1>11, <1>12, <1>13, <1>14 DEF TellInvariant

\* The answer: the page was told of nothing that goes on, and what it is told of now
\* has begun, comes next, or is awaited by the barrier.
LEMMA AnswerArrivesTell ==
  ASSUME OnceInvariant, OrderInvariant, TellInvariant, AnswerArrives
  PROVE  TellInvariant'
<1> DEFINE i == answer.to
           ended == [page EXCEPT !.sending = 0]
<1>1. /\ answer # NoAnswer /\ answer.behind = 0 /\ answer' = NoAnswer
      /\ UNCHANGED <<turns, srv, op, results, wire>>
      /\ \/ /\ answer.what = "started"
            /\ Leaves(i, Barrier(IF i \in Compacts THEN page.prev ELSE page.latest, answer.turn))
            /\ page' = [ended EXCEPT !.pending = IF i \in Compacts THEN ended.pending ELSE 0,
                                     !.last = IF Without(i) = << >> THEN 0 ELSE ended.last,
                                     !.told = ended.told \cup ({i} \ Compacts)]
         \/ page' = ended /\ UNCHANGED barrier
         \/ page' = [ended EXCEPT !.pending = IF i \in Compacts THEN ended.pending ELSE 0] /\ UNCHANGED barrier
  BY DEF AnswerArrives, server, stored
<1>2. /\ DOMAIN ended = PageFields /\ ended.sending = 0 /\ ended.told = page.told
      /\ ended.state = page.state /\ ended.gate = page.gate /\ ended.latest = page.latest /\ ended.done = page.done
  BY OrderFacts DEF PageFields
<1>3. i \in Items /\ page.sending = i /\ i # 0 BY <1>1, OrderFacts, ItemNumbers DEF OrderInvariant, AnswerIsLast
<1> HIDE DEF ended
<1>4. /\ page'.sending = 0 /\ page'.state = page.state /\ page'.gate = page.gate
      /\ page'.latest = page.latest /\ page'.done = page.done
      /\ page'.told = IF answer.what = "started" /\ page'.told # page.told
                      THEN page.told \cup ({i} \ Compacts) ELSE page.told
  BY <1>1, <1>2 DEF PageFields
<1>5. \A n \in Live(turns) : turns[n].item \notin page.told BY <1>3 DEF TellInvariant, SendsAlone
<1>6. DOMAIN barrier' = {"prev", "turn", "on"} /\ barrier'.on \in BOOLEAN
  <2> DEFINE b == Barrier(IF i \in Compacts THEN page.prev ELSE page.latest, answer.turn)
  <2>1. DOMAIN b = {"prev", "turn", "on"} /\ b.on = TRUE BY DEF Barrier
  <2>2. DOMAIN NoBarrier = {"prev", "turn", "on"} /\ NoBarrier.on = FALSE BY DEF NoBarrier
  <2>3. barrier' \in {NoBarrier, b, barrier} BY <1>1 DEF Leaves
  <2> HIDE DEF b
  <2> QED BY <2>1, <2>2, <2>3, TellFacts
<1> HIDE DEF i
<1>7. TellTypes'
  <2>1. page'.told \subseteq Messages BY <1>3, <1>4, TellFacts DEF Messages
  <2> QED BY <1>1, <1>4, <1>6, <2>1, TellFacts DEF TellTypes, NoAnswer
<1>8. OnlyLastLives' /\ WireInOrder' BY <1>1, <1>4 DEF TellInvariant, OnlyLastLives, WireInOrder
<1>9. InStep'
  <2>1. StateAfter(Len(wire), srv.state) /\ (srv.gate => OpenAfter(Len(wire))) BY DEF TellInvariant, InStep
  <2> QED BY <1>1, <1>4, <2>1 DEF InStep, StateAfter, OpenAfter, LastOf
<1>10. ASSUME page'.told # page.told, i \in Messages
       PROVE  /\ results[i] = [what |-> "started", turn |-> answer.turn]
              /\ answer.turn \in Live(turns) => page.latest = answer.turn \/ Begun(answer.turn) \/ Coming(answer.turn, 0)
  <2>1. answer.what = "started" /\ answer.to \in Messages /\ answer.behind = 0 BY <1>1, <1>4, <1>10 DEF i
  <2>2. ~InWire(answer.turn, 0) BY DEF InWire
  <2> QED BY <2>1, <2>2 DEF TellInvariant, AnswerKnows, i
<1>11. StartedHasTurn'
  <2>1. \A j \in page'.told : results[j].what = "started" BY <1>3, <1>4, <1>10, Known DEF Messages
  <2>2. StartedHasTurn BY DEF TellInvariant
  <2> QED BY <1>1, <1>4, <2>1, <2>2 DEF StartedHasTurn, InWire
<1>12. AnswerKnows' BY <1>1 DEF AnswerKnows, NoAnswer
<1>13. SendsAlone' BY <1>4 DEF SendsAlone
<1>14. ToldIsGuarded'
  <2> SUFFICES ASSUME NEW n \in Live(turns), turns[n].item \in page'.told, page.latest # n, ~Begun(n)
               PROVE  /\ Coming(n, 0)' /\ page'.sending = 0
                      /\ queue' = << >> \/ (barrier'.on /\ barrier'.turn = n /\ barrier'.prev = page'.latest)
    BY <1>1, <1>4 DEF ToldIsGuarded, Begun, TurnEvent
  <2>1. page'.told # page.told /\ turns[n].item = i /\ i \in Messages /\ answer.what = "started"
    BY <1>3, <1>4, <1>5 DEF Messages
  <2>2. n = answer.turn
    <3>1. results[i].what = "started" /\ results[i].turn = answer.turn BY <1>10, <2>1
    <3>2. answer.turn \in DOMAIN turns /\ turns[answer.turn].item = i
      BY <2>1, <3>1 DEF TellInvariant, StartedHasTurn
    <3> QED BY <2>1, <3>2, LiveTurns DEF OnceInvariant, QueuedOnce
  <2>3. Coming(n, 0) BY <1>10, <2>1, <2>2
  <2>4. Coming(n, 0)' BY <1>1, <1>4, <2>3 DEF Coming, StateAfter, OpenAfter, LastOf, Runtime, TurnEvent
  <2>5. Leaves(i, Barrier(page.latest, n))
    <3>1. page' # ended /\ page' # [ended EXCEPT !.pending = IF i \in Compacts THEN ended.pending ELSE 0]
      <4>1. [ended EXCEPT !.pending = IF i \in Compacts THEN ended.pending ELSE 0].told = page.told
        BY <1>2 DEF PageFields
      <4> QED BY <1>2, <2>1, <4>1
    <3> QED BY <1>1, <2>1, <2>2, <3>1 DEF Messages
  <2>6. queue' = << >> \/ barrier' = Barrier(page.latest, n) BY <2>5 DEF Leaves
  <2> QED BY <1>4, <2>4, <2>6 DEF Barrier
<1> QED BY <1>7, <1>8, <1>9, <1>11, <1>12, <1>13, <1>14 DEF TellInvariant

\* The invariant holds at the start.
LEMMA TellInit == Init => TellInvariant
<1> SUFFICES ASSUME Init PROVE TellInvariant OBVIOUS
<1>1. /\ turns = <<[item |-> 0, done |-> FALSE]>> /\ op = 0 /\ answer = NoAnswer /\ wire = << >>
      /\ srv.state = "running" /\ srv.active = 1 /\ srv.unsure = 0 /\ srv.gate = TRUE
      /\ results = [i \in Items |-> [what |-> "none", turn |-> 0]] /\ barrier = NoBarrier
      /\ page.state = "running" /\ page.gate = TRUE /\ page.latest = 1 /\ page.done = FALSE
      /\ page.told = {} /\ page.sending = 0
  BY DEF Init
<1>2. /\ Len(turns) = 1 /\ DOMAIN turns = {1} /\ turns[1].done = FALSE
      /\ Len(wire) = 0 /\ wire \in Seq(Event) /\ DOMAIN wire = {}
  BY <1>1
<1>3. Live(turns) = {1} BY <1>2, LiveTurns
<1>4. TellTypes
  <2>1. answer.behind = 0 /\ DOMAIN barrier = {"prev", "turn", "on"} /\ barrier.on = FALSE
    BY <1>1 DEF NoAnswer, NoBarrier
  <2>2. 0 \in 0 .. 0 /\ 1 \in {1} /\ {} \subseteq Messages OBVIOUS
  <2>3. wire \in Seq(Event) /\ answer.behind \in 0 .. Len(wire) BY <1>2, <2>1, <2>2
  <2>4. /\ page.state \in {"idle", "running", "disconnected"} /\ page.gate \in BOOLEAN
        /\ page.latest \in DOMAIN turns /\ page.done \in BOOLEAN /\ page.told \subseteq Messages
    BY <1>1, <1>2, <2>2
  <2> QED BY <2>1, <2>3, <2>4 DEF TellTypes
<1>5. OnlyLastLives BY <1>1, <1>2, <1>3 DEF OnlyLastLives
<1>6. WireInOrder BY <1>1, <1>2 DEF WireInOrder
<1>7. InStep
  <2>1. \A kind : LastOf(wire, 0, kind, 0) BY DEF LastOf
  <2>2. 0 \in 0 .. 0 OBVIOUS
  <2> QED BY <1>1, <1>2, <2>1, <2>2 DEF InStep, StateAfter, OpenAfter
<1>8. StartedHasTurn BY <1>1, ItemNumbers DEF StartedHasTurn
<1>9. AnswerKnows /\ ToldIsGuarded /\ SendsAlone BY <1>1 DEF AnswerKnows, NoAnswer, ToldIsGuarded, SendsAlone
<1> QED BY <1>4, <1>5, <1>6, <1>7, <1>8, <1>9 DEF TellInvariant

\* What no step changes keeps the invariant.
LEMMA NothingTell ==
  ASSUME OnceInvariant, TellInvariant, UNCHANGED vars
  PROVE  TellInvariant'
<1>1. UNCHANGED <<turns, srv, op, results, answer, wire, queue, barrier, page>> BY DEF vars, server, stored
<1>2. TurnsGo /\ WireGrows /\ PageKept /\ page'.sending = page.sending
  BY <1>1, TurnsRest, TellFacts DEF WireGrows, PageKept
<1>3. ToldIsGuarded' /\ SendsAlone' BY <1>1, <1>2, GuardKept
<1> QED BY <1>1, <1>2, <1>3, TellFacts, PageStill

\* What the page was told, what is on its way to it and what the server has done fit
\* in every reachable state.
THEOREM TellInductive == Spec => []TellInvariant
<1>1. Init => TellInvariant BY TellInit
<1>2. OnceInvariant /\ OrderInvariant /\ TellInvariant /\ [Next]_vars => TellInvariant'
  <2> SUFFICES ASSUME OnceInvariant, OrderInvariant, TellInvariant, [Next]_vars PROVE TellInvariant' OBVIOUS
  <2>1. CASE User BY <2>1, QuietTell, EnqueueTell, SteerTell, ResolveTell, SendAgainTell, RemountTell DEF User
  <2>2. CASE Arrives BY <2>2, ReceiveTell, AnswerArrivesTell, RefetchTell DEF Arrives
  <2>3. CASE Server
    BY <2>3, HandleAnsweredTell, HandleStartTell, StartsTell, FailsTell, IsUncertainTell, GateClosesTell,
      ReconcileTell, TurnEndsTell, OtherStartsTell DEF Server
  <2>4. CASE UNCHANGED vars BY <2>4, NothingTell
  <2> QED BY <2>1, <2>2, <2>3, <2>4, EffectsTell DEF Next
<1> QED BY <1>1, <1>2, QueueInductive, OrderInductive, PTL DEF Spec

\* However the events, the answers and the losses fall: the page does not ask for an
\* item while a Turn goes on of which it was told that a queued message started it.
THEOREM QueueWaitsForItsTurns == Spec => []OneAfterAnother
<1>1. OrderInvariant /\ TellInvariant => OneAfterAnother
  <2> SUFFICES ASSUME OrderInvariant, TellInvariant PROVE OneAfterAnother OBVIOUS
  <2>1. \A i \in asked : i # 0 BY OrderFacts, ItemNumbers
  <2> QED BY <2>1 DEF OneAfterAnother, TellInvariant, SendsAlone
<1> QED BY <1>1, OrderInductive, TellInductive, PTL
====
