---- MODULE KeyedLockProofs ----
(*
KeyedLock keeps operations out of each other's keys, for any number of
operations, keys and plans.  The calls on a key are numbered by ticket;
those still in the chain hold the numbers above `served`, each chained
on the number before its own, and only number served + 1 may be inside.
The last part shows that the lock implements the queues of KeyQueues.
*)
EXTENDS KeyedLock, SequenceTheorems, TLAPS

\* The tickets in use on key k are distinct and lie in served + 1 .. issued.
TicketsDistinct ==
  \A k \in Keys : \A o, p \in Ops :
      stage[o][k] # "absent" /\ stage[p][k] # "absent" /\ ticket[o][k] = ticket[p][k] => o = p

TicketsInRange ==
  \A k \in Keys : \A o \in Ops :
      /\ stage[o][k] = "absent" => ticket[o][k] = 0
      /\ stage[o][k] # "absent" => ticket[o][k] > 0 /\ ticket[o][k] <= issued[k]
      /\ InUse(o, k) => served[k] < ticket[o][k]
      /\ stage[o][k] = "cleared" => ticket[o][k] <= served[k]

\* The map's entry is the last call; without an entry nothing is pending.
EntryIsLast ==
  \A k \in Keys :
      /\ locks[k] = NoOp => issued[k] = served[k]
      /\ locks[k] # NoOp => InUse(locks[k], k) /\ ticket[locks[k]][k] = issued[k]

\* A waiting call is chained on the call before it, or is next.
ChainedOnPredecessor ==
  \A k \in Keys : \A o \in Ops :
      stage[o][k] = "waiting" =>
          /\ previous[o][k] = NoOp => ticket[o][k] = served[k] + 1
          /\ previous[o][k] # NoOp =>
              /\ stage[previous[o][k]][k] # "absent"
              /\ ticket[o][k] = ticket[previous[o][k]][k] + 1

InsideIsNext ==
  \A k \in Keys : \A o \in Ops :
      stage[o][k] \in {"running", "settled"} => ticket[o][k] = served[k] + 1

IInv == TypeOK /\ TicketsDistinct /\ TicketsInRange /\ EntryIsLast /\ ChainedOnPredecessor /\ InsideIsNext

----
\* The keys of a plan are keys.
LEMMA PlanKeys == ASSUME NEW o \in Ops, NEW i \in DOMAIN Plan[o] PROVE Plan[o][i] \in Keys
  BY PlanAssumption

LEMMA InitEstablishes == Init => IInv
  BY DEF Init, IInv, TypeOK, Stages, TicketsDistinct, TicketsInRange, EntryIsLast, ChainedOnPredecessor,
    InsideIsNext, InUse

LEMMA WithKeyPreserves ==
  ASSUME IInv, NEW o \in Ops, NEW i \in DOMAIN Plan[o], WithKey(o, i)
  PROVE  IInv'
<1> DEFINE k == Plan[o][i]
<1>k. k \in Keys BY PlanKeys
<1> USE <1>k
<1>0. /\ stage[o][k] = "absent"
      /\ previous' = [previous EXCEPT ![o][k] = locks[k]]
      /\ locks' = [locks EXCEPT ![k] = o]
      /\ stage' = [stage EXCEPT ![o][k] = "waiting"]
      /\ issued' = [issued EXCEPT ![k] = issued[k] + 1]
      /\ ticket' = [ticket EXCEPT ![o][k] = issued[k] + 1]
      /\ served' = served
  BY DEF WithKey, MayCall, Entry
<1> HIDE DEF k
<1>type. TypeOK /\ TypeOK' BY <1>0 DEF IInv, TypeOK, Stages
<1>new. /\ stage'[o][k] = "waiting" /\ ticket'[o][k] = issued[k] + 1
        /\ previous'[o][k] = locks[k] /\ locks'[k] = o /\ issued'[k] = issued[k] + 1
  BY <1>0, <1>type DEF TypeOK
<1>old. \A l \in Keys : \A p \in Ops : p # o \/ l # k =>
          /\ stage'[p][l] = stage[p][l] /\ ticket'[p][l] = ticket[p][l]
          /\ previous'[p][l] = previous[p][l]
  BY <1>0, <1>type DEF TypeOK
<1>keys. \A l \in Keys : l # k => locks'[l] = locks[l] /\ issued'[l] = issued[l] BY <1>0, <1>type DEF TypeOK
<1>noop. o # NoOp BY PlanAssumption
<1>entry. locks[k] # NoOp =>
          /\ locks[k] \in Ops /\ locks[k] # o
          /\ InUse(locks[k], k) /\ ticket[locks[k]][k] = issued[k]
  BY <1>0, <1>type DEF IInv, EntryIsLast, InUse, TypeOK
<1>1. TicketsDistinct'
  <2> SUFFICES ASSUME NEW l \in Keys, NEW p \in Ops, NEW q \in Ops,
                      stage'[p][l] # "absent", stage'[q][l] # "absent", ticket'[p][l] = ticket'[q][l]
               PROVE  p = q
    BY DEF TicketsDistinct
  <2>1. \A r \in Ops : stage[r][k] # "absent" => ticket[r][k] < issued[k] + 1
    BY <1>type DEF IInv, TicketsInRange, TypeOK
  <2>2. CASE l # k BY <2>2, <1>old DEF IInv, TicketsDistinct
  <2>3. CASE l = k /\ p # o /\ q # o BY <2>3, <1>old DEF IInv, TicketsDistinct
  <2>4. CASE l = k /\ p = o /\ q # o
    <3>1. stage[q][k] # "absent" /\ ticket[q][k] = issued[k] + 1 BY <2>4, <1>new, <1>old
    <3> QED BY <3>1, <2>1, <1>type DEF TypeOK
  <2>5. CASE l = k /\ p # o /\ q = o
    <3>1. stage[p][k] # "absent" /\ ticket[p][k] = issued[k] + 1 BY <2>5, <1>new, <1>old
    <3> QED BY <3>1, <2>1, <1>type DEF TypeOK
  <2> QED BY <2>2, <2>3, <2>4, <2>5
<1>2. TicketsInRange'
  <2> SUFFICES ASSUME NEW l \in Keys, NEW p \in Ops
               PROVE  /\ stage'[p][l] = "absent" => ticket'[p][l] = 0
                      /\ stage'[p][l] # "absent" => ticket'[p][l] > 0 /\ ticket'[p][l] <= issued'[l]
                      /\ InUse(p, l)' => served'[l] < ticket'[p][l]
                      /\ stage'[p][l] = "cleared" => ticket'[p][l] <= served'[l]
    BY DEF TicketsInRange
  <2>1. served[k] <= issued[k]
    <3>1. CASE locks[k] = NoOp BY <3>1, <1>type DEF IInv, EntryIsLast, TypeOK
    <3>2. CASE locks[k] # NoOp BY <3>2, <1>entry, <1>type DEF IInv, TicketsInRange, TypeOK
    <3> QED BY <3>1, <3>2
  <2>2. CASE p = o /\ l = k BY <2>1, <2>2, <1>0, <1>new, <1>type DEF InUse, TypeOK
  <2>3. CASE p # o \/ l # k
    BY <2>3, <1>0, <1>new, <1>old, <1>keys, <1>type DEF IInv, TicketsInRange, InUse, TypeOK
  <2> QED BY <2>2, <2>3
<1>3. EntryIsLast'
  <2> SUFFICES ASSUME NEW l \in Keys
               PROVE  /\ locks'[l] = NoOp => issued'[l] = served'[l]
                      /\ locks'[l] # NoOp => stage'[locks'[l]][l] \in {"waiting", "running", "settled"} /\ ticket'[locks'[l]][l] = issued'[l]
    BY DEF EntryIsLast, InUse
  <2>1. CASE l = k BY <2>1, <1>new, <1>noop DEF InUse
  <2>2. CASE l # k
    <3>1. locks'[l] = locks[l] /\ issued'[l] = issued[l] /\ served'[l] = served[l] BY <2>2, <1>0, <1>keys
    <3>2. CASE locks[l] = NoOp BY <3>1, <3>2 DEF IInv, EntryIsLast
    <3>3. CASE locks[l] # NoOp
      <4>1. locks[l] \in Ops BY <3>3, <1>type DEF TypeOK
      <4> QED BY <4>1, <3>1, <3>3, <2>2, <1>old DEF IInv, EntryIsLast, InUse
    <3> QED BY <3>2, <3>3
  <2> QED BY <2>1, <2>2
<1>4. ChainedOnPredecessor'
  <2> SUFFICES ASSUME NEW l \in Keys, NEW p \in Ops, stage'[p][l] = "waiting"
               PROVE  /\ previous'[p][l] = NoOp => ticket'[p][l] = served'[l] + 1
                      /\ previous'[p][l] # NoOp =>
                            /\ stage'[previous'[p][l]][l] # "absent"
                            /\ ticket'[p][l] = ticket'[previous'[p][l]][l] + 1
    BY DEF ChainedOnPredecessor
  <2>1. CASE p = o /\ l = k
    <3>1. CASE locks[k] = NoOp BY <3>1, <2>1, <1>0, <1>new DEF IInv, EntryIsLast
    <3>2. CASE locks[k] # NoOp
      <4>1. /\ stage'[locks[k]][k] = stage[locks[k]][k]
            /\ ticket'[locks[k]][k] = issued[k]
        BY <3>2, <1>entry, <1>old
      <4> QED BY <4>1, <3>2, <2>1, <1>entry, <1>new DEF InUse
    <3> QED BY <3>1, <3>2
  <2>2. CASE p # o \/ l # k
    <3>1. previous'[p][l] = previous[p][l] /\ stage[p][l] = "waiting" /\ ticket'[p][l] = ticket[p][l]
      BY <2>2, <1>old
    <3>2. previous[p][l] # NoOp =>
            /\ previous[p][l] \in Ops
            /\ stage[previous[p][l]][l] # "absent"
            /\ ticket[p][l] = ticket[previous[p][l]][l] + 1
      BY <3>1, <1>type DEF IInv, ChainedOnPredecessor, TypeOK
    <3>3. previous[p][l] # NoOp =>
            /\ stage'[previous[p][l]][l] # "absent"
            /\ ticket'[previous[p][l]][l] = ticket[previous[p][l]][l]
      BY <3>2, <1>0, <1>old
    <3> QED BY <3>1, <3>2, <3>3, <1>0 DEF IInv, ChainedOnPredecessor
  <2> QED BY <2>1, <2>2
<1>5. InsideIsNext' BY <1>0, <1>new, <1>old DEF IInv, InsideIsNext
<1> QED BY <1>type, <1>1, <1>2, <1>3, <1>4, <1>5 DEF IInv

LEMMA EnterPreserves ==
  ASSUME IInv, NEW o \in Ops, NEW k \in Keys, Enter(o, k)
  PROVE  IInv'
<1>0. /\ stage[o][k] = "waiting"
      /\ stage' = [stage EXCEPT ![o][k] = "running"]
      /\ UNCHANGED <<locks, previous, issued, served, ticket>>
  BY DEF Enter
<1>type. TypeOK /\ TypeOK' BY <1>0 DEF IInv, TypeOK, Stages
<1>stage. \A l \in Keys : \A p \in Ops :
            stage'[p][l] = IF p = o /\ l = k THEN "running" ELSE stage[p][l]
  BY <1>0, <1>type DEF TypeOK
<1>next. ticket[o][k] = served[k] + 1
  <2>1. CASE previous[o][k] = NoOp BY <2>1, <1>0 DEF IInv, ChainedOnPredecessor
  <2>2. CASE previous[o][k] # NoOp
    <3>1. previous[o][k] \in Ops /\ stage[previous[o][k]][k] = "cleared"
      BY <2>2, <1>type DEF Enter, PreviousSettled, TypeOK
    <3>2. ticket[previous[o][k]][k] <= served[k] /\ ticket[o][k] = ticket[previous[o][k]][k] + 1
      BY <3>1, <2>2, <1>0 DEF IInv, TicketsInRange, ChainedOnPredecessor
    <3>3. served[k] < ticket[o][k] BY <1>0 DEF IInv, TicketsInRange, InUse
    <3> QED BY <3>1, <3>2, <3>3, <1>type DEF TypeOK
  <2> QED BY <2>1, <2>2
<1>1. TicketsDistinct' /\ TicketsInRange' BY <1>0, <1>stage DEF IInv, TicketsDistinct, TicketsInRange, InUse
<1>2. EntryIsLast' BY <1>0, <1>stage, <1>type DEF IInv, EntryIsLast, InUse, TypeOK
<1>3. ChainedOnPredecessor' BY <1>0, <1>stage, <1>type DEF IInv, ChainedOnPredecessor, TypeOK
<1>4. InsideIsNext' BY <1>0, <1>stage, <1>next DEF IInv, InsideIsNext
<1> QED BY <1>type, <1>1, <1>2, <1>3, <1>4 DEF IInv

LEMMA SettlePreserves ==
  ASSUME IInv, NEW o \in Ops, NEW i \in DOMAIN Plan[o], Settle(o, i)
  PROVE  IInv'
<1> DEFINE k == Plan[o][i]
<1>k. k \in Keys BY PlanKeys
<1>0. /\ stage[o][k] = "running"
      /\ stage' = [stage EXCEPT ![o][k] = "settled"]
      /\ UNCHANGED <<locks, previous, issued, served, ticket>>
  BY DEF Settle
<1> HIDE DEF k
<1>type. TypeOK /\ TypeOK' BY <1>0, <1>k DEF IInv, TypeOK, Stages
<1>stage. \A l \in Keys : \A p \in Ops :
            stage'[p][l] = IF p = o /\ l = k THEN "settled" ELSE stage[p][l]
  BY <1>0, <1>k, <1>type DEF TypeOK
<1>1. TicketsDistinct' /\ TicketsInRange' BY <1>0, <1>stage DEF IInv, TicketsDistinct, TicketsInRange, InUse
<1>2. EntryIsLast' BY <1>0, <1>stage, <1>type DEF IInv, EntryIsLast, InUse, TypeOK
<1>3. ChainedOnPredecessor' BY <1>0, <1>stage, <1>type DEF IInv, ChainedOnPredecessor, TypeOK
<1>4. InsideIsNext' BY <1>0, <1>stage DEF IInv, InsideIsNext
<1> QED BY <1>type, <1>1, <1>2, <1>3, <1>4 DEF IInv

LEMMA ClearPreserves ==
  ASSUME IInv, NEW o \in Ops, NEW k \in Keys, Clear(o, k)
  PROVE  IInv'
<1>0. /\ stage[o][k] = "settled"
      /\ stage' = [stage EXCEPT ![o][k] = "cleared"]
      /\ locks' = IF locks[k] = o THEN [locks EXCEPT ![k] = NoOp] ELSE locks
      /\ served' = [served EXCEPT ![k] = served[k] + 1]
      /\ UNCHANGED <<previous, issued, ticket>>
  BY DEF Clear, LocksWithout
<1>type. TypeOK /\ TypeOK' BY <1>0 DEF IInv, TypeOK, Stages
<1>stage. \A l \in Keys : \A p \in Ops :
            stage'[p][l] = IF p = o /\ l = k THEN "cleared" ELSE stage[p][l]
  BY <1>0, <1>type DEF TypeOK
<1>served. \A l \in Keys : served'[l] = IF l = k THEN served[k] + 1 ELSE served[l] BY <1>0, <1>type DEF TypeOK
<1>mine. ticket[o][k] = served[k] + 1 BY <1>0 DEF IInv, InsideIsNext
<1>others. \A p \in Ops : p # o /\ InUse(p, k) => served[k] + 1 < ticket[p][k]
  BY <1>0, <1>mine, <1>type DEF IInv, TicketsDistinct, TicketsInRange, InUse, TypeOK
<1>1. TicketsDistinct' BY <1>0, <1>stage DEF IInv, TicketsDistinct
<1>2. TicketsInRange'
  <2> SUFFICES ASSUME NEW l \in Keys, NEW p \in Ops
               PROVE  /\ stage'[p][l] = "absent" => ticket'[p][l] = 0
                      /\ stage'[p][l] # "absent" => ticket'[p][l] > 0 /\ ticket'[p][l] <= issued'[l]
                      /\ InUse(p, l)' => served'[l] < ticket'[p][l]
                      /\ stage'[p][l] = "cleared" => ticket'[p][l] <= served'[l]
    BY DEF TicketsInRange
  <2>1. CASE l # k BY <2>1, <1>0, <1>stage, <1>served DEF IInv, TicketsInRange, InUse
  <2>2. CASE l = k /\ p = o
    BY <2>2, <1>0, <1>stage, <1>served, <1>mine, <1>type DEF IInv, TicketsInRange, InUse, TypeOK
  <2>3. CASE l = k /\ p # o
    <3>1. stage'[p][k] = stage[p][k] BY <2>3, <1>stage
    <3> QED BY <3>1, <2>3, <1>0, <1>served, <1>others, <1>type DEF IInv, TicketsInRange, InUse, TypeOK
  <2> QED BY <2>1, <2>2, <2>3
<1>3. EntryIsLast'
  <2> SUFFICES ASSUME NEW l \in Keys
               PROVE  /\ locks'[l] = NoOp => issued'[l] = served'[l]
                      /\ locks'[l] # NoOp => stage'[locks'[l]][l] \in {"waiting", "running", "settled"} /\ ticket'[locks'[l]][l] = issued'[l]
    BY DEF EntryIsLast, InUse
  <2>1. CASE l # k
    <3>1. locks'[l] = locks[l] BY <2>1, <1>0, <1>type DEF TypeOK
    <3> QED BY <3>1, <2>1, <1>0, <1>stage, <1>served, <1>type DEF IInv, EntryIsLast, InUse, TypeOK
  <2>2. CASE l = k /\ locks[k] = o
    <3>1. locks'[k] = NoOp BY <2>2, <1>0, <1>type DEF TypeOK
    <3>2. issued[k] = served[k] + 1 BY <2>2, <1>mine, PlanAssumption DEF IInv, EntryIsLast
    <3> QED BY <3>1, <3>2, <2>2, <1>0, <1>served
  <2>3. CASE l = k /\ locks[k] # o
    <3>1. locks'[k] = locks[k] BY <2>3, <1>0
    <3>2. locks[k] # NoOp BY <1>0, <1>mine, <1>type DEF IInv, EntryIsLast, TicketsInRange, TypeOK
    <3>3. locks[k] \in Ops BY <3>2, <1>type DEF TypeOK
    <3> QED BY <3>1, <3>2, <3>3, <2>3, <1>0, <1>stage DEF IInv, EntryIsLast, InUse
  <2> QED BY <2>1, <2>2, <2>3
<1>4. ChainedOnPredecessor'
  <2> SUFFICES ASSUME NEW l \in Keys, NEW p \in Ops, stage'[p][l] = "waiting"
               PROVE  /\ previous'[p][l] = NoOp => ticket'[p][l] = served'[l] + 1
                      /\ previous'[p][l] # NoOp =>
                            /\ stage'[previous'[p][l]][l] # "absent"
                            /\ ticket'[p][l] = ticket'[previous'[p][l]][l] + 1
    BY DEF ChainedOnPredecessor
  <2>1. stage[p][l] = "waiting" BY <1>stage
  <2>2. previous[p][l] = NoOp => l # k
    <3> SUFFICES ASSUME previous[p][l] = NoOp, l = k PROVE FALSE OBVIOUS
    <3>1. ticket[p][k] = served[k] + 1 BY <2>1 DEF IInv, ChainedOnPredecessor
    <3>2. p = o BY <3>1, <2>1, <1>0, <1>mine DEF IInv, TicketsDistinct
    <3> QED BY <3>2, <2>1, <1>0
  <2>3. previous[p][l] # NoOp => previous[p][l] \in Ops BY <1>type DEF TypeOK
  <2> QED BY <2>1, <2>2, <2>3, <1>0, <1>stage, <1>served DEF IInv, ChainedOnPredecessor
<1>5. InsideIsNext'
  <2> SUFFICES ASSUME NEW l \in Keys, NEW p \in Ops, stage'[p][l] \in {"running", "settled"}
               PROVE  ticket'[p][l] = served'[l] + 1
    BY DEF InsideIsNext
  <2>1. stage[p][l] = stage'[p][l] /\ (p # o \/ l # k) BY <1>stage
  <2>2. ticket[p][l] = served[l] + 1 BY <2>1 DEF IInv, InsideIsNext
  <2>3. l # k BY <2>1, <2>2, <1>0, <1>mine DEF IInv, TicketsDistinct
  <2> QED BY <2>2, <2>3, <1>0, <1>served
<1> QED BY <1>type, <1>1, <1>2, <1>3, <1>4, <1>5 DEF IInv

LEMMA NextPreserves == IInv /\ [Next]_vars => IInv'
<1> SUFFICES ASSUME IInv, [Next]_vars PROVE IInv' OBVIOUS
<1>1. CASE \E o \in Ops : OpStep(o)
  BY <1>1, WithKeyPreserves, EnterPreserves, SettlePreserves, ClearPreserves DEF OpStep
<1>2. CASE UNCHANGED vars
  BY <1>2 DEF vars, IInv, TypeOK, TicketsDistinct, TicketsInRange, EntryIsLast, ChainedOnPredecessor,
    InsideIsNext, InUse
<1> QED BY <1>1, <1>2 DEF Next, Terminated

----
\* The inductive invariant holds of every reachable state of the lock.
THEOREM ChainInvariant == Spec => []IInv
  BY InitEstablishes, NextPreserves, PTL DEF Spec

\* The lock's maps and stages keep their types, whatever the plans.
THEOREM TypeCorrect == Spec => []TypeOK
<1>1. IInv => TypeOK BY DEF IInv
<1> QED BY <1>1, ChainInvariant, PTL

\* withKey and withLock keep two operations out of one key, whatever keys they
\* nest and however their continuations interleave.
THEOREM Exclusion == Spec => []MutualExclusion
<1>1. IInv => MutualExclusion BY DEF IInv, TicketsDistinct, InsideIsNext, MutualExclusion
<1> QED BY <1>1, ChainInvariant, PTL

\* withKey and withLock let callers of a key in by order of their calls.
THEOREM Fifo == Spec => []FirstComeFirstServed
<1>1. IInv => FirstComeFirstServed
  <2> SUFFICES ASSUME IInv, NEW k \in Keys, NEW o \in Ops, NEW p \in Ops,
                      ticket[o][k] > 0, ticket[o][k] < ticket[p][k], Entered(p, k)
               PROVE  stage[o][k] = "cleared"
    BY DEF FirstComeFirstServed
  <2>1. ticket[p][k] <= served[k] + 1 BY DEF IInv, TypeOK, Entered, InsideIsNext, TicketsInRange
  <2>2. ~InUse(o, k) BY <2>1 DEF IInv, TypeOK, TicketsInRange
  <2> QED BY <2>2 DEF IInv, TypeOK, Stages, TicketsInRange, InUse
<1> QED BY <1>1, ChainInvariant, PTL

\* The map keeps an entry of a key exactly while some call on it is pending.
THEOREM NoLostEntry == Spec => []EntryWhileInUse
<1>1. IInv => EntryWhileInUse
  <2> SUFFICES ASSUME IInv, NEW k \in Keys
               PROVE  locks[k] # NoOp <=> \E o \in Ops : InUse(o, k)
    BY DEF EntryWhileInUse
  <2>1. ASSUME locks[k] # NoOp PROVE \E o \in Ops : InUse(o, k) BY <2>1 DEF IInv, TypeOK, EntryIsLast
  <2>2. ASSUME NEW o \in Ops, InUse(o, k) PROVE locks[k] # NoOp
    <3>1. served[k] < ticket[o][k] /\ ticket[o][k] <= issued[k] BY <2>2 DEF IInv, TicketsInRange, InUse
    <3> QED BY <3>1 DEF IInv, TypeOK, EntryIsLast
  <2> QED BY <2>1, <2>2
<1> QED BY <1>1, ChainInvariant, PTL

----
(* The lock serves queues.  A call is in the queue of its key from withKey *)
(* to the `finally` that may empty the map: the queue of key k is made of *)
(* the calls with the numbers served + 1 .. issued. *)

\* No number has been skipped.
NumbersHeld == \A k \in Keys : \A n \in 1 .. issued[k] : \E o \in Ops : ticket[o][k] = n

Segment(t, k, s, n) == [i \in 1 .. n |-> CHOOSE o \in Ops : t[o][k] = s + i]

\* The tickets t of key k name one call for each of the n numbers after s.
OneEach(t, k, s, n) ==
  /\ s \in Nat /\ n \in Nat
  /\ \A i \in 1 .. n : \E o \in Ops : t[o][k] = s + i
  /\ \A o, p \in Ops : t[o][k] = t[p][k] /\ t[o][k] > s => o = p

\* The sequence q lists those calls.
Lists(q, t, k, s, n) ==
  /\ q \in Seq(Ops) /\ Len(q) = n
  /\ \A i \in 1 .. n : q[i] \in Ops /\ t[q[i]][k] = s + i
  /\ \A i \in 1 .. n : \A o \in Ops : t[o][k] = s + i => o = q[i]

LEMMA SegmentLists ==
  ASSUME NEW t, NEW k, NEW s, NEW n, OneEach(t, k, s, n)
  PROVE  Lists(Segment(t, k, s, n), t, k, s, n)
<1> DEFINE q == Segment(t, k, s, n)
<1>0. s \in Nat /\ n \in Nat BY DEF OneEach
<1>1. ASSUME NEW i \in 1 .. n
      PROVE  /\ q[i] \in Ops /\ t[q[i]][k] = s + i
             /\ \A o \in Ops : t[o][k] = s + i => o = q[i]
  <2>1. q[i] = CHOOSE o \in Ops : t[o][k] = s + i BY DEF Segment
  <2>2. q[i] \in Ops /\ t[q[i]][k] = s + i BY <2>1 DEF OneEach
  <2>3. s + i > s BY <1>0
  <2> HIDE DEF q
  <2> QED BY <2>2, <2>3 DEF OneEach
<1>2. q \in [1 .. n -> Ops]
  <2>1. \A i \in 1 .. n : (CHOOSE o \in Ops : t[o][k] = s + i) \in Ops BY DEF OneEach
  <2> QED BY <2>1 DEF Segment
<1> HIDE DEF q
<1>3. q \in Seq(Ops) /\ Len(q) = n BY <1>0, <1>2
<1>4. Lists(q, t, k, s, n) BY <1>1, <1>3 DEF Lists
<1> QED BY <1>4 DEF q

LEMMA ChainIsSegment ==
  ASSUME NEW k \in Keys
  PROVE  /\ Chain(k) = Segment(ticket, k, served[k], issued[k] - served[k])
         /\ Chain(k)' = Segment(ticket', k, served'[k], issued'[k] - served'[k])
BY DEF Chain, Segment

LEMMA ServedIsIssued ==
  ASSUME IInv, NEW k \in Keys
  PROVE  served[k] \in Nat /\ issued[k] \in Nat /\ served[k] <= issued[k]
<1>1. CASE locks[k] = NoOp BY <1>1 DEF IInv, TypeOK, EntryIsLast
<1>2. CASE locks[k] # NoOp
  <2>1. locks[k] \in Ops /\ InUse(locks[k], k) /\ ticket[locks[k]][k] = issued[k]
    BY <1>2 DEF IInv, TypeOK, EntryIsLast
  <2> QED BY <2>1 DEF IInv, TypeOK, TicketsInRange
<1> QED BY <1>1, <1>2

LEMMA ChainLists ==
  ASSUME IInv, NumbersHeld, NEW k \in Keys
  PROVE  Lists(Chain(k), ticket, k, served[k], issued[k] - served[k])
<1>1. served[k] \in Nat /\ issued[k] \in Nat /\ issued[k] - served[k] \in Nat BY ServedIsIssued
<1>2. \A i \in 1 .. issued[k] - served[k] : \E o \in Ops : ticket[o][k] = served[k] + i BY <1>1 DEF NumbersHeld
<1>3. \A o, p \in Ops : ticket[o][k] = ticket[p][k] /\ ticket[o][k] > served[k] => o = p
  BY <1>1 DEF IInv, TypeOK, TicketsDistinct, TicketsInRange
<1>4. OneEach(ticket, k, served[k], issued[k] - served[k]) BY <1>1, <1>2, <1>3 DEF OneEach
<1>5. Lists(Segment(ticket, k, served[k], issued[k] - served[k]), ticket, k, served[k], issued[k] - served[k])
  BY <1>4, SegmentLists
<1> QED BY <1>5, ChainIsSegment

\* The same of the next state.
LEMMA NextChainLists ==
  ASSUME IInv', NumbersHeld', NEW k \in Keys
  PROVE  Lists(Chain(k)', ticket', k, served'[k], issued'[k] - served'[k])
<1>1. served'[k] \in Nat /\ issued'[k] \in Nat /\ issued'[k] - served'[k] \in Nat
  <2>1. CASE locks'[k] = NoOp BY <2>1 DEF IInv, TypeOK, EntryIsLast
  <2>2. CASE locks'[k] # NoOp
    <3>1. locks'[k] \in Ops /\ InUse(locks[k], k)' /\ ticket'[locks'[k]][k] = issued'[k]
      BY <2>2 DEF IInv, TypeOK, EntryIsLast
    <3> QED BY <3>1 DEF IInv, TypeOK, TicketsInRange
  <2> QED BY <2>1, <2>2
<1>2. \A i \in 1 .. issued'[k] - served'[k] : \E o \in Ops : ticket'[o][k] = served'[k] + i
  BY <1>1 DEF NumbersHeld
<1>3. \A o, p \in Ops : ticket'[o][k] = ticket'[p][k] /\ ticket'[o][k] > served'[k] => o = p
  BY <1>1 DEF IInv, TypeOK, TicketsDistinct, TicketsInRange
<1>4. OneEach(ticket', k, served'[k], issued'[k] - served'[k]) BY <1>1, <1>2, <1>3 DEF OneEach
<1>5. Lists(Segment(ticket', k, served'[k], issued'[k] - served'[k]), ticket', k, served'[k], issued'[k] - served'[k])
  BY <1>4, SegmentLists
<1> QED BY <1>5, ChainIsSegment

LEMMA NumbersStayHeld == IInv /\ NumbersHeld /\ [Next]_vars => NumbersHeld'
<1> SUFFICES ASSUME IInv, NumbersHeld, [Next]_vars PROVE NumbersHeld' OBVIOUS
<1>1. ASSUME NEW o \in Ops, NEW i \in DOMAIN Plan[o], WithKey(o, i)
      PROVE  NumbersHeld'
  <2> DEFINE k == Plan[o][i]
  <2>1. k \in Keys BY PlanKeys
  <2>2. /\ stage[o][k] = "absent"
        /\ issued' = [issued EXCEPT ![k] = issued[k] + 1]
        /\ ticket' = [ticket EXCEPT ![o][k] = issued[k] + 1]
    BY <1>1 DEF WithKey, MayCall
  <2> HIDE DEF k
  <2>3. issued \in [Keys -> Nat] /\ ticket \in [Ops -> [Keys -> Nat]] /\ ticket[o][k] = 0
    BY <2>1, <2>2 DEF IInv, TypeOK, TicketsInRange
  <2>4. SUFFICES ASSUME NEW l \in Keys, NEW n \in 1 .. issued'[l]
                 PROVE  \E p \in Ops : ticket'[p][l] = n
    BY DEF NumbersHeld
  <2>5. CASE l = k /\ n = issued[k] + 1 BY <2>1, <2>2, <2>3, <2>5
  <2>6. CASE ~(l = k /\ n = issued[k] + 1)
    <3>1. n \in 1 .. issued[l]
      <4>1. issued'[l] = IF l = k THEN issued[k] + 1 ELSE issued[l] BY <2>1, <2>2, <2>3
      <4>2. issued[l] \in Nat /\ issued[k] \in Nat /\ n \in 1 .. issued'[l] BY <2>1, <2>3, <2>4
      <4> QED BY <2>6, <4>1, <4>2
    <3>2. PICK p \in Ops : ticket[p][l] = n BY <3>1 DEF NumbersHeld
    <3>3. ~(p = o /\ l = k) BY <2>3, <3>1, <3>2
    <3> QED BY <2>1, <2>2, <2>3, <3>2, <3>3
  <2> QED BY <2>5, <2>6
<1>2. ASSUME UNCHANGED <<issued, ticket>> PROVE NumbersHeld' BY <1>2 DEF NumbersHeld
<1> QED BY <1>1, <1>2 DEF Next, OpStep, Enter, Settle, Clear, Terminated, vars

----
(* How the list of a key changes with its numbers. *)

LEMMA SameList ==
  ASSUME NEW q, NEW r, NEW t, NEW u, NEW k, NEW s \in Nat, NEW n \in Nat,
         Lists(q, t, k, s, n), Lists(r, u, k, s, n),
         \A o \in Ops : t[o][k] = u[o][k]
  PROVE  r = q
<1>1. \A i \in 1 .. n : r[i] = q[i] BY DEF Lists
<1>2. q \in Seq(Ops) /\ r \in Seq(Ops) /\ Len(q) = n /\ Len(r) = n BY DEF Lists
<1> QED BY <1>1, <1>2, SeqEqual

\* List r of tickets u is list q of tickets t with call c, numbered last.
Grown(q, r, t, u, k, s, n, c) ==
  /\ s \in Nat /\ n \in Nat /\ c \in Ops
  /\ Lists(q, t, k, s, n) /\ Lists(r, u, k, s, n + 1)
  /\ t[c][k] = 0 /\ u[c][k] = s + (n + 1)
  /\ \A o \in Ops : o # c => t[o][k] = u[o][k]

LEMMA LongerList ==
  ASSUME NEW q, NEW r, NEW t, NEW u, NEW k, NEW s, NEW n, NEW c,
         Grown(q, r, t, u, k, s, n, c)
  PROVE  r = Append(q, c)
<1>0. /\ s \in Nat /\ n \in Nat /\ c \in Ops
      /\ Lists(q, t, k, s, n) /\ Lists(r, u, k, s, n + 1)
  BY DEF Grown
<1>1. q \in Seq(Ops) /\ r \in Seq(Ops) /\ Len(q) = n /\ Len(r) = n + 1 BY <1>0 DEF Lists
<1>2. Append(q, c) \in Seq(Ops) /\ Len(Append(q, c)) = n + 1 BY <1>0, <1>1, AppendProperties
<1>3. ASSUME NEW i \in 1 .. n PROVE r[i] = Append(q, c)[i]
  <2>1. q[i] \in Ops /\ t[q[i]][k] = s + i BY <1>0 DEF Lists
  <2>2. q[i] # c
    <3>1. s + i # 0 BY <1>0
    <3> QED BY <2>1, <3>1 DEF Grown
  <2>3. u[q[i]][k] = s + i /\ i \in 1 .. n + 1
    <3>1. u[q[i]][k] = s + i BY <2>1, <2>2 DEF Grown
    <3> QED BY <1>0, <3>1
  <2>4. q[i] = r[i] BY <1>0, <2>1, <2>3 DEF Lists
  <2> QED BY <1>0, <1>1, <2>4, AppendProperties
<1>4. r[n + 1] = Append(q, c)[n + 1]
  <2>1. n + 1 \in 1 .. n + 1 BY <1>0
  <2>2. c = r[n + 1] BY <1>0, <2>1 DEF Lists, Grown
  <2> QED BY <1>0, <1>1, <2>2, AppendProperties
<1>5. ASSUME NEW i \in 1 .. n + 1 PROVE r[i] = Append(q, c)[i]
  <2>1. i \in 1 .. n \/ i = n + 1 BY <1>0
  <2> QED BY <1>3, <1>4, <2>1
<1> QED BY <1>1, <1>2, <1>5, SeqEqual

LEMMA ShorterList ==
  ASSUME NEW q, NEW r, NEW t, NEW u, NEW k, NEW s \in Nat, NEW n \in Nat,
         Lists(q, t, k, s, n + 1), Lists(r, u, k, s + 1, n),
         \A o \in Ops : t[o][k] = u[o][k]
  PROVE  q # << >> /\ r = Tail(q)
<1>1. q \in Seq(Ops) /\ r \in Seq(Ops) /\ Len(q) = n + 1 /\ Len(r) = n BY DEF Lists
<1>2. q # << >> BY <1>1
<1>3. Tail(q) \in Seq(Ops) /\ Len(Tail(q)) = n BY <1>1, <1>2, HeadTailProperties
<1>4. ASSUME NEW i \in 1 .. n PROVE r[i] = Tail(q)[i]
  <2>1. r[i] \in Ops /\ u[r[i]][k] = (s + 1) + i BY <1>4 DEF Lists
  <2>2. i + 1 \in 1 .. n + 1 /\ (s + 1) + i = s + (i + 1) OBVIOUS
  <2>3. r[i] = q[i + 1] BY <2>1, <2>2 DEF Lists
  <2>4. Tail(q)[i] = q[i + 1] BY <1>1, <1>2, <1>3, HeadTailProperties
  <2> QED BY <2>3, <2>4
<1> QED BY <1>1, <1>2, <1>3, <1>4, SeqEqual

----
(* Each step of the lock is a step of its queues. *)

QueueOf == [k \in Keys |-> Chain(k)]

InsideOf == [k \in Keys |-> {o \in Ops : stage[o][k] = "running"}]

\* The facts of both states that the steps need.
Both == IInv /\ NumbersHeld /\ IInv' /\ NumbersHeld'

LEMMA QueueValues ==
  /\ DOMAIN QueueOf = Keys /\ DOMAIN QueueOf' = Keys
  /\ DOMAIN InsideOf = Keys /\ DOMAIN InsideOf' = Keys
  /\ \A k \in Keys : QueueOf[k] = Chain(k)
  /\ \A k \in Keys : QueueOf'[k] = Chain(k)'
  /\ \A k \in Keys : InsideOf[k] = {o \in Ops : stage[o][k] = "running"}
  /\ \A k \in Keys : InsideOf'[k] = {o \in Ops : stage'[o][k] = "running"}
  /\ QueueOf = [k \in Keys |-> QueueOf[k]]
  /\ QueueOf' = [k \in Keys |-> QueueOf'[k]]
  /\ InsideOf = [k \in Keys |-> InsideOf[k]]
  /\ InsideOf' = [k \in Keys |-> InsideOf'[k]]
BY DEF QueueOf, InsideOf

\* A key whose numbers stay keeps its queue.
LEMMA QueueStays ==
  ASSUME Both, NEW k \in Keys, served'[k] = served[k], issued'[k] = issued[k],
         \A o \in Ops : ticket'[o][k] = ticket[o][k]
  PROVE  QueueOf'[k] = QueueOf[k]
<1> DEFINE n == issued[k] - served[k]
<1>1. served[k] \in Nat /\ n \in Nat BY ServedIsIssued DEF Both
<1>2. Lists(QueueOf[k], ticket, k, served[k], n) BY ChainLists, QueueValues DEF Both
<1>3. Lists(QueueOf'[k], ticket', k, served[k], n) BY NextChainLists, QueueValues DEF Both
<1> HIDE DEF n
<1> QED BY <1>1, <1>2, <1>3, SameList

LEMMA AllQueuesStay ==
  ASSUME Both, UNCHANGED <<issued, served, ticket>>
  PROVE  QueueOf' = QueueOf
<1>1. \A k \in Keys : QueueOf'[k] = QueueOf[k] BY QueueStays
<1> QED BY <1>1, QueueValues

LEMMA InsideStays ==
  ASSUME \A k \in Keys : \A o \in Ops : stage'[o][k] = "running" <=> stage[o][k] = "running"
  PROVE  InsideOf' = InsideOf
BY DEF InsideOf

LEMMA AskStep ==
  ASSUME Both, NEW o \in Ops, NEW i \in DOMAIN Plan[o], WithKey(o, i)
  PROVE  Queues!Ask(o, Plan[o][i])
<1> DEFINE k == Plan[o][i]
<1>1. k \in Keys BY PlanKeys
<1>2. /\ stage[o][k] = "absent"
      /\ stage' = [stage EXCEPT ![o][k] = "waiting"]
      /\ issued' = [issued EXCEPT ![k] = issued[k] + 1]
      /\ ticket' = [ticket EXCEPT ![o][k] = issued[k] + 1]
      /\ served' = served
  BY DEF WithKey, MayCall
<1> HIDE DEF k
<1>3. TypeOK /\ TypeOK' BY DEF Both, IInv
<1>4. InsideOf' = InsideOf BY <1>1, <1>2, <1>3, InsideStays DEF TypeOK
<1>5. \A l \in Keys : l # k => QueueOf'[l] = QueueOf[l]
  <2> SUFFICES ASSUME NEW l \in Keys, l # k PROVE QueueOf'[l] = QueueOf[l] OBVIOUS
  <2>1. issued'[l] = issued[l] /\ \A p \in Ops : ticket'[p][l] = ticket[p][l] BY <1>2, <1>3 DEF TypeOK
  <2> QED BY <1>2, <2>1, QueueStays
<1>6. QueueOf'[k] = Append(QueueOf[k], o)
  <2> DEFINE s == served[k]
             n == issued[k] - served[k]
  <2>1. s \in Nat /\ n \in Nat /\ issued[k] = s + n BY <1>1, ServedIsIssued DEF Both
  <2>2. ticket[o][k] = 0 /\ ticket'[o][k] = s + (n + 1)
    BY <1>1, <1>2, <1>3, <2>1 DEF TypeOK, Both, IInv, TicketsInRange
  <2>3. \A p \in Ops : p # o => ticket[p][k] = ticket'[p][k] BY <1>1, <1>2, <1>3 DEF TypeOK
  <2>4. Lists(QueueOf[k], ticket, k, s, n) BY <1>1, ChainLists, QueueValues DEF Both
  <2>5. issued'[k] - served'[k] = n + 1 /\ served'[k] = s BY <1>1, <1>2, <1>3, <2>1 DEF TypeOK
  <2>6. Lists(QueueOf'[k], ticket', k, s, n + 1)
    <3>1. Lists(QueueOf'[k], ticket', k, served'[k], issued'[k] - served'[k])
      BY <1>1, NextChainLists, QueueValues DEF Both
    <3> HIDE DEF s, n
    <3> QED BY <2>5, <3>1
  <2> HIDE DEF s, n
  <2>7. Grown(QueueOf[k], QueueOf'[k], ticket, ticket', k, s, n, o) BY <2>1, <2>2, <2>3, <2>4, <2>6 DEF Grown
  <2> QED BY <2>7, LongerList
<1>7. QueueOf' = [QueueOf EXCEPT ![k] = Append(QueueOf[k], o)] BY <1>1, <1>5, <1>6, QueueValues
<1> QED BY <1>4, <1>7 DEF Queues!Ask, QueueOf, InsideOf, k

LEMMA EnterStep ==
  ASSUME Both, NEW o \in Ops, NEW k \in Keys, Enter(o, k)
  PROVE  Queues!Enter(o, k)
<1>1. /\ stage[o][k] = "waiting"
      /\ stage' = [stage EXCEPT ![o][k] = "running"]
      /\ UNCHANGED <<locks, previous, issued, served, ticket>>
  BY DEF Enter
<1>2. TypeOK /\ TypeOK' BY DEF Both, IInv
<1>3. ticket[o][k] = served[k] + 1 /\ ticket[o][k] <= issued[k]
  <2>1. stage'[o][k] = "running" BY <1>1, <1>2 DEF TypeOK
  <2>2. ticket'[o][k] = served'[k] + 1 BY <2>1 DEF Both, IInv, InsideIsNext
  <2> QED BY <1>1, <2>2 DEF Both, IInv, TicketsInRange
<1>4. InsideOf[k] = {}
  <2> SUFFICES ASSUME NEW p \in Ops, stage[p][k] = "running" PROVE FALSE BY QueueValues
  <2>1. ticket[p][k] = served[k] + 1 BY DEF Both, IInv, InsideIsNext
  <2>2. p = o BY <1>1, <1>3, <2>1 DEF Both, IInv, TicketsDistinct
  <2> QED BY <1>1, <2>2
<1>5. QueueOf[k] # << >> /\ o = Head(QueueOf[k])
  <2> DEFINE s == served[k]
             n == issued[k] - served[k]
  <2>1. s \in Nat /\ n \in Nat /\ 1 \in 1 .. n BY <1>3, ServedIsIssued DEF Both
  <2>2. Lists(QueueOf[k], ticket, k, s, n) BY ChainLists, QueueValues DEF Both
  <2>3. ticket[o][k] = s + 1 BY <1>3
  <2> HIDE DEF s, n
  <2>4. QueueOf[k] \in Seq(Ops) /\ Len(QueueOf[k]) = n /\ o = QueueOf[k][1] BY <2>1, <2>2, <2>3 DEF Lists
  <2>5. QueueOf[k] # << >> BY <2>1, <2>4
  <2> QED BY <2>4, <2>5, HeadTailProperties
<1>6. QueueOf' = QueueOf BY <1>1, AllQueuesStay
<1>7. InsideOf' = [InsideOf EXCEPT ![k] = {o}]
  <2>1. ASSUME NEW l \in Keys, l # k PROVE InsideOf'[l] = InsideOf[l]
    <3>1. \A p \in Ops : stage'[p][l] = stage[p][l] BY <1>1, <1>2, <2>1 DEF TypeOK
    <3>2. {p \in Ops : stage'[p][l] = "running"} = {p \in Ops : stage[p][l] = "running"} BY <3>1
    <3> QED BY <2>1, <3>2, QueueValues
  <2>2. \A p \in Ops : stage'[p][k] = "running" <=> p = o
    <3>1. \A p \in Ops : stage'[p][k] = IF p = o THEN "running" ELSE stage[p][k] BY <1>1, <1>2 DEF TypeOK
    <3>2. \A p \in Ops : stage[p][k] # "running" BY <1>4, QueueValues
    <3> QED BY <3>1, <3>2
  <2>3. InsideOf'[k] = {o} BY <2>2, QueueValues
  <2> QED BY <2>1, <2>3, QueueValues
<1> QED BY <1>4, <1>5, <1>6, <1>7 DEF Queues!Enter, QueueOf, InsideOf

LEMMA LeaveStep ==
  ASSUME Both, NEW o \in Ops, NEW i \in DOMAIN Plan[o], Settle(o, i)
  PROVE  Queues!Leave(o, Plan[o][i])
<1> DEFINE k == Plan[o][i]
<1>1. k \in Keys BY PlanKeys
<1>2. /\ stage[o][k] = "running"
      /\ stage' = [stage EXCEPT ![o][k] = "settled"]
      /\ UNCHANGED <<locks, previous, issued, served, ticket>>
  BY DEF Settle
<1> HIDE DEF k
<1>3. TypeOK /\ TypeOK' BY DEF Both, IInv
<1>4. QueueOf' = QueueOf BY <1>2, AllQueuesStay
<1>5. o \in InsideOf[k] BY <1>1, <1>2, QueueValues
<1>6. InsideOf' = [InsideOf EXCEPT ![k] = InsideOf[k] \ {o}]
  <2>1. ASSUME NEW l \in Keys, l # k PROVE InsideOf'[l] = InsideOf[l]
    <3>1. \A p \in Ops : stage'[p][l] = stage[p][l] BY <1>1, <1>2, <1>3, <2>1 DEF TypeOK
    <3>2. {p \in Ops : stage'[p][l] = "running"} = {p \in Ops : stage[p][l] = "running"} BY <3>1
    <3> QED BY <2>1, <3>2, QueueValues
  <2>2. InsideOf'[k] = InsideOf[k] \ {o}
    <3>1. \A p \in Ops : stage'[p][k] = IF p = o THEN "settled" ELSE stage[p][k] BY <1>1, <1>2, <1>3 DEF TypeOK
    <3> QED BY <1>1, <3>1, QueueValues
  <2> QED BY <1>1, <2>1, <2>2, QueueValues
<1> QED BY <1>4, <1>5, <1>6 DEF Queues!Leave, QueueOf, InsideOf, k

LEMMA DequeueStep ==
  ASSUME Both, NEW o \in Ops, NEW k \in Keys, Clear(o, k)
  PROVE  Queues!Dequeue(k)
<1>1. /\ stage[o][k] = "settled"
      /\ stage' = [stage EXCEPT ![o][k] = "cleared"]
      /\ served' = [served EXCEPT ![k] = served[k] + 1]
      /\ UNCHANGED <<previous, issued, ticket>>
  BY DEF Clear
<1>2. TypeOK /\ TypeOK' BY DEF Both, IInv
<1>3. ticket[o][k] = served[k] + 1 /\ ticket[o][k] <= issued[k]
  BY <1>1 DEF Both, IInv, InsideIsNext, TicketsInRange
<1>4. InsideOf[k] = {}
  <2> SUFFICES ASSUME NEW p \in Ops, stage[p][k] = "running" PROVE FALSE BY QueueValues
  <2>1. ticket[p][k] = served[k] + 1 BY DEF Both, IInv, InsideIsNext
  <2>2. p = o BY <1>1, <1>3, <2>1 DEF Both, IInv, TicketsDistinct
  <2> QED BY <1>1, <2>2
<1>5. InsideOf' = InsideOf
  <2>1. \A l \in Keys : \A p \in Ops :
            stage'[p][l] = IF p = o /\ l = k THEN "cleared" ELSE stage[p][l]
    BY <1>1, <1>2 DEF TypeOK
  <2> QED BY <1>1, <2>1, InsideStays
<1>6. \A l \in Keys : l # k => QueueOf'[l] = QueueOf[l]
  <2> SUFFICES ASSUME NEW l \in Keys, l # k PROVE QueueOf'[l] = QueueOf[l] OBVIOUS
  <2>1. served'[l] = served[l] BY <1>1, <1>2 DEF TypeOK
  <2> QED BY <1>1, <2>1, QueueStays
<1>7. QueueOf[k] # << >> /\ QueueOf'[k] = Tail(QueueOf[k])
  <2> DEFINE s == served[k]
             n == issued[k] - served[k] - 1
  <2>1. s \in Nat /\ n \in Nat /\ issued[k] - served[k] = n + 1 BY <1>3, ServedIsIssued DEF Both
  <2>2. served'[k] = s + 1 /\ issued'[k] - served'[k] = n BY <1>1, <1>2, <2>1 DEF TypeOK
  <2>3. Lists(QueueOf[k], ticket, k, served[k], issued[k] - served[k]) BY ChainLists, QueueValues DEF Both
  <2>4. Lists(QueueOf'[k], ticket', k, served'[k], issued'[k] - served'[k])
    BY NextChainLists, QueueValues DEF Both
  <2>5. s = served[k] OBVIOUS
  <2> HIDE DEF s, n
  <2>6. Lists(QueueOf[k], ticket, k, s, n + 1) /\ Lists(QueueOf'[k], ticket', k, s + 1, n)
    BY <2>1, <2>2, <2>3, <2>4, <2>5
  <2> QED BY <1>1, <2>1, <2>6, ShorterList
<1>8. QueueOf' = [QueueOf EXCEPT ![k] = Tail(QueueOf[k])] BY <1>6, <1>7, QueueValues
<1> QED BY <1>4, <1>5, <1>7, <1>8 DEF Queues!Dequeue, QueueOf, InsideOf

LEMMA StepsAreQueueSteps ==
  Both /\ [Next]_vars => [Queues!Next]_<<QueueOf, InsideOf>>
<1> SUFFICES ASSUME Both, [Next]_vars PROVE Queues!Next \/ UNCHANGED <<QueueOf, InsideOf>> OBVIOUS
<1>1. ASSUME NEW o \in Ops, OpStep(o) PROVE Queues!Next
  BY <1>1, AskStep, EnterStep, LeaveStep, DequeueStep, PlanKeys DEF OpStep, Queues!Next
<1>2. ASSUME UNCHANGED vars PROVE UNCHANGED <<QueueOf, InsideOf>> BY <1>2, AllQueuesStay, InsideStays DEF vars
<1> QED BY <1>1, <1>2 DEF Next, Terminated

LEMMA InitIsQueueInit == Init => NumbersHeld /\ Queues!Init
<1> SUFFICES ASSUME Init PROVE NumbersHeld /\ Queues!Init OBVIOUS
<1>1. NumbersHeld BY DEF Init, NumbersHeld
<1>2. IInv BY InitEstablishes
<1>3. \A k \in Keys : Chain(k) = << >>
  <2> SUFFICES ASSUME NEW k \in Keys PROVE Chain(k) = << >> OBVIOUS
  <2>1. Lists(Chain(k), ticket, k, served[k], issued[k] - served[k]) BY <1>1, <1>2, ChainLists
  <2>2. issued[k] - served[k] = 0 BY DEF Init
  <2>3. Chain(k) \in Seq(Ops) /\ Len(Chain(k)) = 0 BY <2>1, <2>2 DEF Lists
  <2> QED BY <2>3, EmptySeq
<1>4. \A k \in Keys : {o \in Ops : stage[o][k] = "running"} = {} BY DEF Init
<1> QED BY <1>1, <1>3, <1>4 DEF Queues!Init

\* Callers of withKey and withLock see queues: whatever promises are chained and
\* whatever map entries come and go, each key is served from the head of one
\* queue, and one call at a time is inside.
THEOREM ServesQueues == Spec => ServedFromQueues
<1>1. Init => NumbersHeld /\ Queues!Init BY InitIsQueueInit
<1>2. IInv /\ NumbersHeld /\ [Next]_vars => NumbersHeld' BY NumbersStayHeld
<1>3. IInv /\ NumbersHeld /\ IInv' /\ NumbersHeld' /\ [Next]_vars
        => [Queues!Next]_<<[k \in Keys |-> Chain(k)],
                           [k \in Keys |-> {o \in Ops : stage[o][k] = "running"}]>>
  BY StepsAreQueueSteps DEF Both, QueueOf, InsideOf
<1> QED BY <1>1, <1>2, <1>3, ChainInvariant, PTL DEF Spec, ServedFromQueues, Queues!Spec

====
