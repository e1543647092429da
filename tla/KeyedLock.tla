---- MODULE KeyedLock ----
(*
KeyedOperationLock of apps/server: withKey chains each operation behind
the promise of the operation that last asked for the same key, and
withKeys nests withKey.  SessionService.withLock is the same code.

Every operation calls withKey once per element of its plan, each call
inside the action of the one before.  Promise continuations run one
microtask at a time, so the settling of `next`, the `finally` that
empties the map and the start of the successor are separate actions.
*)
EXTENDS Naturals, Sequences

CONSTANTS
    Ops,     \* the operations (one call each)
    Keys,    \* projects, threads, side chats
    NoOp,    \* "no entry in the map", "nothing to wait for"
    Plan     \* the keys of an operation, outermost first

\* An operation never nests a key in itself (withKeys drops duplicates).
ASSUME PlanAssumption ==
    /\ NoOp \notin Ops
    /\ Plan \in [Ops -> Seq(Keys)]
    /\ \A o \in Ops : \A i, j \in DOMAIN Plan[o] : Plan[o][i] = Plan[o][j] => i = j

VARIABLES
    locks,    \* Map: key -> the operation whose `tracked` promise is the entry
    previous, \* [op][key] -> the operation whose promise the call chained on
    stage,    \* [op][key] -> how far the call of op on key has come
    issued,   \* history: calls made on the key
    served,   \* history: calls on the key that have left the chain
    ticket    \* history: [op][key] -> the number of the call, 0 before it

vars == <<locks, previous, stage, issued, served, ticket>>

Stages == {"absent", "waiting", "running", "settled", "cleared"}

TypeOK ==
    /\ locks \in [Keys -> Ops \cup {NoOp}]
    /\ previous \in [Ops -> [Keys -> Ops \cup {NoOp}]]
    /\ stage \in [Ops -> [Keys -> Stages]]
    /\ issued \in [Keys -> Nat]
    /\ served \in [Keys -> Nat]
    /\ ticket \in [Ops -> [Keys -> Nat]]

Init ==
    /\ locks = [k \in Keys |-> NoOp]
    /\ previous = [o \in Ops |-> [k \in Keys |-> NoOp]]
    /\ stage = [o \in Ops |-> [k \in Keys |-> "absent"]]
    /\ issued = [k \in Keys |-> 0]
    /\ served = [k \in Keys |-> 0]
    /\ ticket = [o \in Ops |-> [k \in Keys |-> 0]]

----
NoEntry(k) == NoOp                                                   \* mutant

\* What `this.locks.get(key)` gives a call that arrives now.
Entry(k) == locks[k]

\* The level-i call is made from inside the action of the level above it.
MayCall(o, i) ==
    /\ stage[o][Plan[o][i]] = "absent"
    /\ i > 1 => stage[o][Plan[o][i - 1]] = "running"

\* withKey: chain on the entry, become the entry.
WithKey(o, i) ==
    LET k == Plan[o][i] IN
    /\ MayCall(o, i)
    /\ previous' = [previous EXCEPT ![o][k] = Entry(k)]
    /\ locks' = [locks EXCEPT ![k] = o]
    /\ stage' = [stage EXCEPT ![o][k] = "waiting"]
    /\ issued' = [issued EXCEPT ![k] = @ + 1]
    /\ ticket' = [ticket EXCEPT ![o][k] = issued[k] + 1]
    /\ UNCHANGED served

\* The promise a call chained on has settled: `tracked` of the previous call
\* settles once its `finally` has run.
PreviousSettled(o, k) ==
    previous[o][k] # NoOp => stage[previous[o][k]][k] = "cleared"

\* previous.catch().then(action): the action starts.
Enter(o, k) ==
    /\ stage[o][k] = "waiting"
    /\ PreviousSettled(o, k)
    /\ stage' = [stage EXCEPT ![o][k] = "running"]
    /\ UNCHANGED <<locks, previous, issued, served, ticket>>

\* The promise of the level below has settled (or there is no such level), so
\* that of this level settles.  Fulfilled and rejected go the same way.
Settle(o, i) ==
    LET k == Plan[o][i] IN
    /\ stage[o][k] = "running"
    /\ i < Len(Plan[o]) => stage[o][Plan[o][i + 1]] \in {"settled", "cleared"}
    /\ stage' = [stage EXCEPT ![o][k] = "settled"]
    /\ UNCHANGED <<locks, previous, issued, served, ticket>>

DeleteAnyEntry(o, k) == [locks EXCEPT ![k] = NoOp]                   \* mutant

\* The `finally` of `tracked`: the entry goes only if it is still this call's.
LocksWithout(o, k) == IF locks[k] = o THEN [locks EXCEPT ![k] = NoOp] ELSE locks

Clear(o, k) ==
    /\ stage[o][k] = "settled"
    /\ stage' = [stage EXCEPT ![o][k] = "cleared"]
    /\ locks' = LocksWithout(o, k)
    /\ served' = [served EXCEPT ![k] = @ + 1]
    /\ UNCHANGED <<previous, issued, ticket>>

OpStep(o) ==
    \/ \E i \in DOMAIN Plan[o] : WithKey(o, i)
    \/ \E k \in Keys : Enter(o, k)
    \/ \E i \in DOMAIN Plan[o] : Settle(o, i)
    \/ \E k \in Keys : Clear(o, k)

\* Every call has been made and settled.
AllSettled == \A o \in Ops : \A i \in DOMAIN Plan[o] : stage[o][Plan[o][i]] = "cleared"

Terminated == AllSettled /\ UNCHANGED vars

Next == (\E o \in Ops : OpStep(o)) \/ Terminated

\* Everything but the outermost call of an operation, which nobody has to make.
Continuation ==
    \E o \in Ops :
        \/ \E i \in DOMAIN Plan[o] : i > 1 /\ WithKey(o, i)
        \/ \E k \in Keys : Enter(o, k) \/ Clear(o, k)
        \/ \E i \in DOMAIN Plan[o] : Settle(o, i)

\* The event loop runs some continuation while one can run, and an action
\* settles (an adapter call is bounded by its timeout).
Spec == Init /\ [][Next]_vars /\ WF_vars(Continuation)

----
InUse(o, k) == stage[o][k] \in {"waiting", "running", "settled"}
Entered(o, k) == stage[o][k] \in {"running", "settled", "cleared"}

\* Two operations are never inside the action of one key at the same time,
\* however calls, settling promises and map clean-ups interleave.
MutualExclusion ==
    \A k \in Keys : \A o, p \in Ops :
        stage[o][k] = "running" /\ stage[p][k] = "running" => o = p

\* First come, first served: an operation enters a key only after every
\* earlier caller of that key has left the chain.
FirstComeFirstServed ==
    \A k \in Keys : \A o, p \in Ops :
        /\ ticket[o][k] > 0 /\ ticket[o][k] < ticket[p][k]
        /\ Entered(p, k)
        => stage[o][k] = "cleared"

\* The map has an entry exactly while a call on the key is pending: an entry
\* dropped early would let a newcomer in, one kept would leak a promise.
EntryWhileInUse ==
    \A k \in Keys : locks[k] # NoOp <=> \E o \in Ops : InUse(o, k)

\* Whatever operations are under way, a time comes when none waits for a key or
\* holds one: no cycle of operations waits on each other's keys.
AllKeysComeFree == []<>(\A o \in Ops, k \in Keys : ~InUse(o, k))

\* What callers rely on: one queue per key, served from its head.  The queue is
\* the calls in the chain in the order they were made.
Chain(k) ==
    [n \in 1 .. (issued[k] - served[k]) |->
        CHOOSE o \in Ops : ticket[o][k] = served[k] + n]

Queues == INSTANCE KeyQueues WITH
    queue <- [k \in Keys |-> Chain(k)],
    inside <- [k \in Keys |-> {o \in Ops : stage[o][k] = "running"}]

ServedFromQueues == Queues!Spec

====
