---- MODULE KeyQueues ----
(*
What a keyed lock promises, without promises or a map: one queue of
operations per key.  The head of the queue may be inside the key; nobody
else is, and an operation leaves the queue from its head, after it left
the key.
*)
EXTENDS Naturals, Sequences

CONSTANTS Ops, Keys

VARIABLES
    queue,   \* [key] -> the operations asking for it, first come first
    inside   \* [key] -> the operations inside it

Init ==
    /\ queue = [k \in Keys |-> << >>]
    /\ inside = [k \in Keys |-> {}]

Ask(o, k) ==
    /\ queue' = [queue EXCEPT ![k] = Append(@, o)]
    /\ UNCHANGED inside

Enter(o, k) ==
    /\ queue[k] # << >> /\ o = Head(queue[k])
    /\ inside[k] = {}
    /\ inside' = [inside EXCEPT ![k] = {o}]
    /\ UNCHANGED queue

Leave(o, k) ==
    /\ o \in inside[k]
    /\ inside' = [inside EXCEPT ![k] = @ \ {o}]
    /\ UNCHANGED queue

Dequeue(k) ==
    /\ queue[k] # << >> /\ inside[k] = {}
    /\ queue' = [queue EXCEPT ![k] = Tail(@)]
    /\ UNCHANGED inside

Next ==
    \E k \in Keys :
        \/ \E o \in Ops : Ask(o, k) \/ Enter(o, k) \/ Leave(o, k)
        \/ Dequeue(k)

Spec == Init /\ [][Next]_<<queue, inside>>

====
