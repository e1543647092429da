---- MODULE TokenLedger ----
(*
The tokens of a session and their estimated cost: the ledger of the
database, to which each usage notification adds what was used since the
last one under the model of that time (token-cost.ts), and the cost
that is read from it or from the App Server's own account.

The App Server's total of a thread may be sent again, may be lost with
the connection, and may fall when Turns are rolled back.
*)
EXTENDS Naturals, Integers, Sequences, FiniteSets, FiniteSetsExt

CONSTANTS
    Keys,           \* what is counted: input tokens, output tokens, ...
    Priced,         \* models with a price
    Unpriced,
    MaxUsed,        \* bound: tokens of each key
    MaxLines,       \* bound: what is on its way
    MaxFaults       \* bound: rollbacks, repetitions, lost connections, restarts

VARIABLES
    counter,    \* the App Server's total of the thread
    running,    \* the model of the Turn that runs
    lines,      \* what the service has not handled yet
    settings,   \* SessionService.settings: the model, None without an entry
    last,       \* last_model of the session's row
    ledger,     \* session_cost_usage: [there, total, groups]
    older,      \* what was used before there was a ledger
    used,       \* what was used since, under each model
    fell,       \* the total was rolled back
    lossy,      \* a connection was lost
    faults

vars == <<counter, running, lines, settings, last, ledger, older, used, fell, lossy, faults>>

Models == Priced \cup Unpriced
None == "none"
Totals == [Keys -> Nat]
Zero == [k \in Keys |-> 0]
NoGroups == [m \in Models |-> Zero]
NoLedger == [there |-> FALSE, total |-> Zero, groups |-> NoGroups]
Plus(a, b) == [k \in Keys |-> a[k] + b[k]]
Minus(a, b) == [k \in Keys |-> a[k] - b[k]]
Sum(groups) == [k \in Keys |-> MapThenSumSet(LAMBDA m : groups[m][k], Models)]

\* A session may be older than its ledger.
Init ==
    /\ counter \in {Zero, [k \in Keys |-> 1]}
    /\ running = None /\ lines = <<>> /\ settings = None /\ last \in Models
    /\ ledger = NoLedger /\ older = counter /\ used = NoGroups
    /\ fell = FALSE /\ lossy = FALSE /\ faults = 0

----
(* The App Server *)

Usage(total) == [kind |-> "usage", total |-> total, model |-> None]

\* The answer of turn/start.
Start(m) ==
    /\ running = None /\ Len(lines) < MaxLines
    /\ running' = m
    /\ lines' = Append(lines, [kind |-> "started", total |-> Zero, model |-> m])
    /\ UNCHANGED <<counter, settings, last, ledger, older, used, fell, lossy, faults>>
Use(k) ==
    /\ running # None /\ Sum(used)[k] < MaxUsed /\ Len(lines) < MaxLines
    /\ counter' = [counter EXCEPT ![k] = @ + 1]
    /\ used' = [used EXCEPT ![running][k] = @ + 1]
    /\ lines' = Append(lines, Usage(counter'))
    /\ UNCHANGED <<running, settings, last, ledger, older, fell, lossy, faults>>
End ==
    /\ running # None /\ running' = None
    /\ UNCHANGED <<counter, lines, settings, last, ledger, older, used, fell, lossy, faults>>
\* The total is sent again, as when the thread is loaded.
Repeat ==
    /\ faults < MaxFaults /\ faults' = faults + 1 /\ Len(lines) < MaxLines
    /\ lines' = Append(lines, Usage(counter))
    /\ UNCHANGED <<counter, running, settings, last, ledger, older, used, fell, lossy>>
RollBack ==
    /\ faults < MaxFaults /\ faults' = faults + 1 /\ running = None
    /\ fell' = TRUE /\ Len(lines) < MaxLines
    /\ \E total \in [Keys -> 0..(MaxUsed + 1)] :
        /\ \A k \in Keys : total[k] <= counter[k]
        /\ total # counter
        /\ counter' = total
        /\ lines' = Append(lines, Usage(total))
    /\ UNCHANGED <<running, settings, last, ledger, older, used, lossy>>

----
(* recordTokenUsage *)

\* mutant: the total has to fall in each of its numbers.
FellInAll(total) == \A k \in Keys : total[k] < ledger.total[k]
Fell(total) == \E k \in Keys : total[k] < ledger.total[k]

\* mutant: what was used is the total.
SinceLastWhole(total) == total
SinceLast(total) == Minus(total, ledger.total)

Groups == {m \in Models : ledger.groups[m] # Zero}
\* mutant: the first group there is.
GroupAny(model) == IF Groups = {} THEN model ELSE CHOOSE m \in Groups : TRUE
\* The group of the ledger that a model's tokens are added to.
Group(model) == model

Recorded(total, model) ==
    [there |-> TRUE, total |-> total,
     groups |-> IF ledger.there /\ Fell(total) THEN ledger.groups
                ELSE [ledger.groups EXCEPT ![Group(model)] = Plus(@, SinceLast(total))]]

ModelNow == IF settings # None THEN settings ELSE last

\* handleEvent, and the continuation of startTurn.
Handle ==
    LET line == Head(lines) IN
    /\ lines # <<>> /\ lines' = Tail(lines)
    /\ IF line.kind = "started"
       THEN /\ settings' = line.model /\ last' = line.model
            /\ UNCHANGED ledger
       ELSE ledger' = Recorded(line.total, ModelNow) /\ UNCHANGED <<settings, last>>
    /\ UNCHANGED <<counter, running, older, used, fell, lossy, faults>>

\* The connection is lost, or the web server stops too, and what is in memory goes.
Lose ==
    /\ faults < MaxFaults /\ faults' = faults + 1
    /\ lines' = <<>> /\ running' = None /\ lossy' = TRUE
    /\ settings' \in {settings, None}
    /\ UNCHANGED <<counter, last, ledger, older, used, fell>>

Next ==
    \/ \E m \in Models : Start(m)
    \/ \E k \in Keys : Use(k)
    \/ End \/ Repeat \/ RollBack \/ Handle \/ Lose

Spec == Init /\ [][Next]_vars

----
(* estimateTokenCost: a token of a priced model costs one, whatever it is. *)

Amount(groups) == MapThenSumSet(LAMBDA m : MapThenSumSet(LAMBDA k : ledger.groups[m][k], Keys), groups)
\* mutant: a cost is partial when nothing could be priced.
PartialIfNone == Groups \cap Priced = {}
Partial == Groups \cap Priced # {} /\ Groups \cap Unpriced # {}

TypeOK ==
    /\ counter \in Totals /\ ledger.total \in Totals /\ ledger.there \in BOOLEAN
    /\ running \in Models \cup {None} /\ settings \in Models \cup {None} /\ last \in Models
    /\ ledger.groups \in [Models -> [Keys -> Int]]

\* Nothing is counted twice, and nothing is missed but what a falling total hides: totals
\* that are repeated or lost leave the ledger right (recordTokenUsage).
UsedIsCountedOnce ==
    LET all == Plus(older, Sum(used)) IN
    /\ \A k \in Keys : Sum(ledger.groups)[k] <= all[k]
    /\ ledger.there /\ ledger.total = counter /\ ~fell => Sum(ledger.groups) = all

\* Tokens are counted under the model that used them, unless a connection was lost between
\* or they are older than the ledger.
UnderItsModel ==
    ~lossy => \A m \in Models, k \in Keys :
        ledger.groups[m][k] <= used[m][k] + older[k]

\* What was counted is never given back.
NeverRefundsStep ==
    \A m \in Models, k \in Keys : ledger'.groups[m][k] >= ledger.groups[m][k]
NeverRefunds == [][NeverRefundsStep]_vars

\* An amount that leaves out tokens that were counted says so.
AmountIsHonest ==
    Groups \cap Priced # {} => (Partial <=> Amount(Groups) > Amount(Groups \cap Priced))
====
