---- MODULE MachineMetrics ----
(*
Readings of the machine's processors and graphics cards, taken when a
page asks and shared by every page (machine-metrics.ts).  A sample
takes a window of processor time and, meanwhile, one or two runs of
nvidia-smi; when these fail, the last reading is shown for a while, said
to be old.  Timers that are due fire before time goes on.
*)
EXTENDS Integers, FiniteSets

CONSTANTS
    Pages,          \* pages that ask
    CacheFor,       \* a sample is given again until it is that old
    Window,         \* the processors' measurement
    QueryLimit,     \* nvidia-smi's time limit
    StaleLimit,     \* GPU_STALE_LIMIT_MS
    MaxTime         \* bound: the clock

VARIABLES
    now,
    samples,        \* samples under way
    cached,         \* the last sample and when it was ready
    lastGpu,        \* when the last reading of the cards was made
    waiting,        \* pages that wait, by the sample they wait for
    answer          \* the last answer each page was given

vars == <<now, samples, cached, lastGpu, waiting, answer>>

Never == -1
None == [status |-> "none", read |-> Never]
Idle == [at |-> Never, gpu |-> None]

Init ==
    /\ now = 0 /\ samples = {} /\ cached = Idle /\ lastGpu = Never
    /\ waiting = [p \in Pages |-> 0]
    /\ answer = [p \in Pages |-> [gpu |-> None, given |-> Never]]

Begun(id) == [id |-> id, began |-> now, try |-> 1, since |-> now, at |-> "querying", gpu |-> None]
Given(p, gpu) == answer' = [answer EXCEPT ![p] = [gpu |-> gpu, given |-> now]]
Replace(s, t) == samples' = (samples \ {s}) \cup {t}

\* mutant: what was sampled once is given for ever.
FreshOnce == cached # Idle
Fresh == cached # Idle /\ now - cached.at < CacheFor
\* mutant: each page starts a sample of its own.
SharesNothing == {}
Shared == samples

Read(p) ==
    /\ waiting[p] = 0
    /\ \/ /\ Fresh /\ Given(p, cached.gpu)
          /\ UNCHANGED <<samples, waiting>>
       \/ /\ ~Fresh /\ Shared # {}
          /\ \E s \in Shared : waiting' = [waiting EXCEPT ![p] = s.id]
          /\ UNCHANGED <<samples, answer>>
       \/ /\ ~Fresh /\ Shared = {}
          /\ LET id == 1 + Cardinality(samples)
             IN  /\ samples' = samples \cup {Begun(id)}
                 /\ waiting' = [waiting EXCEPT ![p] = id]
          /\ UNCHANGED answer
    /\ UNCHANGED <<now, cached, lastGpu>>

----
(* sampleGpu *)

\* mutant: old readings are given however old they are.
RecentOnce == lastGpu # Never
Recent == lastGpu # Never /\ now - lastGpu < StaleLimit

Unread == IF Recent THEN [status |-> "stale", read |-> lastGpu]
                    ELSE [status |-> "unavailable", read |-> Never]

Queried(s) ==
    /\ s.at = "querying" /\ now - s.since < QueryLimit
    /\ lastGpu' = now
    /\ Replace(s, [s EXCEPT !.at = "read", !.gpu = [status |-> "available", read |-> now]])
    /\ UNCHANGED <<now, cached, waiting, answer>>

\* No devices, a failure or the time limit: once more, unless the command is missing.
QueryFails(s) ==
    /\ s.at = "querying"
    /\ \/ s.try = 1 /\ Replace(s, [s EXCEPT !.at = "pauses", !.since = now])
       \/ Replace(s, [s EXCEPT !.at = "read", !.gpu = Unread])
    /\ UNCHANGED <<now, cached, lastGpu, waiting, answer>>

Retry(s) ==
    /\ s.at = "pauses" /\ now - s.since = 1
    /\ Replace(s, [s EXCEPT !.at = "querying", !.try = 2, !.since = now])
    /\ UNCHANGED <<now, cached, lastGpu, waiting, answer>>

----
Measured(s) == s.at = "read" /\ now - s.began >= Window

Sampled(s) ==
    /\ Measured(s)
    /\ samples' = samples \ {s}
    /\ cached' = [at |-> now, gpu |-> s.gpu]
    /\ answer' = [p \in Pages |-> IF waiting[p] = s.id THEN [gpu |-> s.gpu, given |-> now] ELSE answer[p]]
    /\ waiting' = [p \in Pages |-> IF waiting[p] = s.id THEN 0 ELSE waiting[p]]
    /\ UNCHANGED <<now, lastGpu>>

Due(s) ==
    \/ Measured(s)
    \/ s.at = "pauses" /\ now - s.since = 1
    \/ s.at = "querying" /\ now - s.since = QueryLimit

Tick ==
    /\ now < MaxTime /\ \A s \in samples : ~Due(s)
    /\ now' = now + 1
    /\ UNCHANGED <<samples, cached, lastGpu, waiting, answer>>

Next ==
    \/ Tick
    \/ \E p \in Pages : Read(p)
    \/ \E s \in samples : Queried(s) \/ QueryFails(s) \/ Retry(s) \/ Sampled(s)

Spec == Init /\ [][Next]_vars

----
TypeOK ==
    /\ now \in 0..MaxTime /\ lastGpu \in Never..MaxTime
    /\ \A s \in samples : s.try \in 1..2 /\ s.at \in {"querying", "pauses", "read"}
    /\ cached.at \in Never..MaxTime
    /\ \A p \in Pages : waiting[p] \in 0..Cardinality(Pages)
    /\ \A p \in Pages : answer[p].gpu.status \in {"none", "available", "stale", "unavailable"}

\* The command runs for one page at a time however many ask, and no page waits for
\* a sample that is not under way.
OneSampleForAll ==
    /\ Cardinality(samples) <= 1
    /\ \A p \in Pages : waiting[p] # 0 => \E s \in samples : s.id = waiting[p]

\* "without presenting old values as live" (machine-metrics.ts:69): what is said to be
\* available was read at most a window and the cache's time before it is given, and
\* what is said to be old at most the stale limit and these before.
OldIsNotLive == \A p \in Pages :
    LET age == answer[p].given - answer[p].gpu.read
    IN  /\ answer[p].gpu.status = "available" => age < Window + CacheFor
        /\ answer[p].gpu.status = "stale" => age < StaleLimit + Window + CacheFor
====
