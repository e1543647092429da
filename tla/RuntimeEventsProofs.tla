---- MODULE RuntimeEventsProofs ----
(*
For any threads and requests, and any bounds on the events: the states
a browser is shown of a thread can end, nobody waits for a thread whose
activity is over, and late notifications bring no removed thread back.
At the end, stopping a Turn (Interrupts): a stop that is told to have
succeeded stopped the Turn that was shown, or that Turn is over.
*)
EXTENDS RuntimeEvents, Integers, Sequences, FiniteSetTheorems, TLAPS

----
(* What the handlers are made of. *)

LEMMA DefaultType == Default \in Runtime /\ ~IsLive(Default) /\ Over(Default)
                     /\ Default.ids = {} /\ ~Default.turn
                     /\ Default.state = "idle"
BY DEF Default, Runtime, Live, Ended, IsLive, Over

LEMMA AgentTypes ==
  /\ NoAgent \in Agent
  /\ \A a \in Agent, s \in Live \cup Ended \cup {"none", "idle", "disconnected"} :
        [a EXCEPT !.state = s] \in Agent /\ [a EXCEPT !.state = s].state = s
  /\ \A r \in Runtime : r.state \in Live \cup Ended \cup {"none", "idle", "disconnected"}
BY DEF NoAgent, Agent, Runtime

\* The thread a request is shown at is a thread.
LEMMA VisibleType == ASSUME NEW t \in Threads PROVE Visible(t) \in Threads
<1> DEFINE roots == {a \in Threads : a \in Above(t) /\ parent[a] = NoThread}
<1>1. Visible(t) = IF roots = {} THEN t ELSE CHOOSE a \in roots : TRUE BY DEF Visible
<1>2. roots # {} => (CHOOSE a \in roots : TRUE) \in roots OBVIOUS
<1> QED BY <1>1, <1>2

\* removeSubagentMappings leaves parents and subagents of the right type, and
\* makes no subagent live.
LEMMA ForgetTypes ==
  ASSUME TypeOK, NEW t \in Threads, Forget(t)
  PROVE  /\ parent' \in [Threads -> Threads \cup {NoThread}]
         /\ agent' \in [Threads -> Agent]
         /\ \A u \in Threads : agent'[u].state \in Live => agent[u].state \in Live
<1>1. ~(NoAgent.state \in Live) BY DEF NoAgent, Live
<1> QED BY <1>1, AgentTypes DEF Forget, TypeOK

\* What is said of one subagent.
LEMMA UpdateSubagentTypes ==
  ASSUME TypeOK, NEW c \in Threads,
         NEW s \in Live \cup Ended \cup {"idle", "asRuntime"},
         NEW status \in {"running", "ended", "same"},
         UpdateSubagent(c, s, status)
  PROVE  agent' \in [Threads -> Agent]
<1> DEFINE a == [state |-> IF s = "asRuntime" THEN runtime[c].state ELSE s,
                 status |-> IF status = "same" THEN agent[c].status ELSE status]
<1>1. a \in Agent BY DEF TypeOK, Runtime, Agent
<1>2. agent' = [agent EXCEPT ![c] = a] BY DEF UpdateSubagent
<1> QED BY <1>1, <1>2 DEF TypeOK

----
(* One thread is shown in another state. *)

\* The parts of the invariant about the requests, when cards of one thread go
\* and it waits on none of these any more.
LEMMA FewerRequests ==
  ASSUME RegistryInvariant,
         NEW t \in Threads, NEW r \in Runtime, NEW C \in SUBSET Requests,
         runtime' = [runtime EXCEPT ![t] = r],
         r.ids \subseteq runtime[t].ids,
         r.ids # {} => IsLive(r) /\ t \in hints', hints \ {t} \subseteq hints',
         Cleared(C), \A q \in C \cap cards : owner[q] = t, t \notin revived' => r.ids \cap C = {},
         cards' \subseteq answerable', answerable' \subseteq answerable,
         UNCHANGED used, revived \ {t} \subseteq revived', t \in revived => r.ids = {} \/ t \in revived'
  PROVE  WaitingIsLive' /\ OneOwner' /\ WaitsOnAnswerable'
<1> USE DEF RegistryInvariant
<1>1. /\ runtime'[t] = r
      /\ \A u \in Threads : u # t => runtime'[u] = runtime[u]
      /\ \A u \in Threads : runtime'[u].ids \subseteq runtime[u].ids
  BY DEF TypeOK
<1>2. /\ cards' = cards \ C
      /\ \A q \in Requests : owner'[q] = IF q \in C THEN NoThread ELSE owner[q]
  BY DEF Cleared
<1>3. WaitingIsLive' BY <1>1 DEF WaitingIsLive
<1>4. OneOwner'
  <2>1. answerable' \subseteq used' BY DEF OneOwner
  <2>2. \A q \in Requests : q \in cards' <=> owner'[q] # NoThread BY <1>2 DEF OneOwner
  <2>3. \A u \in Threads : runtime'[u].ids \subseteq used' BY <1>1 DEF OneOwner
  <2>4. \A u \in Threads, q \in Requests :
           q \in runtime'[u].ids /\ q \in cards' => owner'[q] = u
    BY <1>1, <1>2 DEF OneOwner
  <2>5. \A u, v \in Threads : u # v => runtime'[u].ids \cap runtime'[v].ids = {} BY <1>1 DEF OneOwner
  <2> QED BY <2>1, <2>2, <2>3, <2>4, <2>5 DEF OneOwner
<1>5. WaitsOnAnswerable'
  <2>1. ASSUME NEW u \in Threads \ revived', NEW q \in runtime'[u].ids
        PROVE  q \in cards'
    <3>1. u \notin revived /\ q \in runtime[u].ids /\ q \in cards
      BY <1>1, <2>1 DEF ShownStatesCanEnd, WaitsOnAnswerable
    <3>2. q \in Requests /\ owner[q] = u BY <3>1 DEF TypeOK, OneOwner
    <3>3. q \notin C BY <1>1, <2>1, <3>1, <3>2
    <3> QED BY <1>2, <3>1, <3>3
  <2> QED BY <2>1 DEF WaitsOnAnswerable
<1> QED BY <1>3, <1>4, <1>5

\* The parts about what is shown, when setRuntime shows thread t as r.
LEMMA ShownAs ==
  ASSUME RegistryInvariant,
         NEW t \in Threads, NEW r \in Runtime, SetRuntime(t, r),
         r.state = "waitingForInput" => Blocking(r.ids) \/ r.flag,
         fading \subseteq fading' \cup {t}, r.state = "justFinished" => t \in fading',
         UNCHANGED <<link, chats>>,
         link = "down" => ~IsLive(r) /\ cards' \subseteq cards
  PROVE  /\ runtime' \in [Threads -> Runtime] /\ known' \subseteq Threads
         /\ agent' \in [Threads -> Agent] /\ awaits' \in [Threads -> {"nothing", "end", "turn"}]
         /\ UnknownIsDefault' /\ AwaitsOwned'
         /\ WaitsForSomething' /\ NothingLiveWhileDown' /\ FinishFades' /\ NobodyWaitsForNothing'
<1> USE DEF RegistryInvariant
<1>1. /\ runtime' \in [Threads -> Runtime] /\ runtime'[t] = r
      /\ \A u \in Threads : u # t => runtime'[u] = runtime[u]
      /\ known' = known \cup {t}
  BY DEF TypeOK, SetRuntime
<1>2. /\ agent' \in [Threads -> Agent]
      /\ \A u \in Threads : agent'[u] = agent[u] \/ (u = t /\ agent'[u].state = r.state)
  <2>1. r.state \in Live \cup Ended \cup {"none", "idle", "disconnected"} BY AgentTypes
  <2>2. [agent[t] EXCEPT !.state = r.state] \in Agent /\ [agent[t] EXCEPT !.state = r.state].state = r.state
    BY <2>1, AgentTypes DEF TypeOK
  <2> QED BY <2>2 DEF SetRuntime, TypeOK
<1>3. /\ awaits' \in [Threads -> {"nothing", "end", "turn"}] /\ awaits'[t] = Wakes(r, awaits[t])
      /\ \A u \in Threads : u # t => awaits'[u] = awaits[u]
  <2>1. Wakes(r, awaits[t]) \in {"nothing", "end", "turn"} BY DEF Wakes, TypeOK
  <2> QED BY <2>1 DEF TypeOK, SetRuntime
<1>4. known' \subseteq Threads /\ UnknownIsDefault' BY <1>1 DEF TypeOK, UnknownIsDefault
<1>5. AwaitsOwned' BY <1>3 DEF AwaitsOwned, Wakes
<1>6. WaitsForSomething' BY <1>1 DEF ShownStatesCanEnd, WaitsForSomething
<1>7. NothingLiveWhileDown' BY <1>1, <1>2 DEF ShownStatesCanEnd, NothingLiveWhileDown, IsLive
<1>8. FinishFades' BY <1>1 DEF ShownStatesCanEnd, FinishFades
<1>9. NobodyWaitsForNothing'
  <2>1. awaits'[t] # "nothing" => ~Over(r) /\ (awaits'[t] = "turn" => ~r.turn) BY <1>3 DEF Wakes
  <2> QED BY <1>1, <1>3, <2>1 DEF NobodyWaitsForNothing
<1> QED BY <1>1, <1>2, <1>3, <1>4, <1>5, <1>6, <1>7, <1>8, <1>9

\* Both together: a handler that shows thread t as r, of which no new request is
\* waited for, keeps the invariant.
LEMMA ShowsOne ==
  ASSUME RegistryInvariant,
         NEW t \in Threads, NEW r \in Runtime, NEW C \in SUBSET Requests, SetRuntime(t, r),
         r.state = "waitingForInput" => Blocking(r.ids) \/ r.flag,
         r.ids \subseteq runtime[t].ids, t \notin revived => r.ids \cap C = {},
         r.ids # {} => IsLive(r) /\ t \in hints',
         hints \ {t} \subseteq hints', hints' \subseteq Threads,
         fading \subseteq fading' \cup {t}, r.state = "justFinished" => t \in fading', fading' \subseteq Threads,
         Cleared(C), \A q \in C \cap cards : owner[q] = t,
         cards' \subseteq answerable', answerable' \subseteq answerable,
         asked' \in [Requests -> Threads \cup {NoThread}], busy' \subseteq Threads,
         UNCHANGED <<parent, used, revived, link, chats, gone>>, turns' \in Nat, troubles' \in Nat,
         link = "down" => ~IsLive(r)
  PROVE  RegistryInvariant'
<1>1. /\ runtime' = [runtime EXCEPT ![t] = r]
      /\ cards' = cards \ C /\ owner' = [q \in Requests |-> IF q \in C THEN NoThread ELSE owner[q]]
  BY DEF SetRuntime, Cleared
<1>2. WaitingIsLive' /\ OneOwner' /\ WaitsOnAnswerable' BY <1>1, FewerRequests
<1>3. /\ runtime' \in [Threads -> Runtime] /\ known' \subseteq Threads
      /\ agent' \in [Threads -> Agent] /\ awaits' \in [Threads -> {"nothing", "end", "turn"}]
      /\ UnknownIsDefault' /\ AwaitsOwned'
      /\ WaitsForSomething' /\ NothingLiveWhileDown' /\ FinishFades' /\ NobodyWaitsForNothing'
  BY <1>1, ShownAs
<1>4. TypeOK' BY <1>1, <1>3 DEF RegistryInvariant, TypeOK
<1>5. GoneWaitRevived' BY <1>1 DEF RegistryInvariant, TypeOK, GoneWaitRevived
<1> QED BY <1>2, <1>3, <1>4, <1>5 DEF RegistryInvariant, ShownStatesCanEnd

\* A step that shows no thread in another state and leaves requests alone.
LEMMA ShowsNone ==
  ASSUME RegistryInvariant, UNCHANGED <<runtime, cards, owner, used, revived>>,
         known \subseteq known', known' \subseteq Threads,
         agent' \in [Threads -> Agent],
         link' = "down" => \A t \in Threads : agent'[t].state \in Live => agent[t].state \in Live,
         link' \in {"connected", "down", "recovering"}, link' = "down" => link = "down",
         awaits' \in [Threads -> {"nothing", "end", "turn"}],
         \A t \in Threads : awaits'[t] # "nothing" =>
             \/ awaits'[t] = awaits[t]
             \/ /\ ~Over(runtime[t]) /\ (awaits'[t] = "turn" => ~runtime[t].turn)
                /\ t \in Sessions \cup chats,
         parent' \in [Threads -> Threads \cup {NoThread}],
         asked' \in [Requests -> Threads \cup {NoThread}],
         UNCHANGED chats, gone' \subseteq gone,
         hints \subseteq hints', hints' \subseteq Threads, busy' \subseteq Threads,
         fading' \subseteq fading, \A t \in fading \ fading' : runtime[t].state # "justFinished",
         cards \subseteq answerable', answerable' \subseteq answerable,
         turns' \in Nat, troubles' \in Nat
  PROVE  RegistryInvariant'
<1> USE DEF RegistryInvariant
<1>1. TypeOK' BY DEF TypeOK
<1>2. UnknownIsDefault' /\ WaitingIsLive' BY DEF UnknownIsDefault, WaitingIsLive
<1>3. OneOwner' BY DEF OneOwner
<1>4. AwaitsOwned' /\ GoneWaitRevived' /\ NobodyWaitsForNothing'
  BY DEF AwaitsOwned, GoneWaitRevived, NobodyWaitsForNothing
<1>5. WaitsOnAnswerable' /\ WaitsForSomething' BY DEF ShownStatesCanEnd, WaitsOnAnswerable, WaitsForSomething
<1>6. NothingLiveWhileDown' BY DEF ShownStatesCanEnd, NothingLiveWhileDown
<1>7. FinishFades' BY DEF ShownStatesCanEnd, FinishFades, TypeOK
<1> QED BY <1>1, <1>2, <1>3, <1>4, <1>5, <1>6, <1>7 DEF ShownStatesCanEnd

\* removeThread and removeSideChat.
LEMMA RemovedStep ==
  ASSUME RegistryInvariant, NEW t \in Sessions \cup chats, Removed(t),
         UNCHANGED link, troubles' \in Nat
  PROVE  RegistryInvariant'
<1> USE DEF RegistryInvariant
<1>1. t \in Threads BY DEF Threads, TypeOK
<1>2. /\ runtime' \in [Threads -> Runtime] /\ runtime'[t] = Default
      /\ \A u \in Threads : u # t => runtime'[u] = runtime[u]
      /\ known' = known \ {t} /\ hints' = hints \ {t} /\ fading \subseteq fading' \cup {t} /\ fading' \subseteq fading
      /\ chats' = chats \ {t} /\ revived' = revived \ {t} /\ UNCHANGED <<answerable, used, asked, busy, turns>>
      /\ gone' = gone \cup {t}
  BY <1>1, DefaultType DEF TypeOK, Removed, server
<1>3. /\ awaits' \in [Threads -> {"nothing", "end", "turn"}]
      /\ \A u \in Threads : awaits'[u] # "nothing" => u # t /\ awaits'[u] = awaits[u]
  BY <1>1 DEF TypeOK, Removed
<1>4. /\ parent' \in [Threads -> Threads \cup {NoThread}]
      /\ agent' \in [Threads -> Agent]
      /\ \A u \in Threads : agent'[u].state \in Live => agent[u].state \in Live
  BY <1>1, ForgetTypes DEF Removed
<1>5. Cleared(runtime[t].ids) /\ runtime[t].ids \subseteq Requests BY <1>1 DEF Removed, TypeOK, Runtime
<1>6. cards' \subseteq cards /\ owner' \in [Requests -> Threads \cup {NoThread}] BY <1>5 DEF Cleared, TypeOK
<1>7. WaitingIsLive' /\ OneOwner' /\ WaitsOnAnswerable'
  <2>1. \A q \in runtime[t].ids \cap cards : owner[q] = t BY <1>1, <1>5 DEF OneOwner
  <2>2. Default \in Runtime /\ Default.ids = {} BY DefaultType
  <2>3. runtime' = [runtime EXCEPT ![t] = Default] BY DEF Removed
  <2>4. cards' \subseteq answerable' BY <1>2, <1>6 DEF ShownStatesCanEnd, WaitsOnAnswerable
  <2>5. /\ Default.ids \subseteq runtime[t].ids /\ Default.ids \cap runtime[t].ids = {}
        /\ hints \ {t} \subseteq hints' /\ revived \ {t} \subseteq revived' /\ UNCHANGED used
        /\ answerable' \subseteq answerable
    BY <1>2, <2>2
  <2>6. runtime[t].ids \in SUBSET Requests BY <1>5
  <2> QED BY <1>1, <1>5, <2>1, <2>2, <2>3, <2>4, <2>5, <2>6, FewerRequests
<1>8. TypeOK' BY <1>1, <1>2, <1>3, <1>4, <1>6 DEF TypeOK
<1>9. UnknownIsDefault' BY <1>2 DEF UnknownIsDefault
<1>10. AwaitsOwned' /\ GoneWaitRevived' /\ NobodyWaitsForNothing'
  BY <1>1, <1>2, <1>3, DefaultType DEF AwaitsOwned, GoneWaitRevived, NobodyWaitsForNothing, TypeOK
<1>11. WaitsForSomething' /\ FinishFades'
  BY <1>2, DefaultType DEF ShownStatesCanEnd, WaitsForSomething, FinishFades
<1>12. NothingLiveWhileDown' BY <1>2, <1>4, <1>6, DefaultType DEF ShownStatesCanEnd, NothingLiveWhileDown
<1> QED BY <1>7, <1>8, <1>9, <1>10, <1>11, <1>12 DEF ShownStatesCanEnd

\* handleConnection("disconnected"), whether the App Server is gone or only its
\* reconciliation has failed.
LEMMA HandleDisconnectedStep ==
  ASSUME RegistryInvariant, HandleDisconnected,
         \/ UNCHANGED <<answerable, used>>
         \/ answerable' = {} /\ used' = {},
         asked' \in [Requests -> Threads \cup {NoThread}], busy' \subseteq Threads,
         UNCHANGED turns, troubles' \in Nat, link' \in {"down", "recovering"}
  PROVE  RegistryInvariant'
<1> USE DEF RegistryInvariant
<1> DEFINE Down(t) == [runtime[t] EXCEPT !.state = "disconnected", !.turn = FALSE, !.ids = {}]
<1>1. /\ hints' = {} /\ UNCHANGED <<known, parent, chats, gone, fading, revived>>
      /\ runtime' = [t \in Threads |-> IF t \in Lost THEN Down(t) ELSE runtime[t]]
      /\ awaits' = [t \in Threads |-> IF t \in Lost THEN "nothing" ELSE awaits[t]]
  BY DEF HandleDisconnected
<1>2. ASSUME NEW t \in Threads
      PROVE  /\ Down(t) \in Runtime /\ Down(t).ids = {} /\ Down(t).state = "disconnected"
             /\ ~IsLive(Down(t))
  <2>1. ASSUME NEW r \in Runtime
        PROVE  LET d == [r EXCEPT !.state = "disconnected", !.turn = FALSE, !.ids = {}]
               IN  d \in Runtime /\ d.ids = {} /\ d.state = "disconnected" /\ ~IsLive(d)
    BY DEF Runtime, IsLive, Live
  <2>2. runtime[t] \in Runtime BY DEF TypeOK
  <2> QED BY <2>1, <2>2
<1>3. \A t \in Threads : IsLive(runtime[t]) => t \in Lost BY DefaultType DEF Lost, UnknownIsDefault
<1>4. ASSUME NEW t \in Threads
      PROVE  /\ runtime'[t] \in Runtime /\ ~IsLive(runtime'[t]) /\ runtime'[t].ids = {}
             /\ runtime'[t] = runtime[t] \/ (t \in Lost /\ runtime'[t].state = "disconnected")
  <2>1. CASE t \in Lost BY <1>1, <1>2, <2>1
  <2>2. CASE t \notin Lost BY <1>1, <1>3, <2>2 DEF WaitingIsLive, TypeOK
  <2> QED BY <2>1, <2>2
<1>5. cards' = {} /\ owner' = [q \in Requests |-> NoThread]
  <2>1. {q \in cards : owner[q] # NoThread} = cards BY DEF OneOwner, TypeOK
  <2>2. Cleared(cards) BY <2>1 DEF HandleDisconnected
  <2>3. \A q \in Requests : q \notin cards => owner[q] = NoThread BY DEF OneOwner
  <2> QED BY <2>2, <2>3 DEF Cleared
<1>6. /\ agent' \in [Threads -> Agent]
      /\ \A t \in Threads : agent'[t].state \notin Live
  <2>1. ASSUME NEW t \in Threads
        PROVE  agent'[t] \in Agent /\ agent'[t].state \notin Live
    <3>1. [agent[t] EXCEPT !.state = "disconnected"] \in Agent
          /\ [agent[t] EXCEPT !.state = "disconnected"].state = "disconnected"
      BY AgentTypes DEF TypeOK
    <3>2. agent'[t] = IF IsAgent(t) /\ (t \in Lost \cup {u \in Threads : u \notin known /\ agent[u].status = "running"}
                                          \/ agent[t].state \in Live)
                      THEN [agent[t] EXCEPT !.state = "disconnected"] ELSE agent[t]
      BY DEF HandleDisconnected
    <3>3. agent[t].state \in Live => IsAgent(t) BY DEF IsAgent, NoAgent, Live
    <3>4. agent[t] \in Agent BY DEF TypeOK
    <3>5. CASE agent'[t] = [agent[t] EXCEPT !.state = "disconnected"] BY <3>1, <3>5 DEF Live
    <3>6. CASE agent'[t] # [agent[t] EXCEPT !.state = "disconnected"] BY <3>2, <3>3, <3>4, <3>6
    <3> QED BY <3>5, <3>6
  <2>2. DOMAIN agent' = Threads /\ agent' = [t \in Threads |-> agent'[t]] BY DEF HandleDisconnected
  <2> QED BY <2>1, <2>2
<1>7. TypeOK'
  <2>1. runtime' \in [Threads -> Runtime] BY <1>1, <1>4
  <2>2. awaits' \in [Threads -> {"nothing", "end", "turn"}] BY <1>1 DEF TypeOK
  <2> QED BY <1>1, <1>5, <1>6, <2>1, <2>2 DEF TypeOK
<1>8. UnknownIsDefault' BY <1>1, <1>4 DEF UnknownIsDefault, Lost
<1>9. WaitingIsLive' /\ OneOwner' BY <1>4, <1>5 DEF WaitingIsLive, OneOwner
<1>10. AwaitsOwned' /\ GoneWaitRevived' /\ NobodyWaitsForNothing'
  BY <1>1, <1>4 DEF AwaitsOwned, GoneWaitRevived, NobodyWaitsForNothing, TypeOK
<1>11. WaitsOnAnswerable' /\ WaitsForSomething'
  BY <1>4, <1>5 DEF WaitsOnAnswerable, WaitsForSomething, IsLive, Live
<1>12. NothingLiveWhileDown' /\ FinishFades'
  BY <1>1, <1>4, <1>5, <1>6 DEF ShownStatesCanEnd, NothingLiveWhileDown, FinishFades
<1> QED BY <1>7, <1>8, <1>9, <1>10, <1>11, <1>12 DEF ShownStatesCanEnd

\* A new request: the root of the thread's chain waits for it.
LEMMA HandlePendingRequestStep ==
  ASSUME RegistryInvariant, NEW q \in Requests, NEW t \in Threads, HandlePendingRequest(q, t)
  PROVE  RegistryInvariant'
<1> USE DEF RegistryInvariant
<1> DEFINE v == Visible(t)
           ids == runtime[v].ids \cup {q}
           r == [runtime[v] EXCEPT !.state = IF Blocking(ids) THEN "waitingForInput" ELSE "running", !.ids = ids]
<1>1. v \in Threads BY VisibleType
<1>2. /\ link # "down" /\ q \notin used /\ used' = used \cup {q} /\ answerable' = answerable \cup {q}
      /\ cards' = cards \cup {q} /\ owner' = [owner EXCEPT ![q] = v] /\ hints' = hints \cup {v}
      /\ SetRuntime(v, r) /\ revived' = IF v \in gone THEN revived \cup {v} ELSE revived
      /\ asked' = [asked EXCEPT ![q] = t]
      /\ UNCHANGED <<parent, chats, gone, fading, busy, turns, link, troubles>>
  BY DEF HandlePendingRequest
<1>3. runtime[v] \in Runtime BY <1>1 DEF TypeOK
<1>4. /\ r \in Runtime /\ IsLive(r) /\ r.ids = ids
      /\ r.state = "waitingForInput" => Blocking(r.ids)
      /\ r.state # "justFinished"
  <2> HIDE DEF v
  <2> QED BY <1>1, <1>3 DEF Runtime, IsLive, Live
<1> HIDE DEF v, r
<1>5. /\ runtime' \in [Threads -> Runtime] /\ known' \subseteq Threads
      /\ agent' \in [Threads -> Agent] /\ awaits' \in [Threads -> {"nothing", "end", "turn"}]
      /\ UnknownIsDefault' /\ AwaitsOwned'
      /\ WaitsForSomething' /\ NothingLiveWhileDown' /\ FinishFades' /\ NobodyWaitsForNothing'
  BY <1>1, <1>2, <1>4, ShownAs
<1>6. /\ runtime'[v] = r /\ \A u \in Threads : u # v => runtime'[u] = runtime[u]
  BY <1>1, <1>2 DEF SetRuntime, TypeOK
<1>7. TypeOK' BY <1>1, <1>2, <1>5 DEF TypeOK
<1>8. WaitingIsLive' BY <1>2, <1>4, <1>6 DEF WaitingIsLive
<1>9. v # NoThread BY <1>1, RuntimeConstants
<1>10. /\ q \notin cards /\ owner'[q] = v
       /\ \A p \in Requests : p # q => owner'[p] = owner[p]
  BY <1>2 DEF TypeOK, OneOwner, ShownStatesCanEnd, WaitsOnAnswerable
<1>11. OneOwner'
  <2>1. answerable' \subseteq used' BY <1>2 DEF OneOwner
  <2>2. \A p \in Requests : p \in cards' <=> owner'[p] # NoThread BY <1>2, <1>9, <1>10 DEF OneOwner
  <2>3. \A u \in Threads : runtime'[u].ids \subseteq used' BY <1>1, <1>2, <1>4, <1>6 DEF OneOwner
  <2>4. ASSUME NEW u \in Threads, NEW p \in Requests, p \in runtime'[u].ids, p \in cards'
        PROVE  owner'[p] = u
    <3>1. CASE p = q BY <1>2, <1>6, <1>10, <2>4, <3>1 DEF OneOwner
    <3>2. CASE p # q BY <1>1, <1>2, <1>4, <1>6, <1>10, <2>4, <3>2 DEF OneOwner
    <3> QED BY <3>1, <3>2
  <2>5. \A u, w \in Threads : u # w => runtime'[u].ids \cap runtime'[w].ids = {}
    BY <1>1, <1>2, <1>4, <1>6 DEF OneOwner
  <2> QED BY <2>1, <2>2, <2>3, <2>4, <2>5 DEF OneOwner
<1>12. WaitsOnAnswerable' BY <1>1, <1>2, <1>4, <1>6 DEF ShownStatesCanEnd, WaitsOnAnswerable
<1>13. GoneWaitRevived' BY <1>1, <1>2, <1>6 DEF GoneWaitRevived, TypeOK
<1> QED BY <1>5, <1>7, <1>8, <1>11, <1>12, <1>13 DEF ShownStatesCanEnd

----
(* The actions. *)

LEMMA RegistryInit == Init => RegistryInvariant
<1> SUFFICES ASSUME Init PROVE RegistryInvariant OBVIOUS
<1>1. TypeOK BY DefaultType, AgentTypes DEF Init, TypeOK
<1>2. UnknownIsDefault /\ WaitingIsLive /\ OneOwner /\ AwaitsOwned /\ GoneWaitRevived
  BY DefaultType DEF Init, UnknownIsDefault, WaitingIsLive, OneOwner, AwaitsOwned, GoneWaitRevived
<1>3. WaitsOnAnswerable /\ WaitsForSomething /\ FinishFades /\ NobodyWaitsForNothing
  BY DefaultType DEF Init, WaitsOnAnswerable, WaitsForSomething, FinishFades, NobodyWaitsForNothing
<1>4. NothingLiveWhileDown BY DEF Init, NothingLiveWhileDown
<1> QED BY <1>1, <1>2, <1>3, <1>4 DEF RegistryInvariant, ShownStatesCanEnd

\* An answer, or the App Server's word that it wants none any more, takes the
\* card away, and the thread stops waiting for it unless it is removed.
LEMMA ResolveStep ==
  ASSUME RegistryInvariant, NEW q \in Requests, ResolveServerRequest(q), link # "down",
         answerable' = answerable \ {q}, asked' \in [Requests -> Threads \cup {NoThread}],
         UNCHANGED <<parent, chats, gone, hints, fading, used, busy, turns, link, counts>>
  PROVE  RegistryInvariant'
<1> USE DEF RegistryInvariant
<1> DEFINE t == owner[q]
           r == [runtime[t] EXCEPT !.state = StateAfter(t, runtime[t].ids \ {q}), !.ids = @ \ {q}]
<1>1. TypeOK /\ OneOwner /\ UNCHANGED <<revived, troubles>> /\ cards \subseteq answerable
  BY DEF counts, ShownStatesCanEnd, WaitsOnAnswerable
<1>2. CASE q \notin cards
  <2>1. UNCHANGED <<runtime, known, agent, awaits, cards, owner>> BY <1>2 DEF ResolveServerRequest, shown
  <2>2. cards \subseteq answerable' BY <1>1, <1>2
  <2> QED BY <1>1, <2>1, <2>2, ShowsNone DEF TypeOK
<1>3. CASE q \in cards
  <2>1. t \in Threads /\ cards' = cards \ {q} /\ owner' = [owner EXCEPT ![q] = NoThread]
    BY <1>1, <1>3 DEF ResolveServerRequest, OneOwner, TypeOK
  <2>2. Cleared({q}) /\ cards' \subseteq answerable' BY <1>1, <2>1 DEF Cleared, TypeOK
  <2>3. CASE Ignored(t)
    <3>1. UNCHANGED <<runtime, known, agent, awaits>> BY <1>3, <2>3 DEF ResolveServerRequest, shown
    <3>2. WaitingIsLive' /\ OneOwner' /\ WaitsOnAnswerable'
      <4>1. runtime' = [runtime EXCEPT ![t] = runtime[t]] /\ runtime[t] \in Runtime
        BY <1>1, <2>1, <3>1 DEF TypeOK
      <4>2. t \notin revived' => runtime[t].ids \cap {q} = {} BY <1>1, <2>3 DEF Ignored, GoneWaitRevived
      <4>3. runtime[t].ids # {} => IsLive(runtime[t]) /\ t \in hints' BY <2>1 DEF WaitingIsLive
      <4>4. /\ \A p \in {q} \cap cards : owner[p] = t
            /\ {q} \in SUBSET Requests /\ hints \ {t} \subseteq hints'
            /\ revived \ {t} \subseteq revived' /\ (t \in revived => t \in revived')
            /\ answerable' \subseteq answerable /\ UNCHANGED used
        BY <1>1
      <4> HIDE DEF t
      <4> QED BY <2>1, <2>2, <4>1, <4>2, <4>3, <4>4, FewerRequests
    <3>3. TypeOK' BY <1>1, <2>1, <3>1 DEF TypeOK
    <3>4. UnknownIsDefault' /\ AwaitsOwned' /\ GoneWaitRevived' /\ NobodyWaitsForNothing'
      BY <1>1, <3>1 DEF UnknownIsDefault, AwaitsOwned, GoneWaitRevived, NobodyWaitsForNothing
    <3>5. WaitsForSomething' /\ NothingLiveWhileDown' /\ FinishFades'
      BY <3>1 DEF ShownStatesCanEnd, WaitsForSomething, NothingLiveWhileDown, FinishFades
    <3> QED BY <3>2, <3>3, <3>4, <3>5 DEF ShownStatesCanEnd
  <2>4. CASE ~Ignored(t)
    <3>1. SetRuntime(t, r) BY <1>3, <2>4 DEF ResolveServerRequest
    <3>2. runtime[t] \in Runtime /\ runtime[t].ids \ {q} \in SUBSET Requests BY <1>1, <2>1 DEF TypeOK, Runtime
    <3>3. StateAfter(t, runtime[t].ids \ {q}) \in Live \cup Ended \cup {"idle", "disconnected"}
      BY DEF StateAfter, Live
    <3>4. r \in Runtime /\ r.state = StateAfter(t, runtime[t].ids \ {q}) /\ r.ids = runtime[t].ids \ {q}
      <4>1. ASSUME NEW s \in Live \cup Ended \cup {"idle", "disconnected"}
            PROVE  LET e == [runtime[t] EXCEPT !.state = s, !.ids = @ \ {q}]
                   IN  e \in Runtime /\ e.state = s /\ e.ids = runtime[t].ids \ {q}
        BY <3>2 DEF Runtime
      <4> QED BY <3>3, <4>1
    <3>5. r.ids # {} => IsLive(r) /\ t \in hints'
      <4>1. runtime[t].ids # {} => runtime[t].state \in Live /\ t \in hints BY <2>1 DEF WaitingIsLive, IsLive
      <4>2. Live \cap Ended = {} /\ "running" \in Live /\ "waitingForInput" \in Live BY DEF Live, Ended
      <4>3. runtime[t].ids # {} =>
              StateAfter(t, runtime[t].ids \ {q}) \in {"waitingForInput", "running"}
        BY <4>1, <4>2 DEF StateAfter
      <4>4. r.ids # {} => runtime[t].ids # {} BY <3>4
      <4> HIDE DEF r, t
      <4> QED BY <3>4, <4>1, <4>2, <4>3, <4>4 DEF IsLive
    <3>6. r.state = "waitingForInput" => Blocking(r.ids) BY <3>4 DEF StateAfter, Ended
    <3>7. r.state = "justFinished" => t \in fading'
      <4>1. r.state = "justFinished" => runtime[t].state = "justFinished" BY <3>4 DEF StateAfter
      <4> QED BY <4>1, <2>1 DEF ShownStatesCanEnd, FinishFades
    <3>8. /\ hints' \subseteq Threads /\ fading' \subseteq Threads /\ busy' \subseteq Threads
          /\ troubles' \in Nat /\ UNCHANGED revived /\ r.ids \subseteq runtime[t].ids /\ r.ids \cap {q} = {}
          /\ answerable' \subseteq answerable
      BY <1>1, <3>4 DEF TypeOK
    <3> HIDE DEF t, r
    <3>9. /\ \A p \in {q} \cap cards : owner[p] = t
          /\ {q} \in SUBSET Requests
          /\ r.state = "waitingForInput" => Blocking(r.ids) \/ r.flag
          /\ r.ids \subseteq runtime[t].ids /\ r.ids \cap {q} = {}
          /\ hints \ {t} \subseteq hints' /\ fading \subseteq fading' \cup {t}
          /\ UNCHANGED <<parent, used, revived, link, chats, gone>> /\ turns' \in Nat
      BY <1>1, <3>4, <3>6, <3>8 DEF t, TypeOK
    <3> QED BY <2>1, <2>2, <3>1, <3>4, <3>5, <3>7, <3>8, <3>9, ShowsOne
  <2> QED BY <2>3, <2>4
<1> QED BY <1>2, <1>3
\* The requests stay, or the thread gives up what it waits for.
LEMMA ShowsKeepingCards ==
  ASSUME RegistryInvariant, NEW t \in Threads, NEW r \in Runtime, SetRuntime(t, r),
         r.state = "waitingForInput" => Blocking(r.ids) \/ r.flag,
         r.ids \in {runtime[t].ids, {}},
         r.ids # {} => IsLive(r) /\ t \in hints',
         hints \ {t} \subseteq hints', hints' \subseteq Threads,
         fading \subseteq fading' \cup {t}, r.state = "justFinished" => t \in fading', fading' \subseteq Threads,
         UNCHANGED <<cards, owner, answerable, asked, used, parent, revived, link, chats, gone>>,
         busy' \subseteq Threads, turns' \in Nat, troubles' \in Nat,
         link = "down" => ~IsLive(r)
  PROVE  RegistryInvariant'
<1>1. /\ Cleared({}) /\ {} \in SUBSET Requests
      /\ cards' \subseteq answerable' /\ answerable' \subseteq answerable
      /\ asked' \in [Requests -> Threads \cup {NoThread}]
  BY DEF Cleared, RegistryInvariant, TypeOK, ShownStatesCanEnd, WaitsOnAnswerable
<1>2. r.ids \subseteq runtime[t].ids /\ r.ids \cap {} = {} OBVIOUS
<1>3. \A q \in {} \cap cards : owner[q] = t OBVIOUS
<1> QED BY <1>1, <1>2, <1>3, ShowsOne

\* The end of a thread's activity.
LEMMA EndingStep ==
  ASSUME RegistryInvariant, NEW t \in Threads, NEW state \in Ended \cup {"idle"}, NEW flag \in BOOLEAN,
         Ending(t, state, flag),
         fading \subseteq fading' \cup {t}, state = "justFinished" => t \in fading', fading' \subseteq Threads,
         asked' \in [Requests -> Threads \cup {NoThread}], busy' \subseteq Threads,
         UNCHANGED <<answerable, parent, used, revived, link, chats, gone, turns, troubles>>
  PROVE  RegistryInvariant'
<1> DEFINE r == [state |-> state, turn |-> FALSE, ids |-> {}, flag |-> flag]
<1>1. /\ r \in Runtime /\ r.ids = {} /\ r.state = state /\ ~IsLive(r) /\ r.state # "waitingForInput"
      /\ SetRuntime(t, r) /\ hints' = hints \ {t}
  BY DEF Ending, Runtime, IsLive, Live, Ended
<1> HIDE DEF r
<1>2. /\ runtime[t].ids \in SUBSET Requests /\ Cleared(runtime[t].ids)
      /\ \A q \in runtime[t].ids \cap cards : owner[q] = t
  BY DEF RegistryInvariant, TypeOK, Runtime, OneOwner, Ending
<1>3. /\ cards' \subseteq answerable' /\ turns' \in Nat /\ troubles' \in Nat
      /\ hints \ {t} \subseteq hints' /\ hints' \subseteq Threads
      /\ answerable' \subseteq answerable
  BY <1>1, <1>2 DEF RegistryInvariant, TypeOK, ShownStatesCanEnd, WaitsOnAnswerable, Cleared
<1>4. r.ids \subseteq runtime[t].ids /\ r.ids \cap runtime[t].ids = {} BY <1>1
<1>5. UNCHANGED <<parent, used, revived, link, chats, gone>> OBVIOUS
<1> QED BY <1>1, <1>2, <1>3, <1>4, <1>5, ShowsOne

LEMMA RequestStep == ASSUME RegistryInvariant, NEW q \in Requests, Request(q) PROVE RegistryInvariant'
<1>1. CASE RespondPendingRequest(q)
  <2>1. /\ ResolveServerRequest(q) /\ link # "down" /\ answerable' = answerable \ {q}
        /\ UNCHANGED <<parent, chats, gone, hints, fading, used, busy, turns, link, counts>>
        /\ asked' \in [Requests -> Threads \cup {NoThread}]
    BY <1>1 DEF RespondPendingRequest, server, RegistryInvariant, TypeOK
  <2> QED BY <2>1, ResolveStep
<1>2. CASE ServerRequestResolved(q)
  <2>1. /\ ResolveServerRequest(q) /\ link # "down" /\ answerable' = answerable \ {q}
        /\ UNCHANGED <<parent, chats, gone, hints, fading, used, busy, turns, link, counts>>
        /\ asked' \in [Requests -> Threads \cup {NoThread}]
    BY <1>2 DEF ServerRequestResolved, RegistryInvariant, TypeOK
  <2> QED BY <2>1, ResolveStep
<1>3. CASE \E t \in Threads : HandlePendingRequest(q, t) BY <1>3, HandlePendingRequestStep
<1> QED BY <1>1, <1>2, <1>3 DEF Request

\* The App Server's news of subagents, and the list of a reconciliation, change
\* what is known of subagents alone.
LEMMA SubagentStep ==
  ASSUME RegistryInvariant, NEW t \in Threads, NEW c \in Subagents,
         ThreadStarted(c, t) \/ ItemUpserted(t, c) \/ RestoreSubagent(c, t)
  PROVE  RegistryInvariant'
<1> USE DEF RegistryInvariant
<1>1. c \in Threads /\ Outcomes \subseteq Ended BY RuntimeConstants DEF Threads, Ended
<1>2. /\ UNCHANGED <<runtime, known, awaits, chats, gone, requests, hints, fading, server, link, counts>>
      /\ link # "down"
  BY DEF ThreadStarted, ItemUpserted, RestoreSubagent
<1>3. agent' \in [Threads -> Agent] /\ parent' \in [Threads -> Threads \cup {NoThread}]
  <2>1. CASE ThreadStarted(c, t) BY <1>1, <2>1, UpdateSubagentTypes DEF ThreadStarted, TypeOK
  <2>2. CASE ItemUpserted(t, c)
    <3>1. parent' \in [Threads -> Threads \cup {NoThread}] BY <1>1, <2>2 DEF ItemUpserted, TypeOK
    <3>2. \/ UNCHANGED agent \/ UpdateSubagent(c, "running", "running")
          \/ \E s \in Outcomes : UpdateSubagent(c, s, "ended")
          \/ UpdateSubagent(c, "asRuntime", "running") \/ UpdateSubagent(c, "asRuntime", "ended")
      BY <2>2 DEF ItemUpserted
    <3>3. "running" \in Live BY DEF Live
    <3> QED BY <1>1, <3>1, <3>2, <3>3, UpdateSubagentTypes DEF TypeOK
  <2>3. CASE RestoreSubagent(c, t)
    <3>1. parent' = [parent EXCEPT ![c] = t] BY <2>3 DEF RestoreSubagent
    <3>2. UNCHANGED agent \/ UpdateSubagent(c, "running", "same") \/ UpdateSubagent(c, "idle", "same")
      BY <2>3 DEF RestoreSubagent
    <3>3. "running" \in Live BY DEF Live
    <3> QED BY <1>1, <3>1, <3>2, <3>3, UpdateSubagentTypes DEF TypeOK
  <2> QED BY <2>1, <2>2, <2>3
<1>4. cards \subseteq answerable' BY <1>2 DEF requests, ShownStatesCanEnd, WaitsOnAnswerable
<1> QED BY <1>2, <1>3, <1>4, ShowsNone DEF requests, server, counts, TypeOK

LEMMA TurnStartedStep == ASSUME RegistryInvariant, NEW t \in Threads, TurnStarted(t) PROVE RegistryInvariant'
<1> USE DEF RegistryInvariant
<1>1. /\ link # "down" /\ turns' = turns + 1 /\ busy' = busy \cup {t}
      /\ UNCHANGED <<parent, chats, gone, cards, owner, answerable, asked, used, link, troubles, revived>>
  BY DEF TurnStarted, requests, counts
<1>2. /\ busy' \subseteq Threads /\ turns' \in Nat /\ troubles' \in Nat /\ cards \subseteq answerable'
      /\ TypeOK
  BY <1>1 DEF TypeOK, ShownStatesCanEnd, WaitsOnAnswerable
<1>3. CASE Ignored(t)
  <2>1. UNCHANGED <<runtime, known, agent, awaits, hints, fading>> BY <1>3 DEF TurnStarted, shown
  <2> QED BY <1>1, <1>2, <2>1, ShowsNone DEF TypeOK
<1>4. CASE ~Ignored(t)
  <2> DEFINE r == [runtime[t] EXCEPT !.state = "running", !.turn = TRUE]
  <2>1. SetRuntime(t, r) /\ hints' = hints \cup {t} /\ fading' = fading \ {t} BY <1>4 DEF TurnStarted
  <2>2. r \in Runtime /\ r.ids = runtime[t].ids /\ r.state = "running" /\ IsLive(r)
    BY <1>2 DEF TypeOK, Runtime, IsLive, Live
  <2> HIDE DEF r
  <2>3. /\ hints \ {t} \subseteq hints' /\ hints' \subseteq Threads /\ t \in hints'
        /\ fading \subseteq fading' \cup {t} /\ fading' \subseteq Threads
    BY <1>2, <2>1 DEF TypeOK
  <2> QED BY <1>1, <1>2, <2>1, <2>2, <2>3, ShowsKeepingCards
<1> QED BY <1>3, <1>4
LEMMA TurnCompletedStep ==
  ASSUME RegistryInvariant, NEW t \in Threads, NEW status \in Outcomes, TurnCompleted(t, status)
  PROVE  RegistryInvariant'
<1> USE DEF RegistryInvariant
<1>1. /\ link # "down" /\ busy' \subseteq Threads /\ asked' \in [Requests -> Threads \cup {NoThread}]
      /\ UNCHANGED <<answerable, used, turns, parent, chats, gone, link, troubles, revived>>
  BY DEF TurnCompleted, Unasked, Unrelated, counts, TypeOK
<1>2. TypeOK /\ cards \subseteq answerable' BY <1>1 DEF ShownStatesCanEnd, WaitsOnAnswerable
<1>3. CASE Ignored(t)
  <2>1. UNCHANGED <<runtime, known, agent, awaits, cards, owner, hints, fading>>
    BY <1>3 DEF TurnCompleted, shown
  <2> QED BY <1>1, <1>2, <2>1, ShowsNone DEF TypeOK
<1>4. CASE ~Ignored(t)
  <2>1. /\ Ending(t, status, runtime[t].flag)
        /\ fading' = IF status = "justFinished" THEN fading \cup {t} ELSE fading
    BY <1>4 DEF TurnCompleted
  <2>2. status \in Ended \cup {"idle"} /\ runtime[t].flag \in BOOLEAN
    BY <1>2, RuntimeConstants DEF Ended, TypeOK, Runtime
  <2>3. /\ fading \subseteq fading' \cup {t} /\ fading' \subseteq Threads
        /\ status = "justFinished" => t \in fading'
    BY <1>2, <2>1 DEF TypeOK
  <2> QED BY <1>1, <2>1, <2>2, <2>3, EndingStep
<1> QED BY <1>3, <1>4

LEMMA StatusStep ==
  ASSUME RegistryInvariant, NEW t \in Threads,
         Inactive(t) \/ SystemError(t) \/ \E flag \in BOOLEAN : Active(t, flag)
  PROVE  RegistryInvariant'
<1> USE DEF RegistryInvariant
<1>1. TypeOK /\ runtime[t] \in Runtime BY DEF TypeOK
<1>2. CASE Inactive(t)
  <2> DEFINE state == IF runtime[t].state \in Ended THEN runtime[t].state ELSE "idle"
  <2>1. /\ Ending(t, state, FALSE) /\ state \in Ended \cup {"idle"}
        /\ UNCHANGED <<answerable, fading, asked, used, busy, turns, parent, chats, gone, link, troubles, revived>>
    BY <1>2 DEF Inactive, server, Unrelated, counts
  <2>2. state = "justFinished" => t \in fading' BY <2>1 DEF ShownStatesCanEnd, FinishFades
  <2>3. /\ fading \subseteq fading' \cup {t} /\ fading' \subseteq Threads /\ busy' \subseteq Threads
        /\ asked' \in [Requests -> Threads \cup {NoThread}] /\ FALSE \in BOOLEAN
    BY <1>1, <2>1 DEF TypeOK
  <2> HIDE DEF state
  <2> QED BY <2>1, <2>2, <2>3, EndingStep
<1>3. CASE SystemError(t)
  <2>1. /\ Ending(t, "failed", FALSE) /\ "failed" \in Ended \cup {"idle"}
        /\ UNCHANGED <<answerable, used, turns, parent, chats, gone, link, troubles, revived>>
    BY <1>3 DEF SystemError, Unrelated, counts, Ended
  <2>2. /\ fading \subseteq fading' \cup {t} /\ fading' \subseteq Threads /\ busy' \subseteq Threads
        /\ asked' \in [Requests -> Threads \cup {NoThread}] /\ FALSE \in BOOLEAN
        /\ "failed" # "justFinished"
    BY <1>1, <1>3 DEF TypeOK, SystemError, Unasked
  <2> QED BY <2>1, <2>2, EndingStep
<1>4. ASSUME NEW flag \in BOOLEAN, Active(t, flag) PROVE RegistryInvariant'
  <2> DEFINE state == IF Blocking(runtime[t].ids) \/ flag THEN "waitingForInput" ELSE "running"
             r == [runtime[t] EXCEPT !.state = state, !.flag = flag]
  <2>1. /\ SetRuntime(t, r) /\ hints' = hints \cup {t}
        /\ UNCHANGED <<cards, owner, answerable, fading, asked, used, busy, turns, parent, chats, gone, link, troubles, revived>>
    BY <1>4 DEF Active, requests, server, Unrelated, counts
  <2>2. state \in Live /\ (state = "waitingForInput" => Blocking(runtime[t].ids) \/ flag) BY DEF Live
  <2>3. /\ r \in Runtime /\ r.state = state /\ r.ids = runtime[t].ids /\ r.flag = flag
    <3>1. ASSUME NEW s \in Live
          PROVE  LET e == [runtime[t] EXCEPT !.state = s, !.flag = flag]
                 IN  e \in Runtime /\ e.state = s /\ e.ids = runtime[t].ids /\ e.flag = flag
      BY <1>1 DEF Runtime
    <3> HIDE DEF state
    <3> QED BY <2>2, <3>1
  <2>4. IsLive(r) /\ r.state # "justFinished" BY <2>2, <2>3 DEF IsLive, Live
  <2> HIDE DEF state, r
  <2>5. /\ hints \ {t} \subseteq hints' /\ hints' \subseteq Threads /\ t \in hints' /\ link # "down"
        /\ fading \subseteq fading' \cup {t} /\ fading' \subseteq Threads
        /\ busy' \subseteq Threads /\ turns' \in Nat /\ troubles' \in Nat
    BY <1>1, <1>4, <2>1 DEF TypeOK, Active
  <2> QED BY <2>1, <2>2, <2>3, <2>4, <2>5, ShowsKeepingCards
<1> QED BY <1>2, <1>3, <1>4

LEMMA EventStep == ASSUME RegistryInvariant, NEW t \in Threads, Event(t) PROVE RegistryInvariant'
BY SubagentStep, TurnStartedStep, TurnCompletedStep, StatusStep DEF Event

\* What the session service says of a thread.
LEMMA SetActiveTurnStep == ASSUME RegistryInvariant, NEW t \in Threads, SetActiveTurn(t) PROVE RegistryInvariant'
<1> USE DEF RegistryInvariant
<1> DEFINE r == [runtime[t] EXCEPT !.state = "running", !.turn = TRUE]
<1>1. /\ SetRuntime(t, r) /\ hints' = hints \cup {t} /\ link # "down"
      /\ UNCHANGED <<cards, owner, answerable, fading, asked, used, busy, turns, parent, chats, gone, link, troubles, revived>>
  BY DEF SetActiveTurn, requests, server, Unrelated, counts
<1>2. r \in Runtime /\ r.ids = runtime[t].ids /\ r.state = "running" /\ IsLive(r)
  BY DEF TypeOK, Runtime, IsLive, Live
<1> HIDE DEF r
<1>3. /\ hints \ {t} \subseteq hints' /\ hints' \subseteq Threads /\ t \in hints'
      /\ fading \subseteq fading' \cup {t} /\ fading' \subseteq Threads
      /\ busy' \subseteq Threads /\ turns' \in Nat /\ troubles' \in Nat
  BY <1>1 DEF TypeOK
<1> QED BY <1>1, <1>2, <1>3, ShowsKeepingCards

\* The thread gives up what it waits for and its Turn.
LEMMA GivenUp ==
  ASSUME NEW r \in Runtime, NEW s \in Ended \cup {"idle", "disconnected"}
  PROVE  LET e == [r EXCEPT !.state = s, !.turn = FALSE, !.ids = {}]
         IN  e \in Runtime /\ e.state = s /\ e.ids = {} /\ ~IsLive(e) /\ e.state # "waitingForInput"
BY DEF Runtime, IsLive, Live, Ended

LEMMA MarkOperationUncertainStep ==
  ASSUME RegistryInvariant, NEW t \in Threads, MarkOperationUncertain(t) PROVE RegistryInvariant'
<1> USE DEF RegistryInvariant
<1> DEFINE r == [runtime[t] EXCEPT !.state = "disconnected", !.turn = FALSE, !.ids = {}]
<1>1. /\ SetRuntime(t, r) /\ hints' = hints \ {t} /\ troubles' = troubles + 1
      /\ UNCHANGED <<cards, owner, answerable, fading, asked, used, busy, turns, parent, chats, gone, link, revived>>
  BY DEF MarkOperationUncertain, requests, server
<1>2. r \in Runtime /\ r.ids = {} /\ r.state = "disconnected" /\ ~IsLive(r) BY GivenUp DEF TypeOK
<1> HIDE DEF r
<1>3. /\ hints \ {t} \subseteq hints' /\ hints' \subseteq Threads
      /\ fading \subseteq fading' \cup {t} /\ fading' \subseteq Threads
      /\ busy' \subseteq Threads /\ turns' \in Nat /\ troubles' \in Nat
  BY <1>1 DEF TypeOK
<1> QED BY <1>1, <1>2, <1>3, ShowsKeepingCards

LEMMA ReconcileStep == ASSUME RegistryInvariant, NEW t \in Threads, Reconcile(t) PROVE RegistryInvariant'
<1> USE DEF RegistryInvariant
<1> DEFINE r(s) == [runtime[t] EXCEPT !.state = s, !.turn = FALSE, !.ids = {}]
<1>1. UNCHANGED <<cards, owner, answerable, asked, used, busy, turns, parent, chats, gone, link, troubles, revived>>
  BY DEF Reconcile, requests, server, Unrelated, counts
<1>2. PICK s \in Outcomes \cup {"idle", "disconnected"} :
          /\ SetRuntime(t, r(s)) /\ hints' \in {hints, hints \ {t}}
          /\ fading' = FadingAfter(t, s)
  <2>1. \/ SetRuntime(t, r("disconnected")) /\ fading' = fading \ {t} /\ UNCHANGED hints
        \/ /\ hints' = hints \ {t}
           /\ \E s \in Outcomes \cup {"idle"} : SetRuntime(t, r(s)) /\ fading' = FadingAfter(t, s)
    BY DEF Reconcile
  <2>2. fading' = fading \ {t} => fading' = FadingAfter(t, "disconnected") BY DEF FadingAfter
  <2> HIDE DEF r
  <2> QED BY <2>1, <2>2
<1>3. s \in Ended \cup {"idle", "disconnected"} BY RuntimeConstants DEF Ended
<1>4. r(s) \in Runtime /\ r(s).ids = {} /\ r(s).state = s /\ ~IsLive(r(s)) /\ s # "waitingForInput"
  BY <1>3, GivenUp DEF TypeOK
<1> HIDE DEF r
<1>5. /\ hints \ {t} \subseteq hints' /\ hints' \subseteq Threads
      /\ fading \subseteq fading' \cup {t} /\ fading' \subseteq Threads
      /\ s = "justFinished" => t \in fading'
      /\ busy' \subseteq Threads /\ turns' \in Nat /\ troubles' \in Nat
  BY <1>1, <1>2 DEF TypeOK, FadingAfter
<1> QED BY <1>1, <1>2, <1>4, <1>5, ShowsKeepingCards

\* A state that has been seen, or shown long enough.
LEMMA MarkViewedOrFade ==
  ASSUME RegistryInvariant, NEW t \in Threads, MarkViewed(t) \/ Fade(t) PROVE RegistryInvariant'
<1> USE DEF RegistryInvariant
<1> DEFINE r == [runtime[t] EXCEPT !.state = "idle"]
<1>1. /\ UNCHANGED <<cards, owner, answerable, hints, asked, used, busy, turns, parent, chats, gone, link, troubles, revived>>
      /\ fading \subseteq fading' \cup {t} /\ fading' \subseteq fading
  BY DEF MarkViewed, Fade, requests, server, Unrelated, counts
<1>2. TypeOK /\ runtime[t] \in Runtime /\ cards \subseteq answerable'
  BY <1>1 DEF TypeOK, ShownStatesCanEnd, WaitsOnAnswerable
<1>3. CASE runtime[t].state \in {"failed", "justFinished"} /\ SetRuntime(t, r)
  <2>1. r \in Runtime /\ r.state = "idle" /\ r.ids = runtime[t].ids /\ ~IsLive(r)
    BY <1>2 DEF Runtime, IsLive, Live
  <2>2. runtime[t].ids = {} BY <1>3 DEF WaitingIsLive, IsLive, Live
  <2> HIDE DEF r
  <2>3. /\ hints \ {t} \subseteq hints' /\ hints' \subseteq Threads /\ fading' \subseteq Threads
        /\ busy' \subseteq Threads /\ turns' \in Nat /\ troubles' \in Nat
    BY <1>1, <1>2 DEF TypeOK
  <2> QED BY <1>1, <1>3, <2>1, <2>2, <2>3, ShowsKeepingCards
<1>4. CASE Fade(t) /\ runtime[t].state # "justFinished"
  <2>1. UNCHANGED <<runtime, known, agent, awaits>> /\ fading' = fading \ {t} BY <1>4 DEF Fade, shown
  <2> QED BY <1>1, <1>2, <1>4, <2>1, ShowsNone DEF TypeOK
<1> QED BY <1>3, <1>4 DEF MarkViewed, Fade

LEMMA AwaitStep == ASSUME RegistryInvariant, NEW t \in Threads, Await(t) \/ AwaitTimeout(t) PROVE RegistryInvariant'
<1> USE DEF RegistryInvariant
<1>1. UNCHANGED <<runtime, known, agent, cards, owner, answerable, hints, fading, asked, used, busy, turns,
                  parent, chats, gone, link, troubles, revived>>
  BY DEF Await, AwaitTimeout, requests, server, Unrelated, counts
<1>2. TypeOK /\ cards \subseteq answerable' BY <1>1 DEF ShownStatesCanEnd, WaitsOnAnswerable
<1>3. /\ awaits' \in [Threads -> {"nothing", "end", "turn"}]
      /\ \A u \in Threads : awaits'[u] # "nothing" =>
            \/ awaits'[u] = awaits[u]
            \/ /\ ~Over(runtime[u]) /\ (awaits'[u] = "turn" => ~runtime[u].turn)
               /\ u \in Sessions \cup chats
  BY <1>2 DEF Await, AwaitTimeout, TypeOK
<1> QED BY <1>1, <1>2, <1>3, ShowsNone DEF TypeOK
LEMMA RestoreThreadStep == ASSUME RegistryInvariant, NEW t \in Threads, RestoreThread(t) PROVE RegistryInvariant'
<1>1. /\ UNCHANGED <<runtime, known, agent, awaits, parent, chats, cards, owner, answerable, hints, fading,
                    asked, used, busy, turns, link, troubles, revived>>
      /\ gone' = gone \ {t}
  BY DEF RestoreThread, shown, requests, server, counts
<1>2. TypeOK /\ cards \subseteq answerable' BY <1>1 DEF RegistryInvariant, ShownStatesCanEnd, WaitsOnAnswerable
<1> QED BY <1>1, <1>2, ShowsNone DEF TypeOK

LEMMA RegisterSideChatStep ==
  ASSUME RegistryInvariant, NEW t \in Threads, RegisterSideChat(t) PROVE RegistryInvariant'
<1> USE DEF RegistryInvariant
<1>1. /\ t \in SideChats \ (chats \cup gone) /\ link = "connected"
      /\ chats' = chats \cup {t} /\ known' = known \cup {t} /\ runtime' = [runtime EXCEPT ![t] = Default]
      /\ UNCHANGED <<agent, awaits, parent, gone, cards, owner, answerable, hints, fading,
                    asked, used, busy, turns, link, troubles, revived>>
  BY DEF RegisterSideChat, requests, server, counts
<1>2. /\ Default \in Runtime /\ Default.ids = {} /\ Default.state = "idle" /\ ~IsLive(Default)
      /\ runtime'[t] = Default /\ \A u \in Threads : u # t => runtime'[u] = runtime[u]
  BY <1>1, DefaultType DEF TypeOK
<1>3. awaits[t] = "nothing" BY <1>1, RuntimeConstants DEF AwaitsOwned
<1>4. WaitingIsLive' /\ OneOwner' /\ WaitsOnAnswerable'
  <2>1. /\ Cleared({}) /\ {} \in SUBSET Requests /\ cards' \subseteq answerable'
        /\ \A q \in {} \cap cards : owner[q] = t
        /\ Default.ids \subseteq runtime[t].ids /\ Default.ids \cap {} = {}
    BY <1>1, <1>2 DEF Cleared, TypeOK, ShownStatesCanEnd, WaitsOnAnswerable
  <2>2. UNCHANGED <<answerable, used, revived, hints>> BY <1>1
  <2> QED BY <1>1, <1>2, <2>1, <2>2, FewerRequests
<1>5. TypeOK' BY <1>1, <1>2 DEF TypeOK
<1>6. UnknownIsDefault' /\ AwaitsOwned' /\ GoneWaitRevived'
  BY <1>1, <1>2 DEF UnknownIsDefault, AwaitsOwned, GoneWaitRevived, TypeOK
<1>7. NobodyWaitsForNothing' BY <1>1, <1>2, <1>3 DEF NobodyWaitsForNothing
<1>8. WaitsForSomething' /\ NothingLiveWhileDown' /\ FinishFades'
  BY <1>1, <1>2 DEF ShownStatesCanEnd, WaitsForSomething, NothingLiveWhileDown, FinishFades
<1> QED BY <1>4, <1>5, <1>6, <1>7, <1>8 DEF ShownStatesCanEnd

LEMMA ServiceStep == ASSUME RegistryInvariant, NEW t \in Threads, Service(t) PROVE RegistryInvariant'
<1>1. CASE Remove(t) \/ RemoveLostSideChat(t)
  <2>1. t \in Sessions \cup chats /\ Removed(t) /\ UNCHANGED link BY <1>1 DEF Remove, RemoveLostSideChat
  <2>2. troubles' \in Nat BY <1>1 DEF Remove, RemoveLostSideChat, RegistryInvariant, TypeOK
  <2> QED BY <2>1, <2>2, RemovedStep
<1> QED
  BY <1>1, SetActiveTurnStep, MarkOperationUncertainStep, ReconcileStep, MarkViewedOrFade, AwaitStep,
    RestoreThreadStep, RegisterSideChatStep DEF Service

LEMMA ConnectionStep == ASSUME RegistryInvariant, Connection PROVE RegistryInvariant'
<1> USE DEF RegistryInvariant
<1>1. TypeOK /\ cards \subseteq answerable BY DEF ShownStatesCanEnd, WaitsOnAnswerable
<1>2. CASE Disconnect
  <2>1. /\ HandleDisconnected /\ answerable' = {} /\ used' = {} /\ busy' = {} /\ link' = "down"
        /\ asked' \in [Requests -> Threads \cup {NoThread}] /\ UNCHANGED turns /\ troubles' \in Nat
    BY <1>1, <1>2 DEF Disconnect, TypeOK
  <2> QED BY <2>1, HandleDisconnectedStep
<1>3. CASE FailedReconciliation
  <2>1. /\ HandleDisconnected /\ UNCHANGED <<answerable, used, turns>> /\ link' = "recovering"
        /\ asked' \in [Requests -> Threads \cup {NoThread}] /\ busy' \subseteq Threads /\ troubles' \in Nat
    BY <1>1, <1>3 DEF FailedReconciliation, TypeOK, server
  <2> QED BY <2>1, HandleDisconnectedStep
<1>4. CASE Reconnect \/ Reconciled
  <2>1. /\ UNCHANGED <<runtime, known, agent, awaits, parent, chats, gone, cards, owner, answerable, hints, fading,
                      asked, used, busy, turns, troubles, revived>>
        /\ link' \in {"connected", "recovering"}
    BY <1>4 DEF Reconnect, Reconciled, shown, requests, server, counts
  <2> QED BY <1>1, <2>1, ShowsNone DEF TypeOK
<1> QED BY <1>2, <1>3, <1>4 DEF Connection

LEMMA RegistryStuttering == ASSUME RegistryInvariant, UNCHANGED vars PROVE RegistryInvariant'
<1>1. /\ UNCHANGED <<runtime, known, agent, awaits, parent, chats, gone, cards, owner, answerable, hints, fading,
                    asked, used, busy, turns, link, troubles, revived>>
  BY DEF vars, shown, requests, server, counts
<1>2. TypeOK /\ cards \subseteq answerable' BY <1>1 DEF RegistryInvariant, ShownStatesCanEnd, WaitsOnAnswerable
<1> QED BY <1>1, <1>2, ShowsNone DEF TypeOK

----
(* Theorems. *)

\* The inductive invariant: whom a request belongs to, what a thread waits for,
\* and the states that are shown, all hold together of every reachable state.
THEOREM RegistryInductive == Spec => []RegistryInvariant
<1>1. Init => RegistryInvariant BY RegistryInit
<1>2. RegistryInvariant /\ [Next]_vars => RegistryInvariant'
  BY RequestStep, EventStep, ServiceStep, ConnectionStep, RegistryStuttering DEF Next
<1> QED BY <1>1, <1>2, PTL DEF Spec

\* Whatever order events, answers, removals and lost connections come in, a state
\* a browser is shown can end: a card that is waited for can be answered, a thread
\* that waits waits for something, nothing is live without a connection, and the
\* green tick has its timer.
THEOREM StatesCanEnd == Spec => []ShownStatesCanEnd
<1>1. RegistryInvariant => ShownStatesCanEnd BY DEF RegistryInvariant
<1> QED BY <1>1, RegistryInductive, PTL

\* No interrupt and no close of a side chat waits for the Turn, or for the end, of
\* a thread whose activity is over.
THEOREM NoVainWait == Spec => []NobodyWaitsForNothing
<1>1. RegistryInvariant => NobodyWaitsForNothing BY DEF RegistryInvariant
<1> QED BY <1>1, RegistryInductive, PTL

\* The registry gets to know a removed thread only by a new request of it.
LEMMA OnlyRequestsRevive ==
  ASSUME RegistryInvariant, [Next]_vars, NEW t \in gone, t \notin known, t \in known'
  PROVE  \E q \in cards' : q \notin cards /\ owner'[q] = t
<1> USE DEF RegistryInvariant
<1>1. t \in Threads /\ runtime[t] = Default /\ runtime[t].state = "idle"
  BY DefaultType DEF TypeOK, UnknownIsDefault
<1>2. ASSUME NEW u \in Threads, NEW r, SetRuntime(u, r) PROVE t = u BY <1>2 DEF SetRuntime
<1>3. ASSUME NEW q \in Requests, NEW u \in Threads, HandlePendingRequest(q, u)
      PROVE  \E p \in cards' : p \notin cards /\ owner'[p] = t
  <2>1. Visible(u) \in Threads BY VisibleType
  <2>2. /\ cards' = cards \cup {q} /\ owner' = [owner EXCEPT ![q] = Visible(u)] /\ q \notin used
        /\ known' = known \cup {Visible(u)}
    BY <1>3 DEF HandlePendingRequest, SetRuntime
  <2>3. q \notin cards BY <2>2 DEF OneOwner, ShownStatesCanEnd, WaitsOnAnswerable
  <2> QED BY <2>1, <2>2, <2>3 DEF TypeOK
<1>4. ASSUME NEW q \in Requests, ResolveServerRequest(q) PROVE FALSE
  <2>1. q \in cards /\ ~Ignored(owner[q]) BY <1>4 DEF ResolveServerRequest, shown
  <2>2. owner[q] \in Threads BY <2>1 DEF OneOwner, TypeOK
  <2> QED BY <1>2, <1>4, <2>1, <2>2 DEF ResolveServerRequest, Ignored
<1>5. ASSUME NEW u \in Threads, Event(u) PROVE FALSE
  <2>1. CASE \E c \in Subagents \ {u} : ThreadStarted(c, u) \/ ItemUpserted(u, c) \/ RestoreSubagent(c, u)
    BY <2>1 DEF ThreadStarted, ItemUpserted, RestoreSubagent
  <2>2. CASE TurnStarted(u) BY <1>2, <2>2 DEF TurnStarted, Ignored, shown
  <2>3. CASE \E status \in Outcomes : TurnCompleted(u, status)
    BY <1>2, <2>3 DEF TurnCompleted, Ignored, shown, Ending
  <2>4. CASE SystemError(u) \/ Inactive(u) \/ \E flag \in BOOLEAN : Active(u, flag)
    BY <1>2, <2>4 DEF SystemError, Inactive, Active, Ending
  <2> QED BY <1>5, <2>1, <2>2, <2>3, <2>4 DEF Event
<1>6. ASSUME NEW u \in Threads, Service(u) PROVE FALSE
  <2>1. CASE SetActiveTurn(u) \/ Reconcile(u) \/ MarkViewed(u) \/ Fade(u)
    BY <1>1, <1>2, <2>1 DEF SetActiveTurn, Reconcile, MarkViewed, Fade, shown
  <2>2. CASE MarkOperationUncertain(u)
    <3>1. u \notin gone BY <2>2 DEF MarkOperationUncertain, GoneWaitRevived
    <3> QED BY <1>2, <2>2, <3>1 DEF MarkOperationUncertain
  <2>3. CASE Await(u) \/ AwaitTimeout(u) \/ RestoreThread(u)
    BY <2>3 DEF Await, AwaitTimeout, RestoreThread, shown
  <2>4. CASE Remove(u) \/ RemoveLostSideChat(u) BY <2>4 DEF Remove, RemoveLostSideChat, Removed
  <2>5. CASE RegisterSideChat(u) BY <2>5 DEF RegisterSideChat
  <2> QED BY <1>6, <2>1, <2>2, <2>3, <2>4, <2>5 DEF Service
<1>7. ASSUME Connection PROVE FALSE
  BY <1>7 DEF Connection, Disconnect, Reconnect, Reconciled, FailedReconciliation, HandleDisconnected, shown
<1>8. ~UNCHANGED vars BY DEF vars, shown
<1> QED BY <1>3, <1>4, <1>5, <1>6, <1>7, <1>8 DEF Next, Request, RespondPendingRequest, ServerRequestResolved

\* A late notification brings no removed thread back: only a request that waits
\* for an answer does.
THEOREM LateNewsRevivesNothing == Spec => GoneStaysGone
<1>1. ASSUME RegistryInvariant, [Next]_vars
      PROVE  [\A t \in gone : t \notin known /\ t \in known'
                  => \E q \in cards' : q \notin cards /\ owner'[q] = t]_vars
  BY <1>1, OnlyRequestsRevive
<1> QED BY <1>1, RegistryInductive, PTL DEF Spec, GoneStaysGone

----
(* Stopping a Turn (Interrupts). *)

CONSTANTS TurnLimit, MaxPresses, MaxLosses
VARIABLES run, recorded, news, connected, state, active, announced, cached,
          stop, pressed, stopped, lied, named, lost

Stops == INSTANCE Interrupts WITH
    stored <- recorded, lines <- news, up <- connected, op <- stop,
    MaxTurns <- TurnLimit

\* A Turn that is over, or of which nobody could know yet.
Gone(t) == t = 0 \/ recorded[t] = "ended"
Met(t) == Gone(t) \/ t = run

Button == [turn : 0..TurnLimit, lost : Nat]
StopTypes ==
  /\ run \in 0..TurnLimit /\ active \in 0..TurnLimit /\ announced \in 0..TurnLimit
  /\ recorded \in [Stops!Turns -> Stops!Statuses] /\ cached \in [Stops!Turns -> Stops!Statuses]
  /\ connected \in BOOLEAN /\ state \in {"idle", "running", "finished", "disconnected"} /\ lost \in Nat
  /\ pressed \in Seq(Button)
  /\ stop \in [at : {"none", "reads", "read", "waits", "waited", "asks", "nothing", "reviews", "reviewed"},
               shown : Button, turn : 0..TurnLimit]
NewsLine == [kind : {"active", "started", "completed", "idle", "read", "answer"},
             turn : 0..TurnLimit, read : {<<>>} \cup [Stops!Turns -> Stops!Statuses]]
NewsTypes ==
  /\ news \in Seq(NewsLine)
  /\ \A i \in DOMAIN news :
      /\ news[i].kind = "read" => news[i].read \in [Stops!Turns -> Stops!Statuses]
      /\ news[i].kind \in {"active", "started", "completed", "answer"} => news[i].turn \in Stops!Turns

\* One Turn at a time, and none after its end.
OneTurn ==
  /\ run # 0 => recorded[run] # "ended"
  /\ \A t \in Stops!Turns : recorded[t] = "inProgress" => t = run

\* Nothing is told or shown of a Turn without a connection.
Now(button) == button.turn # 0 /\ button.lost = lost
SilentWhenDown ==
  /\ \A i \in DOMAIN pressed : pressed[i].lost <= lost
  /\ stop.shown.lost <= lost
  /\ ~connected =>
      /\ news = <<>> /\ state # "running"
      /\ \A i \in DOMAIN pressed : ~Now(pressed[i])
      /\ ~Now(stop.shown)

\* What the service knows of a Turn, and what is under way of it.
Knows(t) ==
  \/ t = announced \/ t = active \/ t = stop.shown.turn
  \/ \E i \in DOMAIN pressed : t = pressed[i].turn
  \/ t \in Stops!Turns /\ cached[t] = "inProgress"
Tells(l, t) == t = l.turn \/ (l.kind = "read" /\ t \in Stops!Turns /\ l.read[t] = "inProgress")
KnownAreMet ==
  \A t \in 0..TurnLimit : Knows(t) \/ (\E i \in DOMAIN news : Tells(news[i], t)) => Met(t)
\* When the end of a Turn is under way, all that comes before is of Turns that are over.
Ends == {"completed", "idle"}
EndsComeLast ==
  \A i \in DOMAIN news : news[i].kind \in Ends =>
      \A t \in 0..TurnLimit : Knows(t) \/ (\E j \in 1..i : Tells(news[j], t)) => Gone(t)

\* A Turn that was shown when the button was pressed still runs, or is over.
ShownAreRunning ==
  /\ state # "running" => \A i \in DOMAIN pressed : Now(pressed[i]) => Gone(pressed[i].turn)
  /\ state # "running" \/ stop.at = "nothing" => (Now(stop.shown) => Gone(stop.shown.turn))

\* The answer to a Review is awaited.
AnswersAreAwaited ==
  /\ \A i \in DOMAIN news : news[i].kind = "answer" => stop.at = "reviewed"
  /\ \A i, j \in DOMAIN news : news[i].kind = "answer" /\ news[j].kind = "answer" => i = j

\* The end of a Turn comes after all that says it is in progress, and before the
\* readings that have it.
SaysLive(l, t) == (l.kind \in {"started", "answer"} /\ l.turn = t) \/ (l.kind = "read" /\ l.read[t] = "inProgress")
SaysOver(l, t) == l.kind = "read" /\ l.read[t] = "ended"
Completes(l, t) == l.kind = "completed" /\ l.turn = t
EndsFollow ==
  \A t \in Stops!Turns :
      /\ connected /\ recorded[t] = "ended" =>
          cached[t] = "ended" \/ \E k \in DOMAIN news : Completes(news[k], t)
      /\ \A j \in DOMAIN news : SaysLive(news[j], t) /\ recorded[t] = "ended" =>
          \E k \in DOMAIN news : k > j /\ Completes(news[k], t)
      /\ \A i \in DOMAIN news : SaysOver(news[i], t) =>
          /\ recorded[t] = "ended"
          /\ cached[t] = "ended" \/ \E k \in DOMAIN news : k < i /\ Completes(news[k], t)
          /\ \A j \in DOMAIN news : j < i /\ SaysLive(news[j], t) =>
              \E k \in DOMAIN news : j < k /\ k < i /\ Completes(news[k], t)

\* The Turn the service would name is in progress for it.
NamesAreLive ==
  /\ active # 0 => cached[active] = "inProgress"
  /\ stop.at = "waited" /\ stop.turn # 0 => cached[stop.turn] = "inProgress"

StopSound ==
  /\ StopTypes /\ NewsTypes /\ OneTurn /\ SilentWhenDown /\ KnownAreMet /\ EndsComeLast
  /\ ShownAreRunning /\ AnswersAreAwaited /\ EndsFollow /\ NamesAreLive
StopInvariant == StopSound /\ lied = FALSE /\ named = {}

----
(* The lines under way. *)

\* The first line is taken: the others move up.
LEMMA NewsMoveUp ==
  ASSUME StopSound, news # <<>>, news' = Tail(news)
  PROVE  /\ Head(news) = news[1] /\ 1 \in DOMAIN news
         /\ Len(news') = Len(news) - 1 /\ DOMAIN news' = 1..(Len(news) - 1) /\ DOMAIN news = 1..Len(news)
         /\ Len(news) \in Nat /\ \A i \in DOMAIN news' : i + 1 \in DOMAIN news /\ news'[i] = news[i + 1]
         /\ NewsTypes'
<1>1. news \in Seq(NewsLine) BY DEF StopSound, NewsTypes
<1>2. /\ Len(news') = Len(news) - 1 /\ DOMAIN news' = 1..(Len(news) - 1) /\ DOMAIN news = 1..Len(news)
      /\ Len(news) \in Nat /\ \A i \in DOMAIN news' : i + 1 \in DOMAIN news /\ news'[i] = news[i + 1]
      /\ news' \in Seq(NewsLine) /\ Head(news) = news[1] /\ 1 \in DOMAIN news
  BY <1>1
<1>3. NewsTypes' BY <1>2 DEF StopSound, NewsTypes, NewsLine, Stops!Turns, Stops!Statuses
<1> QED BY <1>2, <1>3

\* Lines are added: the others stay where they are.
LEMMA NewsAreAdded ==
  ASSUME StopSound, NEW said \in Seq(NewsLine), news' = news \o said
  PROVE  /\ Len(news) \in Nat /\ Len(said) \in Nat
         /\ DOMAIN news = 1..Len(news) /\ DOMAIN said = 1..Len(said) /\ DOMAIN news' = 1..(Len(news) + Len(said))
         /\ \A i \in DOMAIN news : i \in DOMAIN news' /\ news'[i] = news[i]
         /\ \A i \in DOMAIN news' : i \notin DOMAIN news =>
              i - Len(news) \in DOMAIN said /\ news'[i] = said[i - Len(news)]
         /\ \A k \in DOMAIN said : Len(news) + k \in DOMAIN news' /\ news'[Len(news) + k] = said[k]
         /\ news' \in Seq(NewsLine)
<1>1. news \in Seq(NewsLine) BY DEF StopSound, NewsTypes
<1> HIDE DEF NewsLine
<1> QED BY <1>1

----
(* What the service knows of Turns. *)

LEMMA KnowledgeStays ==
  ASSUME StopSound, UNCHANGED <<run, recorded, news>>, \A t \in 0..TurnLimit : Knows(t)' => Knows(t)
  PROVE  KnownAreMet' /\ EndsComeLast'
<1>1. \A t : (Gone(t)' <=> Gone(t)) /\ (Met(t)' <=> Met(t)) BY DEF Gone, Met
<1>2. KnownAreMet' BY <1>1 DEF StopSound, KnownAreMet, Tells
<1>3. EndsComeLast' BY <1>1 DEF StopSound, EndsComeLast, Tells
<1> QED BY <1>2, <1>3

LEMMA KnowledgeIsTaken ==
  ASSUME StopSound, UNCHANGED <<run, recorded>>, news # <<>>, news' = Tail(news),
         \A t \in 0..TurnLimit : Knows(t)' => t = 0 \/ Knows(t) \/ Tells(news[1], t)
  PROVE  KnownAreMet' /\ EndsComeLast'
<1>1. \A t : (Gone(t)' <=> Gone(t)) /\ (Met(t)' <=> Met(t)) BY DEF Gone, Met
<1>2. /\ 1 \in DOMAIN news /\ Len(news) \in Nat
      /\ DOMAIN news' = 1..(Len(news) - 1) /\ DOMAIN news = 1..Len(news)
      /\ \A i \in DOMAIN news' : i + 1 \in DOMAIN news /\ news'[i] = news[i + 1]
  BY NewsMoveUp
<1>3. ASSUME NEW t \in 0..TurnLimit, NEW i \in DOMAIN news', Tells(news'[i], t) PROVE Tells(news[i + 1], t)
  BY <1>2, <1>3
<1>4. KnownAreMet'
  <2>1. \A t \in 0..TurnLimit : Knows(t) \/ (\E i \in DOMAIN news : Tells(news[i], t)) => Met(t)
    BY DEF StopSound, KnownAreMet
  <2>2. ASSUME NEW t \in 0..TurnLimit, Knows(t)' \/ \E i \in DOMAIN news' : Tells(news'[i], t) PROVE Met(t)
    BY <1>2, <1>3, <2>1, <2>2 DEF Met, Gone
  <2> QED BY <1>1, <2>2 DEF KnownAreMet, Tells
<1>5. EndsComeLast'
  <2>1. \A i \in DOMAIN news : news[i].kind \in Ends =>
            \A t \in 0..TurnLimit : Knows(t) \/ (\E j \in 1..i : Tells(news[j], t)) => Gone(t)
    BY DEF StopSound, EndsComeLast
  <2>2. ASSUME NEW i \in DOMAIN news', news'[i].kind \in Ends, NEW t \in 0..TurnLimit,
               Knows(t)' \/ \E j \in 1..i : Tells(news'[j], t)
        PROVE  Gone(t)
    <3>1. i + 1 \in DOMAIN news /\ news[i + 1].kind \in Ends /\ i \in Nat /\ i >= 1 BY <1>2, <2>2
    <3>2. t = 0 \/ Knows(t) \/ \E j \in 1..(i + 1) : Tells(news[j], t)
      <4>1. CASE Knows(t)' BY <4>1, <3>1
      <4>2. CASE \E j \in 1..i : Tells(news'[j], t)
        <5>1. PICK j \in 1..i : Tells(news'[j], t) BY <4>2
        <5>2. j \in DOMAIN news' /\ j + 1 \in 1..(i + 1) BY <5>1, <3>1, <1>2
        <5> QED BY <5>1, <5>2, <1>3
      <4> QED BY <2>2, <4>1, <4>2
    <3> QED BY <3>1, <3>2, <2>1 DEF Gone
  <2> QED BY <1>1, <2>2 DEF EndsComeLast, Tells
<1> QED BY <1>4, <1>5

LEMMA KnowledgeIsAdded ==
  ASSUME StopSound, NEW said \in Seq(NewsLine), news' \in {news, news \o said},
         UNCHANGED <<announced, active, pressed, cached>>, stop'.shown.turn = stop.shown.turn,
         \A t \in 0..TurnLimit : (Gone(t) => Gone(t)') /\ (Met(t) => Met(t)'),
         \A k \in DOMAIN said, t \in 0..TurnLimit : Tells(said[k], t) => Met(t)',
         (\E k \in DOMAIN said : said[k].kind \in Ends) => \A t \in 0..TurnLimit : Met(t)' => Gone(t)'
  PROVE  KnownAreMet' /\ EndsComeLast'
<1>1. \A t : Knows(t)' <=> Knows(t) BY DEF Knows, Stops!Turns
<1>2. CASE news' = news
  <2>1. KnownAreMet' BY <1>1, <1>2 DEF StopSound, KnownAreMet, Tells
  <2>2. EndsComeLast' BY <1>1, <1>2 DEF StopSound, EndsComeLast, Tells
  <2> QED BY <2>1, <2>2
<1>3. CASE news' = news \o said
  <2>1. /\ Len(news) \in Nat /\ DOMAIN news = 1..Len(news) /\ DOMAIN news' = 1..(Len(news) + Len(said))
        /\ Len(said) \in Nat
        /\ \A i \in DOMAIN news : i \in DOMAIN news' /\ news'[i] = news[i]
        /\ \A i \in DOMAIN news' : i \notin DOMAIN news =>
              i - Len(news) \in DOMAIN said /\ news'[i] = said[i - Len(news)]
    BY <1>3, NewsAreAdded
  <2>2. \A t \in 0..TurnLimit : Knows(t) \/ (\E i \in DOMAIN news : Tells(news[i], t)) => Met(t)
    BY DEF StopSound, KnownAreMet
  <2>3. ASSUME NEW t \in 0..TurnLimit, Knows(t)' \/ \E i \in DOMAIN news' : Tells(news'[i], t) PROVE Met(t)'
    BY <1>1, <2>1, <2>2, <2>3
  <2>4. ASSUME NEW i \in DOMAIN news', news'[i].kind \in Ends, NEW t \in 0..TurnLimit,
               Knows(t)' \/ \E j \in 1..i : Tells(news'[j], t)
        PROVE  Gone(t)'
    <3>1. CASE i \in DOMAIN news
      <4>1. Knows(t) \/ \E j \in 1..i : Tells(news[j], t) BY <2>4, <1>1, <2>1, <3>1
      <4>2. Gone(t) BY <4>1, <3>1, <2>1, <2>4 DEF StopSound, EndsComeLast
      <4> QED BY <4>2
    <3>2. CASE i \notin DOMAIN news
      <4>1. \E k \in DOMAIN said : said[k].kind \in Ends BY <2>1, <2>4, <3>2
      <4>2. \A j \in 1..i : j \in DOMAIN news' BY <2>1
      <4>3. Met(t)' BY <2>3, <2>4, <4>2
      <4> QED BY <4>1, <4>3
    <3> QED BY <3>1, <3>2
  <2>5. KnownAreMet' BY <2>3 DEF KnownAreMet, Tells
  <2>6. EndsComeLast' BY <2>4 DEF EndsComeLast, Tells
  <2> QED BY <2>5, <2>6
<1> QED BY <1>2, <1>3

----
(* The ends of Turns. *)

LEMMA EndsAreKept ==
  ASSUME StopSound, UNCHANGED <<news, recorded, cached>>, connected' => connected
  PROVE  EndsFollow'
BY DEF StopSound, EndsFollow, Completes, SaysLive, SaysOver, Stops!Turns

LEMMA EndsAreTaken ==
  ASSUME StopSound, UNCHANGED <<recorded, connected>>, news # <<>>, news' = Tail(news),
         \A t \in Stops!Turns : cached[t] = "ended" /\ ~SaysLive(news[1], t) => cached'[t] = "ended",
         \A t \in Stops!Turns : Completes(news[1], t) => cached'[t] = "ended"
  PROVE  EndsFollow'
<1>1. /\ 1 \in DOMAIN news /\ Len(news) \in Nat
      /\ DOMAIN news' = 1..(Len(news) - 1) /\ DOMAIN news = 1..Len(news)
      /\ \A i \in DOMAIN news' : i + 1 \in DOMAIN news /\ news'[i] = news[i + 1]
  BY NewsMoveUp
<1>2. \A k \in DOMAIN news : k > 1 => k - 1 \in DOMAIN news' /\ news'[k - 1] = news[k] /\ (k - 1) + 1 = k
  BY <1>1
<1>3. ASSUME NEW t \in Stops!Turns
      PROVE  /\ connected /\ recorded[t] = "ended" => cached'[t] = "ended" \/ \E k \in DOMAIN news' : Completes(news'[k], t)
             /\ \A j \in DOMAIN news' : SaysLive(news'[j], t) /\ recorded[t] = "ended" =>
                    \E k \in DOMAIN news' : k > j /\ Completes(news'[k], t)
             /\ \A i \in DOMAIN news' : SaysOver(news'[i], t) =>
                    /\ recorded[t] = "ended"
                    /\ cached'[t] = "ended" \/ \E k \in DOMAIN news' : k < i /\ Completes(news'[k], t)
                    /\ \A j \in DOMAIN news' : j < i /\ SaysLive(news'[j], t) =>
                        \E k \in DOMAIN news' : j < k /\ k < i /\ Completes(news'[k], t)
  <2>1. /\ connected /\ recorded[t] = "ended" => cached[t] = "ended" \/ \E k \in DOMAIN news : Completes(news[k], t)
        /\ \A j \in DOMAIN news : SaysLive(news[j], t) /\ recorded[t] = "ended" =>
               \E k \in DOMAIN news : k > j /\ Completes(news[k], t)
        /\ \A i \in DOMAIN news : SaysOver(news[i], t) =>
               /\ recorded[t] = "ended"
               /\ cached[t] = "ended" \/ \E k \in DOMAIN news : k < i /\ Completes(news[k], t)
               /\ \A j \in DOMAIN news : j < i /\ SaysLive(news[j], t) =>
                   \E k \in DOMAIN news : j < k /\ k < i /\ Completes(news[k], t)
    BY DEF StopSound, EndsFollow
  <2>2. ASSUME connected, recorded[t] = "ended"
        PROVE  cached'[t] = "ended" \/ \E k \in DOMAIN news' : Completes(news'[k], t)
    <3>1. CASE \E k \in DOMAIN news : k > 1 /\ Completes(news[k], t) BY <3>1, <1>2
    <3>2. CASE ~\E k \in DOMAIN news : k > 1 /\ Completes(news[k], t)
      <4>1. ~SaysLive(news[1], t) BY <3>2, <2>1, <2>2, <1>1
      <4>2. cached[t] = "ended" \/ Completes(news[1], t) BY <3>2, <2>1, <2>2, <1>1
      <4> QED BY <4>1, <4>2
    <3> QED BY <3>1, <3>2
  <2>3. ASSUME NEW j \in DOMAIN news', SaysLive(news'[j], t), recorded[t] = "ended"
        PROVE  \E k \in DOMAIN news' : k > j /\ Completes(news'[k], t)
    <3>1. PICK k \in DOMAIN news : k > j + 1 /\ Completes(news[k], t) BY <2>3, <2>1, <1>1
    <3>2. k - 1 \in DOMAIN news' /\ k - 1 > j /\ Completes(news'[k - 1], t) BY <3>1, <1>1, <1>2
    <3> QED BY <3>2
  <2>4. ASSUME NEW i \in DOMAIN news', SaysOver(news'[i], t)
        PROVE  /\ recorded[t] = "ended"
               /\ cached'[t] = "ended" \/ \E k \in DOMAIN news' : k < i /\ Completes(news'[k], t)
               /\ \A j \in DOMAIN news' : j < i /\ SaysLive(news'[j], t) =>
                   \E k \in DOMAIN news' : j < k /\ k < i /\ Completes(news'[k], t)
    <3>1. i + 1 \in DOMAIN news /\ SaysOver(news[i + 1], t) /\ i \in Nat /\ i >= 1 BY <2>4, <1>1
    <3>2. /\ recorded[t] = "ended"
          /\ cached[t] = "ended" \/ \E k \in DOMAIN news : k < i + 1 /\ Completes(news[k], t)
          /\ \A j \in DOMAIN news : j < i + 1 /\ SaysLive(news[j], t) =>
              \E k \in DOMAIN news : j < k /\ k < i + 1 /\ Completes(news[k], t)
      BY <3>1, <2>1
    <3>3. cached'[t] = "ended" \/ \E k \in DOMAIN news' : k < i /\ Completes(news'[k], t)
      <4>1. CASE \E k \in DOMAIN news : k > 1 /\ k < i + 1 /\ Completes(news[k], t)
        <5>1. PICK k \in DOMAIN news : k > 1 /\ k < i + 1 /\ Completes(news[k], t) BY <4>1
        <5>2. k - 1 \in DOMAIN news' /\ k - 1 < i /\ Completes(news'[k - 1], t) BY <5>1, <1>1, <1>2
        <5> QED BY <5>2
      <4>2. CASE ~\E k \in DOMAIN news : k > 1 /\ k < i + 1 /\ Completes(news[k], t)
        <5>1. ~SaysLive(news[1], t) BY <4>2, <3>1, <3>2, <1>1
        <5>2. cached[t] = "ended" \/ Completes(news[1], t) BY <4>2, <3>2, <1>1
        <5> QED BY <5>1, <5>2
      <4> QED BY <4>1, <4>2
    <3>4. ASSUME NEW j \in DOMAIN news', j < i, SaysLive(news'[j], t)
          PROVE  \E k \in DOMAIN news' : j < k /\ k < i /\ Completes(news'[k], t)
      <4>1. PICK k \in DOMAIN news : j + 1 < k /\ k < i + 1 /\ Completes(news[k], t) BY <3>4, <3>2, <1>1
      <4>2. k - 1 \in DOMAIN news' /\ j < k - 1 /\ k - 1 < i /\ Completes(news'[k - 1], t) BY <4>1, <1>1, <1>2
      <4> QED BY <4>2
    <3> QED BY <3>2, <3>3, <3>4
  <2> QED BY <2>2, <2>3, <2>4
<1> QED BY <1>3 DEF EndsFollow, Completes, SaysLive, SaysOver, Stops!Turns

LEMMA EndsAreAdded ==
  ASSUME StopSound, connected, UNCHANGED <<cached, connected>>,
         NEW said \in Seq(NewsLine), news' = news \o said,
         \A t \in Stops!Turns : recorded[t] = "ended" => recorded'[t] = "ended",
         \A t \in Stops!Turns : recorded'[t] = "ended" /\ recorded[t] # "ended" =>
              \E k \in DOMAIN said : Completes(said[k], t),
         \A t \in Stops!Turns, k \in DOMAIN said :
              /\ SaysLive(said[k], t) => recorded'[t] # "ended"
              /\ SaysOver(said[k], t) => recorded[t] = "ended"
  PROVE  EndsFollow'
<1>1. /\ Len(news) \in Nat /\ Len(said) \in Nat
      /\ DOMAIN news = 1..Len(news) /\ DOMAIN said = 1..Len(said) /\ DOMAIN news' = 1..(Len(news) + Len(said))
      /\ \A i \in DOMAIN news : i \in DOMAIN news' /\ news'[i] = news[i]
      /\ \A i \in DOMAIN news' : i \notin DOMAIN news =>
           i - Len(news) \in DOMAIN said /\ news'[i] = said[i - Len(news)]
      /\ \A k \in DOMAIN said : Len(news) + k \in DOMAIN news' /\ news'[Len(news) + k] = said[k]
  BY NewsAreAdded
<1>2. ASSUME NEW t \in Stops!Turns
      PROVE  /\ recorded'[t] = "ended" => cached[t] = "ended" \/ \E k \in DOMAIN news' : Completes(news'[k], t)
             /\ \A j \in DOMAIN news' : SaysLive(news'[j], t) /\ recorded'[t] = "ended" =>
                    \E k \in DOMAIN news' : k > j /\ Completes(news'[k], t)
             /\ \A i \in DOMAIN news' : SaysOver(news'[i], t) =>
                    /\ recorded'[t] = "ended"
                    /\ cached[t] = "ended" \/ \E k \in DOMAIN news' : k < i /\ Completes(news'[k], t)
                    /\ \A j \in DOMAIN news' : j < i /\ SaysLive(news'[j], t) =>
                        \E k \in DOMAIN news' : j < k /\ k < i /\ Completes(news'[k], t)
  <2>1. /\ recorded[t] = "ended" => cached[t] = "ended" \/ \E k \in DOMAIN news : Completes(news[k], t)
        /\ \A j \in DOMAIN news : SaysLive(news[j], t) /\ recorded[t] = "ended" =>
               \E k \in DOMAIN news : k > j /\ Completes(news[k], t)
        /\ \A i \in DOMAIN news : SaysOver(news[i], t) =>
               /\ recorded[t] = "ended"
               /\ cached[t] = "ended" \/ \E k \in DOMAIN news : k < i /\ Completes(news[k], t)
               /\ \A j \in DOMAIN news : j < i /\ SaysLive(news[j], t) =>
                   \E k \in DOMAIN news : j < k /\ k < i /\ Completes(news[k], t)
    BY DEF StopSound, EndsFollow
  <2>2. ASSUME recorded'[t] = "ended", recorded[t] # "ended"
        PROVE  \E k \in DOMAIN news' : k > Len(news) /\ Completes(news'[k], t)
    <3>1. PICK k \in DOMAIN said : Completes(said[k], t) BY <2>2
    <3>2. Len(news) + k \in DOMAIN news' /\ Len(news) + k > Len(news) /\ Completes(news'[Len(news) + k], t)
      BY <3>1, <1>1
    <3> QED BY <3>2
  <2>3. recorded'[t] = "ended" => cached[t] = "ended" \/ \E k \in DOMAIN news' : Completes(news'[k], t)
    BY <2>1, <2>2, <1>1
  <2>4. ASSUME NEW j \in DOMAIN news', SaysLive(news'[j], t), recorded'[t] = "ended"
        PROVE  j \in DOMAIN news /\ \E k \in DOMAIN news' : k > j /\ Completes(news'[k], t)
    <3>1. j \in DOMAIN news /\ j <= Len(news) /\ SaysLive(news[j], t) BY <2>4, <1>1
    <3>2. CASE recorded[t] = "ended"
      <4>1. PICK k \in DOMAIN news : k > j /\ Completes(news[k], t) BY <3>1, <3>2, <2>1
      <4> QED BY <3>1, <4>1, <1>1
    <3>3. CASE recorded[t] # "ended"
      <4>1. PICK k \in DOMAIN news' : k > Len(news) /\ Completes(news'[k], t) BY <3>3, <2>2, <2>4
      <4> QED BY <3>1, <4>1, <1>1
    <3> QED BY <3>2, <3>3
  <2>5. ASSUME NEW i \in DOMAIN news', SaysOver(news'[i], t)
        PROVE  /\ recorded'[t] = "ended"
               /\ cached[t] = "ended" \/ \E k \in DOMAIN news' : k < i /\ Completes(news'[k], t)
               /\ \A j \in DOMAIN news' : j < i /\ SaysLive(news'[j], t) =>
                   \E k \in DOMAIN news' : j < k /\ k < i /\ Completes(news'[k], t)
    <3>1. CASE i \in DOMAIN news
      <4>1. SaysOver(news[i], t) BY <2>5, <3>1, <1>1
      <4>2. recorded'[t] = "ended" /\ (cached[t] = "ended" \/ \E k \in DOMAIN news' : k < i /\ Completes(news'[k], t))
        BY <4>1, <3>1, <2>1, <1>1
      <4>3. ASSUME NEW j \in DOMAIN news', j < i, SaysLive(news'[j], t)
            PROVE  \E k \in DOMAIN news' : j < k /\ k < i /\ Completes(news'[k], t)
        <5>1. j \in DOMAIN news /\ SaysLive(news[j], t) BY <4>3, <3>1, <1>1
        <5>2. PICK k \in DOMAIN news : j < k /\ k < i /\ Completes(news[k], t) BY <5>1, <4>1, <4>3, <3>1, <2>1
        <5> QED BY <5>2, <1>1
      <4> QED BY <4>2, <4>3
    <3>2. CASE i \notin DOMAIN news
      <4>1. recorded[t] = "ended" /\ recorded'[t] = "ended" /\ i > Len(news) BY <3>2, <2>5, <1>1
      <4>2. cached[t] = "ended" \/ \E k \in DOMAIN news' : k < i /\ Completes(news'[k], t) BY <4>1, <2>1, <1>1
      <4>3. ASSUME NEW j \in DOMAIN news', j < i, SaysLive(news'[j], t)
            PROVE  \E k \in DOMAIN news' : j < k /\ k < i /\ Completes(news'[k], t)
        <5>1. j \in DOMAIN news /\ SaysLive(news[j], t) BY <4>1, <4>3, <2>4, <1>1
        <5>2. PICK k \in DOMAIN news : k > j /\ Completes(news[k], t) BY <5>1, <4>1, <2>1
        <5> QED BY <5>1, <5>2, <4>1, <1>1
      <4> QED BY <4>1, <4>2, <4>3
    <3> QED BY <3>1, <3>2
  <2> QED BY <2>3, <2>4, <2>5
<1> QED BY <1>2 DEF EndsFollow, Completes, SaysLive, SaysOver, Stops!Turns

----
(* The operations. *)

StopRecord == [at : {"none", "reads", "read", "waits", "waited", "asks", "nothing", "reviews", "reviewed"},
               shown : Button, turn : 0..TurnLimit]

\* The buttons that may be pressed or acted on next.
Held(b) ==
  \/ b = stop.shown \/ b = [turn |-> 0, lost |-> 0]
  \/ \E i \in DOMAIN pressed : b = pressed[i]
  \/ state = "running" /\ b = [turn |-> announced, lost |-> lost]

LEMMA OperationMoves ==
  ASSUME StopSound, UNCHANGED <<run, recorded, news, connected, state, active, announced, cached, lost>>,
         stop' \in StopRecord, pressed' \in Seq(Button),
         Held(stop'.shown), \A i \in DOMAIN pressed' : Held(pressed'[i]),
         stop.at # "reviewed", stop'.at # "reviewed",
         stop'.at = "nothing" => state # "running",
         stop'.at = "waited" => stop'.turn \in {0, active} \/ (stop.at = "waited" /\ stop'.turn = stop.turn)
  PROVE  StopSound'
<1> USE DEF StopSound
<1>1. StopTypes' BY DEF StopTypes, StopRecord, Button, Stops!Turns, Stops!Statuses
<1>2. NewsTypes' /\ OneTurn' BY DEF NewsTypes, NewsLine, OneTurn, Stops!Turns, Stops!Statuses
<1>3. stop.shown \in Button /\ \A i \in DOMAIN pressed : pressed[i] \in Button BY DEF StopTypes
<1>4. ASSUME NEW b, Held(b)
      PROVE  /\ b.lost <= lost /\ (~connected => ~Now(b)) /\ (state # "running" => (Now(b) => Gone(b.turn)))
             /\ b.turn \in 0..TurnLimit => (b.turn = 0 \/ Knows(b.turn))
  <2>1. CASE b = [turn |-> 0, lost |-> 0] BY <2>1 DEF Now, StopTypes
  <2>2. CASE b = stop.shown \/ \E i \in DOMAIN pressed : b = pressed[i]
    <3>1. b.lost <= lost /\ (~connected => ~Now(b)) BY <2>2 DEF SilentWhenDown
    <3>2. state # "running" => (Now(b) => Gone(b.turn)) BY <2>2 DEF ShownAreRunning
    <3>3. Knows(b.turn) BY <2>2 DEF Knows
    <3> QED BY <3>1, <3>2, <3>3
  <2>3. CASE state = "running" /\ b = [turn |-> announced, lost |-> lost]
    <3>1. b.lost <= lost /\ b.turn = announced /\ connected BY <2>3 DEF StopTypes, SilentWhenDown
    <3> QED BY <2>3, <3>1 DEF Knows
  <2> QED BY <1>4, <2>1, <2>2, <2>3 DEF Held
<1>5. SilentWhenDown'
  <2>1. \A b : Now(b)' <=> Now(b) BY DEF Now
  <2> QED BY <1>4, <2>1 DEF SilentWhenDown
<1>6. ShownAreRunning'
  <2>1. \A b : (Now(b)' <=> Now(b)) /\ (Gone(b.turn)' <=> Gone(b.turn)) BY DEF Now, Gone
  <2> QED BY <1>4, <2>1 DEF ShownAreRunning
<1>7. ASSUME NEW t \in 0..TurnLimit, Knows(t)' PROVE t = 0 \/ Knows(t) BY <1>4, <1>7 DEF Knows, Stops!Turns
<1>8. KnownAreMet' /\ EndsComeLast'
  <2>1. \A t : (Gone(t)' <=> Gone(t)) /\ (Met(t)' <=> Met(t)) BY DEF Gone, Met
  <2>2. Gone(0) /\ Met(0) BY DEF Gone, Met
  <2>3. KnownAreMet' BY <1>7, <2>1, <2>2 DEF KnownAreMet, Tells
  <2>4. EndsComeLast' BY <1>7, <2>1, <2>2 DEF EndsComeLast, Tells
  <2> QED BY <2>3, <2>4
<1>9. AnswersAreAwaited' BY DEF AnswersAreAwaited
<1>10. EndsFollow' BY EndsAreKept
<1>11. NamesAreLive' BY DEF NamesAreLive
<1> QED BY <1>1, <1>2, <1>5, <1>6, <1>8, <1>9, <1>10, <1>11 DEF StopSound

LEMMA ButtonTypes ==
  ASSUME StopTypes
  PROVE  stop.shown \in Button /\ stop.shown.turn \in 0..TurnLimit
         /\ \A i \in DOMAIN pressed : pressed[i] \in Button /\ pressed[i].turn \in 0..TurnLimit
<1>1. stop.shown \in Button /\ pressed \in Seq(Button) BY DEF StopTypes
<1>2. \A i \in DOMAIN pressed : pressed[i] \in Button BY <1>1
<1> QED BY <1>1, <1>2 DEF Button

\* The App Server goes on and says so, if there is a connection.
LEMMA ServerSpeaks ==
  ASSUME StopSound, NEW said \in Seq(NewsLine), news' = IF connected THEN news \o said ELSE news,
         UNCHANGED <<connected, state, active, announced, cached, pressed, lost, stopped>>,
         run' \in 0..TurnLimit, recorded' \in [Stops!Turns -> Stops!Statuses], OneTurn',
         stop' \in StopRecord, stop'.shown = stop.shown, stop'.at \in {"waited", "nothing"} => stop' = stop,
         \A k \in DOMAIN said :
              /\ said[k].kind = "read" => said[k].read \in [Stops!Turns -> Stops!Statuses]
              /\ said[k].kind \in {"active", "started", "completed", "answer"} => said[k].turn \in Stops!Turns
              /\ said[k].kind = "answer" => stop'.at = "reviewed" /\ stop.at # "reviewed" /\ k = 2,
         stop.at = "reviewed" => stop'.at = "reviewed",
         \A t \in 0..TurnLimit : (Gone(t) => Gone(t)') /\ (Met(t) => Met(t)'),
         \A k \in DOMAIN said, t \in 0..TurnLimit : Tells(said[k], t) => Met(t)',
         (\E k \in DOMAIN said : said[k].kind \in Ends) => \A t \in 0..TurnLimit : Met(t)' => Gone(t)',
         connected => \A t \in Stops!Turns : recorded'[t] = "ended" /\ recorded[t] # "ended" =>
              \E k \in DOMAIN said : Completes(said[k], t),
         \A t \in Stops!Turns, k \in DOMAIN said :
              /\ SaysLive(said[k], t) => recorded'[t] # "ended"
              /\ SaysOver(said[k], t) => recorded[t] = "ended"
  PROVE  StopSound'
<1> USE DEF StopSound
<1>1. StopTypes' BY DEF StopTypes, StopRecord, Button, Stops!Turns, Stops!Statuses
<1>2. ~connected => news = <<>> BY DEF SilentWhenDown
<1>3. /\ Len(news) \in Nat /\ DOMAIN news = 1..Len(news)
      /\ connected => \A i \in DOMAIN news' : i \notin DOMAIN news =>
             i - Len(news) \in DOMAIN said /\ news'[i] = said[i - Len(news)]
      /\ connected => \A i \in DOMAIN news : i \in DOMAIN news' /\ news'[i] = news[i]
      /\ news' \in Seq(NewsLine)
  <2>1. Len(news) \in Nat /\ DOMAIN news = 1..Len(news) /\ news \in Seq(NewsLine) BY DEF NewsTypes
  <2> QED BY <2>1, NewsAreAdded
<1>4. NewsTypes'
  <2>1. CASE connected
    <3>1. ASSUME NEW i \in DOMAIN news'
          PROVE  /\ news'[i].kind = "read" => news'[i].read \in [Stops!Turns -> Stops!Statuses]
                 /\ news'[i].kind \in {"active", "started", "completed", "answer"} => news'[i].turn \in Stops!Turns
      BY <2>1, <1>3 DEF NewsTypes
    <3> QED BY <3>1, <1>3 DEF NewsTypes, NewsLine, Stops!Turns, Stops!Statuses
  <2>2. CASE ~connected BY <2>2, <1>2, <1>3 DEF NewsTypes, NewsLine, Stops!Turns, Stops!Statuses
  <2> QED BY <2>1, <2>2
<1>5. SilentWhenDown' BY <1>2 DEF SilentWhenDown, Now
<1>6. KnownAreMet' /\ EndsComeLast' BY KnowledgeIsAdded
<1>7. ShownAreRunning'
  <2>1. \A b : Now(b)' <=> Now(b) BY DEF Now
  <2>2. stop.shown.turn \in 0..TurnLimit /\ \A i \in DOMAIN pressed : pressed[i].turn \in 0..TurnLimit
    BY ButtonTypes
  <2>3. ShownAreRunning OBVIOUS
  <2>4. (state # "running" \/ stop.at = "nothing") /\ Now(stop.shown) => Gone(stop.shown.turn)'
    BY <2>2, <2>3 DEF ShownAreRunning
  <2>5. \A i \in DOMAIN pressed : state # "running" /\ Now(pressed[i]) => Gone(pressed[i].turn)'
    BY <2>2, <2>3 DEF ShownAreRunning
  <2>6. (stop.shown.turn)' = stop.shown.turn /\ \A i : pressed'[i] = pressed[i] OBVIOUS
  <2> HIDE DEF StopSound
  <2> QED BY <2>1, <2>4, <2>5, <2>6 DEF ShownAreRunning, Gone
<1>8. AnswersAreAwaited'
  <2>1. CASE connected
    <3>1. \A i \in DOMAIN news' : i \notin DOMAIN news /\ news'[i].kind = "answer" =>
            stop'.at = "reviewed" /\ stop.at # "reviewed" /\ i - Len(news) = 2
      BY <2>1, <1>3
    <3>2. \A i \in DOMAIN news' : i \in DOMAIN news /\ news'[i].kind = "answer" => stop.at = "reviewed"
      BY <2>1, <1>3 DEF AnswersAreAwaited
    <3>3. \A i \in DOMAIN news' : news'[i].kind = "answer" => stop'.at = "reviewed" BY <3>1, <3>2
    <3>4. \A i \in DOMAIN news' : i \in Int BY <1>3
    <3>5. ASSUME NEW i \in DOMAIN news', NEW j \in DOMAIN news',
                 news'[i].kind = "answer", news'[j].kind = "answer"
          PROVE  i = j
      <4>1. CASE i \in DOMAIN news /\ j \in DOMAIN news BY <4>1, <3>5, <2>1, <1>3 DEF AnswersAreAwaited
      <4>2. CASE i \notin DOMAIN news /\ j \notin DOMAIN news BY <4>2, <3>1, <3>4, <3>5, <1>3
      <4> QED BY <4>1, <4>2, <3>1, <3>2, <3>5
    <3> QED BY <3>3, <3>5 DEF AnswersAreAwaited
  <2>2. CASE ~connected BY <2>2, <1>2 DEF AnswersAreAwaited
  <2> QED BY <2>1, <2>2
<1>9. EndsFollow'
  <2>1. CASE connected
    <3>1. \A t \in Stops!Turns : recorded[t] = "ended" => recorded'[t] = "ended" BY DEF Gone, Stops!Turns
    <3> QED BY <2>1, <3>1, EndsAreAdded
  <2>2. CASE ~connected BY <2>2, <1>2 DEF EndsFollow
  <2> QED BY <2>1, <2>2
<1>10. NamesAreLive' BY DEF NamesAreLive
<1> QED BY <1>1, <1>4, <1>5, <1>6, <1>7, <1>8, <1>9, <1>10 DEF StopSound

\* A line of news is taken in.
LEMMA NewsAreRead ==
  ASSUME StopSound, news # <<>>, news' = Tail(news),
         UNCHANGED <<run, recorded, connected, pressed, lost, stopped>>,
         active' \in 0..TurnLimit, announced' \in 0..TurnLimit, cached' \in [Stops!Turns -> Stops!Statuses],
         state' \in {"idle", "running", "finished", "disconnected"},
         stop' \in StopRecord, stop'.shown \in {stop.shown, [turn |-> 0, lost |-> 0]}, stop'.at # "nothing",
         \A t \in 0..TurnLimit : t \in {active', announced'} \/ (t \in Stops!Turns /\ cached'[t] = "inProgress") =>
              t = 0 \/ Knows(t) \/ Tells(news[1], t),
         \A t \in Stops!Turns : cached[t] = "ended" /\ ~SaysLive(news[1], t) => cached'[t] = "ended",
         \A t \in Stops!Turns : Completes(news[1], t) => cached'[t] = "ended",
         state' = "running" \/ state # "running" \/ news[1].kind \in Ends,
         stop.at = "reviewed" => stop'.at = "reviewed" \/ news[1].kind = "answer",
         active' # 0 => cached'[active'] = "inProgress",
         stop'.at = "waited" => stop'.turn \in {0, active'}
  PROVE  StopSound'
<1> USE DEF StopSound
<1>1. /\ 1 \in DOMAIN news /\ Len(news) \in Nat
      /\ DOMAIN news' = 1..(Len(news) - 1) /\ DOMAIN news = 1..Len(news)
      /\ \A i \in DOMAIN news' : i + 1 \in DOMAIN news /\ news'[i] = news[i + 1] /\ i >= 1
      /\ NewsTypes'
  BY NewsMoveUp
<1>2. StopTypes' BY DEF StopTypes, StopRecord, Button, Stops!Turns, Stops!Statuses
<1>3. OneTurn' BY DEF OneTurn, Stops!Turns
<1>4. connected BY DEF SilentWhenDown
<1>5. SilentWhenDown' BY <1>4 DEF SilentWhenDown, StopTypes
<1>6. KnownAreMet' /\ EndsComeLast'
  <2>1. ASSUME NEW t \in 0..TurnLimit, Knows(t)' PROVE t = 0 \/ Knows(t) \/ Tells(news[1], t)
    <3>1. CASE t \in {active', announced'} \/ (t \in Stops!Turns /\ cached'[t] = "inProgress") BY <3>1
    <3>2. CASE t = stop'.shown.turn \/ \E i \in DOMAIN pressed : t = pressed[i].turn BY <3>2 DEF Knows
    <3> QED BY <2>1, <3>1, <3>2 DEF Knows, Stops!Turns
  <2> QED BY <2>1, KnowledgeIsTaken
<1>7. ShownAreRunning'
  <2>1. \A b : Now(b)' <=> Now(b) BY DEF Now
  <2>2. stop.shown.turn \in 0..TurnLimit /\ \A i \in DOMAIN pressed : pressed[i].turn \in 0..TurnLimit
    BY ButtonTypes
  <2>3. ASSUME state' # "running"
        PROVE  /\ Now(stop.shown) => Gone(stop.shown.turn)
               /\ \A i \in DOMAIN pressed : Now(pressed[i]) => Gone(pressed[i].turn)
    <3>1. CASE state # "running" BY <3>1 DEF ShownAreRunning
    <3>2. CASE news[1].kind \in Ends
      <4>1. \A t \in 0..TurnLimit : Knows(t) => Gone(t) BY <3>2, <1>1 DEF EndsComeLast
      <4>2. Knows(stop.shown.turn) /\ \A i \in DOMAIN pressed : Knows(pressed[i].turn) BY DEF Knows
      <4> QED BY <4>1, <4>2, <2>2
    <3> QED BY <2>3, <3>1, <3>2
  <2>4. state' # "running" => (Now(stop'.shown) => Gone(stop'.shown.turn)) BY <2>3 DEF Now
  <2>5. \A i : pressed'[i] = pressed[i] OBVIOUS
  <2> HIDE DEF StopSound
  <2> QED BY <2>1, <2>3, <2>4, <2>5 DEF ShownAreRunning, Gone
<1>8. AnswersAreAwaited' BY <1>1 DEF AnswersAreAwaited
<1>9. EndsFollow' BY EndsAreTaken
<1>10. NamesAreLive' BY DEF NamesAreLive
<1> QED BY <1>1, <1>2, <1>3, <1>5, <1>6, <1>7, <1>8, <1>9, <1>10

----
(* Each action keeps the invariant. *)

LEMMA NumbersHaveEnds ==
  ASSUME TurnLimit \in Nat, NEW S \in SUBSET (0..TurnLimit), S # {}
  PROVE  (\E t \in S : \A u \in S : t <= u) /\ (\E t \in S : \A u \in S : u <= t)
<1>1. ASSUME NEW T \in SUBSET Nat, T # {} PROVE \E t \in T : \A u \in T : t <= u
  <2>1. PICK t \in T : \A u \in T : ~(<<u, t>> \in OpToRel(<, Nat)) BY <1>1, NatLessThanWellFounded, WFMin
  <2>2. ASSUME NEW u \in T PROVE t <= u
    <3>1. ~(u < t) BY <2>1, <1>1 DEF OpToRel
    <3> QED BY <3>1, <1>1
  <2> QED BY <2>2
<1>2. \E t \in S : \A u \in S : t <= u BY <1>1
<1>3. \E t \in S : \A u \in S : u <= t
  <2> DEFINE T == {n \in Nat : \E t \in S : n = TurnLimit - t}
  <2>0. \A t \in S : t \in Nat /\ TurnLimit - t \in Nat OBVIOUS
  <2>1. T # {} /\ \A t \in S : TurnLimit - t \in T /\ t \in Nat BY <2>0
  <2>2. PICK n \in T : \A u \in T : n <= u
    <3> HIDE DEF T
    <3>1. T \in SUBSET Nat BY DEF T
    <3> QED BY <2>1, <3>1, <1>1
  <2>3. PICK t \in S : n = TurnLimit - t BY <2>2
  <2>4. ASSUME NEW u \in S PROVE u <= t
    <3>1. TurnLimit - u \in T BY <2>1
    <3> HIDE DEF T
    <3>2. TurnLimit - t <= TurnLimit - u BY <2>2, <2>3, <3>1
    <3>3. t \in Nat /\ u \in Nat BY <2>1
    <3> QED BY <3>2, <3>3
  <2> QED BY <2>4
<1> QED BY <1>2, <1>3

LEMMA NextTurnIsNew ==
  ASSUME TurnLimit \in Nat, \E t \in Stops!Turns : recorded[t] = "none"
  PROVE  Stops!NextTurn \in Stops!Turns /\ recorded[Stops!NextTurn] = "none"
<1> DEFINE S == {t \in Stops!Turns : recorded[t] = "none"}
<1>1. S \in SUBSET (0..TurnLimit) /\ S # {} BY DEF Stops!Turns
<1>2. PICK t \in S : \A u \in S : t <= u BY <1>1, NumbersHaveEnds
<1>3. \E n \in Stops!Turns : recorded[n] = "none" /\ \A u \in Stops!Turns : recorded[u] = "none" => n <= u
  BY <1>2
<1> QED BY <1>3 DEF Stops!NextTurn

LEMMA InProgressIsOne ==
  ASSUME TurnLimit \in Nat, NEW history
  PROVE  /\ Stops!InProgress(history) # 0 =>
              Stops!InProgress(history) \in Stops!Turns /\ history[Stops!InProgress(history)] = "inProgress"
         /\ (\E t \in Stops!Turns : history[t] = "inProgress") => Stops!InProgress(history) # 0
<1> DEFINE S == {t \in Stops!Turns : history[t] = "inProgress"}
<1>1. CASE S = {} BY <1>1 DEF Stops!InProgress, Stops!LastOf
<1>2. CASE S # {}
  <2>1. PICK t \in S : \A u \in S : u <= t
    <3>1. S \in SUBSET (0..TurnLimit) BY DEF Stops!Turns
    <3> QED BY <1>2, <3>1, NumbersHaveEnds
  <2>2. Stops!InProgress(history) = CHOOSE n \in S : \A u \in S : u <= n
    BY <1>2 DEF Stops!InProgress, Stops!LastOf
  <2>3. Stops!InProgress(history) \in S BY <2>1, <2>2
  <2> QED BY <2>3 DEF Stops!Turns
<1> QED BY <1>1, <1>2

LEMMA TurnStartsKeeps ==
  ASSUME TurnLimit \in Nat, StopSound, Stops!TurnStarts
  PROVE  StopSound'
<1>1. /\ run = 0 /\ run' \in Stops!Turns /\ recorded[run'] = "none" /\ recorded' = recorded
      /\ news' = IF connected THEN news \o <<Stops!Line("active", run')>> ELSE news
      /\ UNCHANGED <<connected, state, active, announced, cached, pressed, lost, stopped, stop>>
  BY NextTurnIsNew DEF Stops!TurnStarts, Stops!Say, Stops!runtime
<1> DEFINE said == <<Stops!Line("active", run')>>
<1>2. said \in Seq(NewsLine) /\ said[1].kind = "active" /\ said[1].turn = run' /\ DOMAIN said = {1}
  BY <1>1 DEF Stops!Line, NewsLine, Stops!Turns
<1>3. run' \in 0..TurnLimit /\ recorded' \in [Stops!Turns -> Stops!Statuses] /\ stop' \in StopRecord
  BY <1>1 DEF Stops!Turns, StopSound, StopTypes, StopRecord
<1>4. OneTurn' BY <1>1 DEF StopSound, OneTurn, Stops!Turns
<1>5. \A t : (Gone(t)' <=> Gone(t)) /\ (Met(t) => Met(t)') /\ (t = run' => Met(t)') BY <1>1 DEF Gone, Met
<1>6. \A k \in DOMAIN said, t \in 0..TurnLimit : Tells(said[k], t) => Met(t)' BY <1>2, <1>5 DEF Tells
<1>7. \A k \in DOMAIN said : said[k].kind = "active" /\ said[k].turn \in Stops!Turns BY <1>1, <1>2
<1> HIDE DEF said
<1>8. news' = IF connected THEN news \o said ELSE news BY <1>1 DEF said
<1> QED BY <1>1, <1>2, <1>3, <1>4, <1>5, <1>6, <1>7, <1>8, ServerSpeaks DEF SaysLive, SaysOver, Completes, Ends

LEMMA MaterializesKeeps ==
  ASSUME StopSound, Stops!Materializes
  PROVE  StopSound'
<1>1. /\ run # 0 /\ recorded[run] = "none" /\ recorded' = [recorded EXCEPT ![run] = "inProgress"] /\ run' = run
      /\ news' = IF connected THEN news \o <<Stops!Line("started", run)>> ELSE news
      /\ UNCHANGED <<connected, state, active, announced, cached, pressed, lost, stopped, stop>>
  BY DEF Stops!Materializes, Stops!Say, Stops!runtime
<1>2. run \in Stops!Turns /\ recorded \in [Stops!Turns -> Stops!Statuses]
  BY <1>1 DEF Stops!Turns, StopSound, StopTypes
<1> DEFINE said == <<Stops!Line("started", run)>>
<1>3. said \in Seq(NewsLine) /\ DOMAIN said = {1} /\ said[1].kind = "started" /\ said[1].turn = run
  BY <1>2 DEF Stops!Line, NewsLine, Stops!Turns
<1>4. run' \in 0..TurnLimit /\ recorded' \in [Stops!Turns -> Stops!Statuses] /\ stop' \in StopRecord
  BY <1>1, <1>2 DEF Stops!Turns, Stops!Statuses, StopSound, StopTypes, StopRecord
<1>5. OneTurn' BY <1>1, <1>2 DEF StopSound, OneTurn, Stops!Turns
<1>6. \A t \in 0..TurnLimit : (Gone(t) => Gone(t)') /\ (Met(t) => Met(t)') /\ (t = run => Met(t)')
  <2>1. \A t \in 0..TurnLimit : t = 0 \/ t \in Stops!Turns BY DEF Stops!Turns
  <2> QED BY <1>1, <1>2, <2>1 DEF Gone, Met
<1>7. \A k \in DOMAIN said, t \in 0..TurnLimit : Tells(said[k], t) => Met(t)' BY <1>3, <1>6 DEF Tells
<1>8. \A k \in DOMAIN said : said[k].kind = "started" /\ said[k].turn = run BY <1>3
<1>9. \A t \in Stops!Turns : recorded'[t] = "ended" => recorded[t] = "ended" /\ t # run BY <1>1, <1>2
<1> HIDE DEF said
<1>10. news' = IF connected THEN news \o said ELSE news BY <1>1 DEF said
<1> QED
  BY <1>1, <1>2, <1>3, <1>4, <1>5, <1>6, <1>7, <1>8, <1>9, <1>10, ServerSpeaks DEF SaysLive, SaysOver, Completes, Ends

LEMMA TurnEndsKeeps ==
  ASSUME TurnLimit \in Nat, StopSound, Stops!TurnEnds
  PROVE  StopSound'
<1>1. /\ run # 0 /\ recorded[run] = "inProgress" /\ recorded' = [recorded EXCEPT ![run] = "ended"] /\ run' = 0
      /\ news' = IF connected THEN news \o <<Stops!Line("completed", run), Stops!Line("idle", 0)>> ELSE news
      /\ UNCHANGED <<connected, state, active, announced, cached, pressed, lost, stopped, stop>>
  BY DEF Stops!TurnEnds, Stops!Say, Stops!runtime
<1>2. run \in Stops!Turns /\ recorded \in [Stops!Turns -> Stops!Statuses]
  BY <1>1 DEF Stops!Turns, StopSound, StopTypes
<1> DEFINE said == <<Stops!Line("completed", run), Stops!Line("idle", 0)>>
<1>3. /\ said \in Seq(NewsLine) /\ DOMAIN said = {1, 2} /\ said[1].kind = "completed" /\ said[1].turn = run
      /\ said[2].kind = "idle" /\ said[2].turn = 0
  BY <1>2 DEF Stops!Line, NewsLine, Stops!Turns
<1>4. run' \in 0..TurnLimit /\ recorded' \in [Stops!Turns -> Stops!Statuses] /\ stop' \in StopRecord
  BY <1>1, <1>2 DEF Stops!Turns, Stops!Statuses, StopSound, StopTypes, StopRecord
<1>5. OneTurn' BY <1>1, <1>2 DEF StopSound, OneTurn, Stops!Turns
<1>6. \A t \in 0..TurnLimit : (Gone(t) => Gone(t)') /\ (Met(t) => Met(t)') /\ (Met(t)' => Gone(t)') /\ (t \in {0, run} => Met(t)')
  <2>1. \A t \in 0..TurnLimit : t = 0 \/ t \in Stops!Turns BY DEF Stops!Turns
  <2> QED BY <1>1, <1>2, <2>1 DEF Gone, Met
<1>7. \A k \in DOMAIN said, t \in 0..TurnLimit : Tells(said[k], t) => Met(t)' BY <1>3, <1>6 DEF Tells
<1>8. \A k \in DOMAIN said : (said[k].kind = "completed" /\ said[k].turn = run) \/ said[k].kind = "idle" BY <1>3
<1>9. \A t \in Stops!Turns : recorded'[t] = "ended" /\ recorded[t] # "ended" => Completes(said[1], t) /\ 1 \in DOMAIN said
  BY <1>1, <1>2, <1>3 DEF Completes
<1> HIDE DEF said
<1>10. news' = IF connected THEN news \o said ELSE news BY <1>1 DEF said
<1>11. \A t \in Stops!Turns, k \in DOMAIN said : ~SaysLive(said[k], t) /\ ~SaysOver(said[k], t)
  BY <1>8 DEF SaysLive, SaysOver
<1> QED BY <1>1, <1>2, <1>3, <1>4, <1>5, <1>6, <1>7, <1>8, <1>9, <1>10, <1>11, ServerSpeaks

LEMMA ReadsKeeps ==
  ASSUME TurnLimit \in Nat, StopSound, Stops!Reads
  PROVE  StopSound'
<1>1. /\ connected /\ stop.at = "reads" /\ stop' = [stop EXCEPT !.at = "read"] /\ recorded' = recorded /\ run' = run
      /\ news' = IF connected THEN news \o <<Stops!Line("read", 0)>> ELSE news
      /\ UNCHANGED <<connected, state, active, announced, cached, pressed, lost, stopped>>
  BY DEF Stops!Reads, Stops!Say, Stops!runtime, Stops!server
<1>2. stop \in StopRecord /\ recorded \in [Stops!Turns -> Stops!Statuses] /\ run \in 0..TurnLimit
  BY DEF StopSound, StopTypes, StopRecord
<1> DEFINE said == <<Stops!Line("read", 0)>>
<1>3. said \in Seq(NewsLine) /\ DOMAIN said = {1} /\ said[1].kind = "read" /\ said[1].turn = 0 /\ said[1].read = recorded
  BY <1>2 DEF Stops!Line, NewsLine
<1>4. stop' \in StopRecord /\ stop'.shown = stop.shown /\ stop'.at = "read" BY <1>1, <1>2 DEF StopRecord
<1>5. OneTurn' BY <1>1 DEF StopSound, OneTurn, Stops!Turns
<1>6. \A t : (Gone(t)' <=> Gone(t)) /\ (Met(t)' <=> Met(t)) /\ (t = 0 => Met(t)) BY <1>1 DEF Gone, Met
<1>7. \A k \in DOMAIN said, t \in 0..TurnLimit : Tells(said[k], t) => Met(t)'
  BY <1>3, <1>6 DEF Tells, StopSound, OneTurn, Met
<1>8. \A k \in DOMAIN said : said[k].kind = "read" /\ said[k].read = recorded BY <1>3
<1> HIDE DEF said
<1>9. news' = IF connected THEN news \o said ELSE news BY <1>1 DEF said
<1> QED
  BY <1>1, <1>2, <1>3, <1>4, <1>5, <1>6, <1>7, <1>8, <1>9, ServerSpeaks DEF SaysLive, SaysOver, Completes, Ends

LEMMA ReviewStartsKeeps ==
  ASSUME TurnLimit \in Nat, StopSound, Stops!ReviewStarts
  PROVE  StopSound'
<1>0. /\ stop \in StopRecord /\ recorded \in [Stops!Turns -> Stops!Statuses] /\ run \in 0..TurnLimit
      /\ pressed \in Seq(Button)
  BY DEF StopSound, StopTypes, StopRecord
<1>1. CASE Stops!CanStart
  <2>1. /\ run = 0 /\ run' \in Stops!Turns /\ recorded[run'] = "none"
        /\ recorded' = [recorded EXCEPT ![run'] = "inProgress"]
        /\ connected /\ stop.at = "reviews" /\ stop' = [stop EXCEPT !.at = "reviewed"]
        /\ news' = IF connected THEN news \o <<Stops!Line("active", run'), Stops!Line("answer", run'), Stops!Line("started", run')>>
                   ELSE news
        /\ UNCHANGED <<connected, state, active, announced, cached, pressed, lost, stopped>>
    BY <1>1, NextTurnIsNew DEF Stops!ReviewStarts, Stops!CanStart, Stops!Say, Stops!runtime
  <2> DEFINE said == <<Stops!Line("active", run'), Stops!Line("answer", run'), Stops!Line("started", run')>>
  <2>2. /\ said \in Seq(NewsLine) /\ DOMAIN said = {1, 2, 3}
        /\ said[1].kind = "active" /\ said[2].kind = "answer" /\ said[3].kind = "started"
        /\ \A k \in {1, 2, 3} : said[k].turn = run'
    BY <2>1 DEF Stops!Line, NewsLine, Stops!Turns
  <2>3. run' \in 0..TurnLimit /\ recorded' \in [Stops!Turns -> Stops!Statuses]
    BY <1>0, <2>1 DEF Stops!Turns, Stops!Statuses
  <2>4. stop' \in StopRecord /\ stop'.shown = stop.shown /\ stop'.at = "reviewed" BY <1>0, <2>1 DEF StopRecord
  <2>5. OneTurn' BY <1>0, <2>1 DEF StopSound, OneTurn, Stops!Turns
  <2>6. \A t \in 0..TurnLimit : (Gone(t) => Gone(t)') /\ (Met(t) => Met(t)') /\ (t = run' => Met(t)')
    <3>1. \A t \in 0..TurnLimit : t = 0 \/ t \in Stops!Turns BY DEF Stops!Turns
    <3> QED BY <1>0, <2>1, <3>1 DEF Gone, Met
  <2>7. \A k \in DOMAIN said : /\ said[k].kind \in {"active", "answer", "started"} /\ said[k].turn = run'
                               /\ said[k].kind = "answer" => k = 2
    BY <2>2
  <2>8. \A k \in DOMAIN said, t \in 0..TurnLimit : Tells(said[k], t) => Met(t)' BY <2>6, <2>7 DEF Tells
  <2>9. \A t \in Stops!Turns : recorded'[t] = "ended" => recorded[t] = "ended" /\ t # run' BY <1>0, <2>1
  <2> HIDE DEF said
  <2>10. news' = IF connected THEN news \o said ELSE news BY <2>1 DEF said
  <2>11. /\ \A t \in Stops!Turns, k \in DOMAIN said : (SaysLive(said[k], t) => recorded'[t] # "ended") /\ ~SaysOver(said[k], t)
         /\ \A k \in DOMAIN said : said[k].kind \notin Ends /\ said[k].kind # "read"
    BY <2>7, <2>9 DEF SaysLive, SaysOver, Ends
  <2> QED BY <2>1, <2>2, <2>3, <2>4, <2>5, <2>6, <2>7, <2>8, <2>9, <2>10, <2>11, ServerSpeaks
<1>2. CASE ~Stops!CanStart
  <2>1. /\ UNCHANGED <<run, recorded, news, connected, state, active, announced, cached, lost, pressed, stopped>>
        /\ stop.at = "reviews" /\ stop' = Stops!NoOp
    BY <1>2 DEF Stops!ReviewStarts, Stops!runtime, Stops!server
  <2>2. stop' \in StopRecord /\ stop'.at = "none" /\ Held(stop'.shown)
    BY <2>1 DEF Stops!NoOp, StopRecord, Button, Held
  <2>3. \A i \in DOMAIN pressed' : Held(pressed'[i]) BY <2>1 DEF Held
  <2> QED BY <1>0, <2>1, <2>2, <2>3, OperationMoves
<1> QED BY <1>1, <1>2

\* What there is of the head of the news.
LEMMA HeadOfNews ==
  ASSUME StopSound, news # <<>>
  PROVE  /\ Head(news) = news[1] /\ 1 \in DOMAIN news /\ connected
         /\ news[1].kind \in {"active", "started", "completed", "idle", "read", "answer"}
         /\ news[1].kind = "read" => news[1].read \in [Stops!Turns -> Stops!Statuses]
         /\ news[1].kind \in {"active", "started", "completed", "answer"} => news[1].turn \in Stops!Turns
<1>1. news \in Seq(NewsLine) /\ connected BY DEF StopSound, NewsTypes, SilentWhenDown
<1>2. Head(news) = news[1] /\ 1 \in DOMAIN news BY <1>1
<1>3. news[1] \in NewsLine BY <1>1, <1>2
<1>4. news[1].kind \in {"active", "started", "completed", "idle", "read", "answer"} BY <1>3 DEF NewsLine
<1> QED BY <1>1, <1>2, <1>4 DEF StopSound, NewsTypes

LEMMA EventKeeps ==
  ASSUME TurnLimit \in Nat, StopSound, Stops!Event
  PROVE  StopSound'
<1> DEFINE l == news[1]
<1>1. /\ news # <<>> /\ news' = Tail(news) /\ l.kind \notin {"read", "answer"}
      /\ stop.at \notin {"waited", "nothing"} /\ Stops!Waited
      /\ UNCHANGED <<run, recorded, connected, pressed, stopped, lost>>
  <2>1. news # <<>> BY DEF Stops!Event
  <2>2. Head(news) = l BY <2>1, HeadOfNews
  <2> QED BY <2>2 DEF Stops!Event, Stops!Idle, Stops!server
<1>2. /\ l.kind \in {"active", "started", "completed", "idle"}
      /\ l.kind # "idle" => l.turn \in Stops!Turns
  BY <1>1, HeadOfNews
<1>3. /\ stop \in StopRecord /\ active \in 0..TurnLimit /\ announced \in 0..TurnLimit
      /\ cached \in [Stops!Turns -> Stops!Statuses] /\ state \in {"idle", "running", "finished", "disconnected"}
  BY DEF StopSound, StopTypes, StopRecord
<1>4. \/ /\ l.kind = "active" /\ state' = "running" /\ announced' = l.turn /\ active' = active /\ cached' = cached
      \/ /\ l.kind = "started" /\ state' = "running" /\ active' = l.turn
         /\ announced' = (IF l.turn = 0 THEN announced ELSE l.turn) /\ cached' = [cached EXCEPT ![l.turn] = "inProgress"]
      \/ /\ l.kind = "completed" /\ state' = "finished" /\ active' = 0 /\ announced' = announced
         /\ cached' = [cached EXCEPT ![l.turn] = "ended"]
      \/ /\ l.kind = "idle" /\ state' \in {"finished", "idle"} /\ active' = 0 /\ announced' = announced
         /\ cached' = cached
  <2>1. Head(news) = l BY <1>1, HeadOfNews
  <2> QED BY <1>2, <2>1 DEF Stops!Event, Stops!SetRuntime, Stops!Known
<1>5. active # 0 => cached[active] = "inProgress" BY DEF StopSound, NamesAreLive
<1>6. /\ active' \in 0..TurnLimit /\ announced' \in 0..TurnLimit /\ cached' \in [Stops!Turns -> Stops!Statuses]
      /\ state' \in {"idle", "running", "finished", "disconnected"}
  BY <1>2, <1>3, <1>4 DEF Stops!Turns, Stops!Statuses
<1>7. /\ stop' \in StopRecord /\ stop'.shown = stop.shown /\ stop'.at # "nothing"
      /\ stop.at = "reviewed" => stop'.at = "reviewed"
      /\ stop'.at = "waited" => stop'.turn = active'
  BY <1>1, <1>3, <1>6 DEF Stops!Waited, StopRecord
<1>8. \A t \in 0..TurnLimit : t \in {active', announced'} \/ (t \in Stops!Turns /\ cached'[t] = "inProgress") =>
          t = 0 \/ Knows(t) \/ Tells(l, t)
  BY <1>2, <1>3, <1>4 DEF Knows, Tells
<1>9. /\ \A t \in Stops!Turns : cached[t] = "ended" /\ ~SaysLive(l, t) => cached'[t] = "ended"
      /\ \A t \in Stops!Turns : Completes(l, t) => cached'[t] = "ended"
  BY <1>2, <1>3, <1>4 DEF SaysLive, Completes
<1>10. state' = "running" \/ l.kind \in Ends BY <1>4 DEF Ends
<1>11. active' # 0 => cached'[active'] = "inProgress" BY <1>2, <1>3, <1>4, <1>5
<1> QED BY <1>1, <1>6, <1>7, <1>8, <1>9, <1>10, <1>11, NewsAreRead

LEMMA ReadCameKeeps ==
  ASSUME TurnLimit \in Nat, StopSound, Stops!ReadCame
  PROVE  StopSound' /\ named' = named
<1> DEFINE l == news[1]
           t == Stops!InProgress(cached')
<1>1. /\ news # <<>> /\ news' = Tail(news) /\ l.kind = "read" /\ stop.at = "read"
      /\ cached' = [u \in Stops!Turns |-> IF l.read[u] = "none" THEN cached[u] ELSE l.read[u]]
      /\ UNCHANGED <<run, recorded, connected, pressed, stopped, lost>>
      /\ IF t # 0
         THEN /\ state' = "running" /\ active' = t /\ announced' = t
              /\ stop' = [stop EXCEPT !.at = "asks", !.turn = t]
              /\ named' = IF cached'[t] = "ended" THEN named \cup {t} ELSE named
         ELSE /\ UNCHANGED <<state, active, announced, named>>
              /\ stop' = IF active # 0 \/ state # "running" THEN [stop EXCEPT !.at = "waited", !.turn = active]
                         ELSE [stop EXCEPT !.at = "waits"]
  <2>1. news # <<>> BY DEF Stops!ReadCame
  <2>2. Head(news) = l BY <2>1, HeadOfNews
  <2> QED
    BY <2>2 DEF Stops!ReadCame, Stops!SetRuntime, Stops!Asks, Stops!Merged, Stops!Running, Stops!runtime, Stops!server
<1>2. l.read \in [Stops!Turns -> Stops!Statuses] /\ 1 \in DOMAIN news /\ connected BY <1>1, HeadOfNews
<1>3. /\ stop \in StopRecord /\ active \in 0..TurnLimit /\ announced \in 0..TurnLimit
      /\ cached \in [Stops!Turns -> Stops!Statuses] /\ state \in {"idle", "running", "finished", "disconnected"}
  BY DEF StopSound, StopTypes, StopRecord
<1>4. cached' \in [Stops!Turns -> Stops!Statuses] BY <1>1, <1>2, <1>3
<1>5. /\ t # 0 => t \in Stops!Turns /\ cached'[t] = "inProgress"
      /\ (\E u \in Stops!Turns : cached'[u] = "inProgress") => t # 0
  BY InProgressIsOne
<1>6. active \in Stops!Turns \/ active = 0 BY <1>3 DEF Stops!Turns
\* Without a Turn in progress there is no id.
<1>7. t = 0 => active = 0
  <2> SUFFICES ASSUME t = 0, active \in Stops!Turns PROVE FALSE BY <1>6
  <2>1. cached[active] = "inProgress" BY DEF StopSound, NamesAreLive, Stops!Turns
  <2>2. cached'[active] # "inProgress" BY <1>5
  <2>3. l.read[active] = "ended" BY <1>1, <1>2, <2>1, <2>2 DEF Stops!Statuses
  <2>4. ~\E k \in DOMAIN news : k < 1 BY DEF StopSound, NewsTypes
  <2>5. SaysOver(news[1], active) BY <1>1, <2>3 DEF SaysOver
  <2> QED BY <1>2, <2>1, <2>4, <2>5 DEF StopSound, EndsFollow
<1> HIDE DEF t
<1>8. /\ active' \in 0..TurnLimit /\ announced' \in 0..TurnLimit
      /\ state' \in {"idle", "running", "finished", "disconnected"}
      /\ state' = "running" \/ state # "running"
  BY <1>1, <1>3, <1>5 DEF Stops!Turns
<1>9. /\ stop' \in StopRecord /\ stop'.shown = stop.shown /\ stop'.at # "nothing"
      /\ stop'.at = "waited" => stop'.turn \in {0, active'}
  <2>1. CASE t # 0
    <3>1. stop' = [stop EXCEPT !.at = "asks", !.turn = t] /\ t \in 0..TurnLimit
      BY <1>1, <1>5, <2>1 DEF Stops!Turns
    <3> QED BY <1>3, <3>1 DEF StopRecord
  <2>2. CASE t = 0
    <3>1. stop' \in {[stop EXCEPT !.at = "waited", !.turn = active], [stop EXCEPT !.at = "waits"]} /\ active' = active
      BY <1>1, <2>2
    <3> QED BY <1>1, <1>3, <3>1 DEF StopRecord
  <2> QED BY <2>1, <2>2
<1>10. \A u \in Stops!Turns : cached'[u] = "inProgress" => cached[u] = "inProgress" \/ l.read[u] = "inProgress"
  BY <1>1
<1>11. \A u \in 0..TurnLimit : u \in {active', announced'} \/ (u \in Stops!Turns /\ cached'[u] = "inProgress") =>
           u = 0 \/ Knows(u) \/ Tells(l, u)
  <2>1. \A u \in Stops!Turns : cached'[u] = "inProgress" => Knows(u) \/ Tells(l, u)
    BY <1>1, <1>10 DEF Knows, Tells
  <2> QED BY <1>1, <1>5, <2>1 DEF Knows
<1>12. /\ \A u \in Stops!Turns : cached[u] = "ended" /\ ~SaysLive(l, u) => cached'[u] = "ended"
       /\ \A u \in Stops!Turns : ~Completes(l, u)
  BY <1>1, <1>2 DEF SaysLive, Completes, Stops!Statuses
<1>13. active' # 0 => cached'[active'] = "inProgress" BY <1>1, <1>5, <1>7
<1>14. StopSound' BY <1>1, <1>4, <1>8, <1>9, <1>11, <1>12, <1>13, NewsAreRead
<1> QED BY <1>1, <1>5, <1>14

LEMMA ReviewCameKeeps ==
  ASSUME TurnLimit \in Nat, StopSound, Stops!ReviewCame
  PROVE  StopSound' /\ stop.at = "reviewed"
<1> DEFINE l == news[1]
<1>1. /\ news # <<>> /\ news' = Tail(news) /\ l.kind = "answer" /\ stop' = Stops!NoOp
      /\ state' = "running" /\ active' = l.turn /\ announced' = (IF l.turn = 0 THEN announced ELSE l.turn)
      /\ cached' = [cached EXCEPT ![l.turn] = "inProgress"]
      /\ UNCHANGED <<run, recorded, connected, pressed, stopped, lost>>
  <2>1. news # <<>> BY DEF Stops!ReviewCame
  <2>2. Head(news) = l BY <2>1, HeadOfNews
  <2> QED BY <2>2 DEF Stops!ReviewCame, Stops!SetRuntime, Stops!Known, Stops!server
<1>2. l.turn \in Stops!Turns /\ 1 \in DOMAIN news BY <1>1, HeadOfNews
<1>3. announced \in 0..TurnLimit /\ cached \in [Stops!Turns -> Stops!Statuses] BY DEF StopSound, StopTypes
<1>4. stop' \in StopRecord /\ stop'.shown = [turn |-> 0, lost |-> 0] /\ stop'.at = "none"
  BY <1>1 DEF Stops!NoOp, StopRecord, Button
<1>5. /\ active' \in 0..TurnLimit /\ announced' \in 0..TurnLimit /\ cached' \in [Stops!Turns -> Stops!Statuses]
      /\ active' # 0 => cached'[active'] = "inProgress"
  BY <1>1, <1>2, <1>3 DEF Stops!Turns, Stops!Statuses
<1>6. \A t \in 0..TurnLimit : t \in {active', announced'} \/ (t \in Stops!Turns /\ cached'[t] = "inProgress") =>
          t = 0 \/ Knows(t) \/ Tells(l, t)
  BY <1>1, <1>2, <1>3 DEF Knows, Tells
<1>7. /\ \A t \in Stops!Turns : cached[t] = "ended" /\ ~SaysLive(l, t) => cached'[t] = "ended"
      /\ \A t \in Stops!Turns : ~Completes(l, t)
  BY <1>1, <1>2, <1>3 DEF SaysLive, Completes
<1>8. StopSound' BY <1>1, <1>4, <1>5, <1>6, <1>7, NewsAreRead
<1>9. stop.at = "reviewed" BY <1>1, <1>2 DEF StopSound, AnswersAreAwaited
<1> QED BY <1>8, <1>9

LEMMA LoseKeeps ==
  ASSUME TurnLimit \in Nat, StopSound, Stops!Lose
  PROVE  StopSound'
<1>1. /\ stop.at \notin {"waited", "nothing"} /\ connected /\ lost' = lost + 1 /\ connected' = FALSE /\ news' = <<>>
      /\ IF state = "running"
         THEN state' = "disconnected" /\ active' = 0 /\ announced' = announced
         ELSE UNCHANGED <<state, active, announced>>
      /\ stop' \in {Stops!NoOp, stop, [stop EXCEPT !.at = "waited", !.turn = 0]}
      /\ UNCHANGED <<run, recorded, cached, pressed, stopped>>
  BY DEF Stops!Lose, Stops!Idle, Stops!Running, Stops!SetRuntime, Stops!runtime, Stops!server
<1>2. /\ lost \in Nat /\ stop \in StopRecord /\ active \in 0..TurnLimit /\ pressed \in Seq(Button)
  BY DEF StopSound, StopTypes, StopRecord
<1>3. \A i \in DOMAIN pressed : pressed[i].lost \in Nat /\ pressed[i].lost <= lost
  <2>1. \A i \in DOMAIN pressed : pressed[i] \in Button BY <1>2
  <2> QED BY <2>1 DEF Button, StopSound, SilentWhenDown
<1>4. stop' \in StopRecord /\ stop'.shown \in {stop.shown, [turn |-> 0, lost |-> 0]} /\ stop'.shown.lost <= lost
      /\ stop'.shown.lost \in Nat /\ (stop'.at = "waited" => stop'.turn = 0)
  <2>1. stop.shown.lost <= lost /\ stop.shown.lost \in Nat
    BY <1>2 DEF StopSound, SilentWhenDown, StopRecord, Button
  <2>2. CASE stop' = Stops!NoOp
    <3>1. stop' = [at |-> "none", shown |-> [turn |-> 0, lost |-> 0], turn |-> 0] BY <2>2 DEF Stops!NoOp
    <3>2. [turn |-> 0, lost |-> 0] \in Button BY DEF Button
    <3>3. stop' \in StopRecord BY <3>1, <3>2 DEF StopRecord
    <3> QED BY <3>1, <3>3, <1>2
  <2>3. CASE stop' = stop BY <1>1, <1>2, <2>1, <2>3
  <2>4. CASE stop' = [stop EXCEPT !.at = "waited", !.turn = 0]
    <3>0. stop \in StopRecord /\ 0 \in 0..TurnLimit BY <1>2
    <3>1. stop' \in StopRecord BY <3>0, <2>4 DEF StopRecord
    <3>2. stop'.shown = stop.shown /\ stop'.turn = 0 BY <3>0, <2>4 DEF StopRecord
    <3> QED BY <3>1, <3>2, <2>1
  <2> QED BY <1>1, <2>2, <2>3, <2>4
<1>5. StopTypes'
  <2>1. StopTypes BY DEF StopSound
  <2>2. Stops!Turns' = Stops!Turns /\ Stops!Statuses' = Stops!Statuses /\ Button' = Button
    BY DEF Stops!Turns, Stops!Statuses, Button
  <2>3. active' \in 0..TurnLimit /\ announced' \in 0..TurnLimit
        /\ state' \in {"idle", "running", "finished", "disconnected"}
    <3>1. announced \in 0..TurnLimit /\ active \in 0..TurnLimit /\ state \in {"idle", "running", "finished", "disconnected"}
      BY <2>1 DEF StopTypes
    <3> QED BY <1>1, <3>1
  <2>4. lost' \in Nat BY <1>1, <1>2
  <2>5. connected' \in BOOLEAN BY <1>1
  <2> QED BY <1>1, <1>4, <2>1, <2>2, <2>3, <2>4, <2>5 DEF StopTypes, StopRecord
<1>6. NewsTypes' BY <1>1 DEF NewsTypes
<1>7. OneTurn' BY <1>1 DEF StopSound, OneTurn, Stops!Turns
<1>8. \A i \in DOMAIN pressed' : pressed'[i].lost # lost' /\ pressed'[i].lost <= lost' BY <1>1, <1>2, <1>3
<1>9. stop'.shown.lost # lost' /\ stop'.shown.lost <= lost' BY <1>1, <1>2, <1>4
<1>10. SilentWhenDown' BY <1>1, <1>8, <1>9 DEF SilentWhenDown, Now
<1>11. KnownAreMet' /\ EndsComeLast'
  <2>1. ASSUME NEW t \in 0..TurnLimit, Knows(t)' PROVE t = 0 \/ Knows(t)
    BY <2>1, <1>1, <1>4 DEF Knows, Stops!Turns
  <2>2. \A t : (Met(t)' <=> Met(t)) /\ Met(0) BY <1>1 DEF Met, Gone
  <2>3. KnownAreMet' BY <1>1, <2>1, <2>2 DEF StopSound, KnownAreMet
  <2> QED BY <1>1, <2>3 DEF EndsComeLast
<1>12. ShownAreRunning' BY <1>8, <1>9 DEF ShownAreRunning, Now
<1>13. AnswersAreAwaited' /\ EndsFollow' BY <1>1 DEF AnswersAreAwaited, EndsFollow
<1>14. NamesAreLive' BY <1>1, <1>4 DEF StopSound, NamesAreLive
<1> QED BY <1>5, <1>6, <1>7, <1>10, <1>11, <1>12, <1>13, <1>14 DEF StopSound

LEMMA ReconcileKeeps ==
  ASSUME TurnLimit \in Nat, StopSound, Stops!Reconcile
  PROVE  StopSound'
<1>1. /\ ~connected /\ stop.at \notin {"waited", "nothing"} /\ connected' = TRUE /\ cached' = recorded
      /\ state' \in {"idle", "running"} /\ announced' = run
      /\ active' = IF run # 0 /\ recorded[run] # "none" THEN run ELSE 0
      /\ UNCHANGED <<run, recorded, news, stop, pressed, stopped, lost>>
  BY DEF Stops!Reconcile, Stops!Idle, Stops!server
<1>2. news = <<>> /\ (\A i \in DOMAIN pressed : ~Now(pressed[i])) /\ ~Now(stop.shown)
  BY <1>1 DEF StopSound, SilentWhenDown
<1>3. run \in 0..TurnLimit /\ recorded \in [Stops!Turns -> Stops!Statuses] /\ (run # 0 => run \in Stops!Turns)
  BY DEF StopSound, StopTypes, Stops!Turns
<1>4. StopTypes' BY <1>1, <1>3 DEF StopSound, StopTypes, Button, Stops!Turns, Stops!Statuses
<1>5. NewsTypes' /\ AnswersAreAwaited' /\ EndsComeLast'
  BY <1>1, <1>2 DEF NewsTypes, AnswersAreAwaited, EndsComeLast
<1>6. OneTurn' BY <1>1 DEF StopSound, OneTurn, Stops!Turns
<1>7. SilentWhenDown' BY <1>1 DEF StopSound, SilentWhenDown
<1>8. KnownAreMet'
  <2>1. ASSUME NEW t \in 0..TurnLimit, Knows(t)' PROVE Knows(t) \/ t \in {0, run}
    BY <2>1, <1>1 DEF Knows, StopSound, OneTurn, Stops!Turns
  <2>2. \A t : (Met(t)' <=> Met(t)) /\ Met(0) /\ Met(run) BY <1>1 DEF Met, Gone
  <2> QED BY <1>1, <1>2, <2>1, <2>2 DEF StopSound, KnownAreMet
<1>9. ShownAreRunning' BY <1>1, <1>2 DEF ShownAreRunning, Now
<1>10. EndsFollow' BY <1>1, <1>2 DEF EndsFollow, Stops!Turns
<1>11. NamesAreLive' BY <1>1, <1>3 DEF StopSound, OneTurn, NamesAreLive, Stops!Statuses
<1> QED BY <1>4, <1>5, <1>6, <1>7, <1>8, <1>9, <1>10, <1>11 DEF StopSound

\* What interrupt and startReview do beside the reading and the answer.
LEMMA OperationsKeep ==
  ASSUME TurnLimit \in Nat, StopSound,
         \/ Stops!Press \/ Stops!Interrupt \/ Stops!Nothing \/ Stops!ReadFails \/ Stops!NotMaterialized
         \/ Stops!WaitEnds \/ Stops!Waits \/ Stops!Interrupted \/ Stops!Review
  PROVE  StopSound'
<1>1. /\ stop \in StopRecord /\ pressed \in Seq(Button)
      /\ active \in 0..TurnLimit /\ announced \in 0..TurnLimit /\ run \in 0..TurnLimit /\ lost \in Nat
      /\ Stops!NoOp \in StopRecord /\ Stops!NoOp.shown = [turn |-> 0, lost |-> 0] /\ Stops!NoOp.at = "none"
  <2>1. 0 \in 0..TurnLimit /\ 0 \in Nat OBVIOUS
  <2>2. [turn |-> 0, lost |-> 0] \in Button BY <2>1 DEF Button
  <2>3. Stops!NoOp \in StopRecord /\ Stops!NoOp.shown = [turn |-> 0, lost |-> 0] /\ Stops!NoOp.at = "none"
    BY <2>1, <2>2 DEF Stops!NoOp, StopRecord
  <2> QED BY <2>3 DEF StopSound, StopTypes, StopRecord
<1>2. Held([turn |-> 0, lost |-> 0]) /\ Held(stop.shown) /\ \A i \in DOMAIN pressed : Held(pressed[i])
  BY DEF Held
<1> DEFINE AllElse == UNCHANGED <<run, recorded, news, connected, state, active, announced, cached, lost>>
\* Where a step of an operation leads: to its end, or on with the same button.
<1>3. ASSUME AllElse, pressed' = pressed, stop.at # "reviewed",
             \/ stop' = Stops!NoOp
             \/ /\ stop' \in StopRecord /\ stop'.shown = stop.shown
                /\ stop'.at \in {"waits", "asks"} \/ (stop'.at = "waited" /\ stop'.turn \in {0, active})
      PROVE  StopSound'
  <2>1. stop' \in StopRecord /\ Held(stop'.shown) /\ stop'.at \notin {"reviewed", "nothing"}
        /\ (stop'.at = "waited" => stop'.turn \in {0, active})
    BY <1>1, <1>2, <1>3
  <2> QED BY <1>1, <1>2, <1>3, <2>1, OperationMoves
<1>4. CASE Stops!Press
  <2>1. /\ AllElse /\ stop' = stop /\ stopped' = stopped /\ state = "running"
        /\ pressed' = Append(pressed, [turn |-> announced, lost |-> lost])
    BY <1>4 DEF Stops!Press, Stops!Running, Stops!server, Stops!runtime
  <2>2. [turn |-> announced, lost |-> lost] \in Button /\ Held([turn |-> announced, lost |-> lost])
    BY <1>1, <2>1 DEF Button, Held
  <2>3. pressed' \in Seq(Button) /\ \A i \in DOMAIN pressed' : Held(pressed'[i]) BY <1>1, <1>2, <2>1, <2>2
  <2>4. connected BY <2>1 DEF StopSound, SilentWhenDown
  <2>5. StopTypes' /\ NewsTypes' /\ OneTurn' /\ AnswersAreAwaited' /\ NamesAreLive'
    BY <1>1, <2>1, <2>3 DEF StopSound, StopTypes, NewsTypes, NewsLine, OneTurn, AnswersAreAwaited, NamesAreLive,
      Button, Stops!Turns, Stops!Statuses
  <2>6. \A i \in DOMAIN pressed' : pressed'[i] = [turn |-> announced, lost |-> lost] \/ \E j \in DOMAIN pressed : pressed'[i] = pressed[j]
    BY <1>1, <2>1
  <2>7. SilentWhenDown'
    <3>1. SilentWhenDown BY DEF StopSound
    <3> QED BY <1>1, <2>1, <2>4, <2>6, <3>1 DEF SilentWhenDown, Now
  <2>8. \A t \in 0..TurnLimit : Knows(t)' => Knows(t) BY <2>1, <2>6 DEF Knows, Stops!Turns
  <2>9. KnownAreMet' /\ EndsComeLast' BY <2>1, <2>8, KnowledgeStays
  <2>10. ShownAreRunning' BY <2>1 DEF StopSound, ShownAreRunning, Now, Gone
  <2>11. EndsFollow' BY <2>1, EndsAreKept
  <2> QED BY <2>5, <2>7, <2>9, <2>10, <2>11 DEF StopSound
<1>5. CASE Stops!Interrupt
  <2>1. /\ AllElse /\ stopped' = stopped /\ stop.at = "none" /\ pressed # <<>> /\ pressed' = Tail(pressed)
        /\ stop' = [at |-> IF active # 0 THEN "asks" ELSE IF state = "running" THEN "reads" ELSE "nothing",
                    shown |-> Head(pressed), turn |-> active]
    BY <1>5 DEF Stops!Interrupt, Stops!Running, Stops!server, Stops!runtime
  <2>2. /\ Head(pressed) = pressed[1] /\ 1 \in DOMAIN pressed /\ pressed' \in Seq(Button)
        /\ \A i \in DOMAIN pressed' : \E j \in DOMAIN pressed : pressed'[i] = pressed[j]
    <3>1. /\ Head(pressed) = pressed[1] /\ 1 \in DOMAIN pressed /\ pressed' \in Seq(Button)
          /\ \A i \in DOMAIN pressed' : i + 1 \in DOMAIN pressed /\ pressed'[i] = pressed[i + 1]
      BY <1>1, <2>1
    <3> QED BY <3>1
  <2>3. stop' \in StopRecord /\ stop'.shown = pressed[1] /\ stop'.at \notin {"reviewed", "waited"}
        /\ (stop'.at = "nothing" => state # "running")
    <3>1. pressed[1] \in Button BY <1>1, <2>2
    <3>2. stop'.at \in {"asks", "reads", "nothing"} /\ stop'.shown = pressed[1] /\ (stop'.at = "nothing" => state # "running")
      BY <2>1, <2>2
    <3>3. stop' \in StopRecord BY <1>1, <2>1, <2>2, <3>1 DEF StopRecord
    <3> QED BY <3>2, <3>3
  <2>4. \A i \in DOMAIN pressed' : Held(pressed'[i]) BY <1>2, <2>2
  <2> QED BY <1>1, <1>2, <2>1, <2>2, <2>3, <2>4, OperationMoves
<1>6. CASE Stops!Nothing \/ Stops!ReadFails
  BY <1>1, <1>3, <1>6 DEF Stops!Nothing, Stops!Succeeds, Stops!ReadFails, Stops!Fails, Stops!server, Stops!runtime
<1>7. CASE Stops!NotMaterialized
  <2>1. /\ AllElse /\ stop.at = "reads" /\ UNCHANGED <<pressed, stopped>>
        /\ stop' = [stop EXCEPT !.at = "waited", !.turn = active] \/ stop' = [stop EXCEPT !.at = "waits"]
    BY <1>7 DEF Stops!NotMaterialized, Stops!server, Stops!runtime
  <2>2. CASE stop' = [stop EXCEPT !.at = "waited", !.turn = active]
    <3>1. stop' \in StopRecord /\ stop'.shown = stop.shown /\ stop'.at = "waited" /\ stop'.turn = active
      BY <1>1, <2>2 DEF StopRecord
    <3> QED BY <1>1, <1>3, <2>1, <3>1
  <2>3. CASE stop' = [stop EXCEPT !.at = "waits"]
    <3>1. stop' \in StopRecord /\ stop'.shown = stop.shown /\ stop'.at = "waits" BY <1>1, <2>3 DEF StopRecord
    <3> QED BY <1>1, <1>3, <2>1, <3>1
  <2> QED BY <2>1, <2>2, <2>3
<1>8. CASE Stops!WaitEnds
  <2>1. AllElse /\ stop.at = "waits" /\ UNCHANGED <<pressed, stopped>> /\ stop' = [stop EXCEPT !.at = "waited", !.turn = 0]
    BY <1>8 DEF Stops!WaitEnds, Stops!server, Stops!runtime
  <2>2. stop' \in StopRecord /\ stop'.shown = stop.shown /\ stop'.at = "waited" /\ stop'.turn = 0
    <3>1. 0 \in 0..TurnLimit OBVIOUS
    <3> QED BY <1>1, <2>1, <3>1 DEF StopRecord
  <2> QED BY <1>1, <1>3, <2>1, <2>2
<1>9. CASE Stops!Waits
  <2> DEFINE t == IF stop.turn # 0 THEN stop.turn ELSE active
  <2>1. /\ AllElse /\ stop.at = "waited" /\ UNCHANGED <<pressed, stopped>>
        /\ stop' = Stops!NoOp \/ stop' = [stop EXCEPT !.at = "asks", !.turn = t]
    BY <1>9 DEF Stops!Waits, Stops!Asks, Stops!Fails, Stops!Succeeds, Stops!server, Stops!runtime
  <2>2. t \in 0..TurnLimit BY <1>1 DEF StopRecord
  <2> HIDE DEF t
  <2>3. CASE stop' = [stop EXCEPT !.at = "asks", !.turn = t]
    <3>1. stop' \in StopRecord /\ stop'.shown = stop.shown /\ stop'.at = "asks"
      BY <1>1, <2>2, <2>3 DEF StopRecord
    <3> QED BY <1>1, <1>3, <2>1, <3>1
  <2> QED BY <1>1, <1>3, <2>1, <2>3
<1>10. CASE Stops!Interrupted
  <2>1. /\ AllElse /\ stop.at = "asks" /\ pressed' = pressed /\ stop' = Stops!NoOp
    BY <1>10 DEF Stops!Interrupted, Stops!Fails, Stops!Succeeds, Stops!server, Stops!runtime
  <2> QED BY <1>3, <2>1
<1>11. CASE Stops!Review
  <2>1. AllElse /\ pressed' = pressed /\ stop.at = "none" /\ stop' = [Stops!NoOp EXCEPT !.at = "reviews"]
    BY <1>11 DEF Stops!Review, Stops!server, Stops!runtime
  <2>2. stop' \in StopRecord /\ stop'.shown = [turn |-> 0, lost |-> 0] /\ stop'.at = "reviews"
    BY <1>1, <2>1 DEF StopRecord
  <2> QED BY <1>1, <1>2, <2>1, <2>2, OperationMoves
<1> QED BY <1>4, <1>5, <1>6, <1>7, <1>8, <1>9, <1>10, <1>11

\* A stop is only reported as a success if the Turn that was shown is over, or was stopped.
LEMMA SuccessIsTrue ==
  ASSUME StopSound, state # "running" \/ stop.at = "nothing", NEW stops
  PROVE  ~Stops!Lie(stops)
<1> SUFFICES ASSUME Stops!Lie(stops) PROVE FALSE OBVIOUS
<1>1. stop.shown.turn # 0 /\ stop.shown.turn = run /\ Now(stop.shown) BY DEF Stops!Lie, Now
<1>2. recorded[run] = "ended" BY <1>1 DEF StopSound, ShownAreRunning, Gone
<1> QED BY <1>1, <1>2 DEF StopSound, OneTurn

\* Interrupts, for every number of Turns, presses and lost connections: who is told that a
\* stop succeeded has the Turn stopped that was shown at the press, or it has ended, unless the
\* connection was lost in between; and no Turn is named to the App Server that is known to be over.
THEOREM StopsAreHonest ==
  ASSUME TurnLimit \in Nat
  PROVE  Stops!Spec => [](Stops!StopIsHonest /\ Stops!NamesNoEndedTurn)
<1>1. Stops!Init => StopInvariant
  <2> SUFFICES ASSUME Stops!Init PROVE StopInvariant OBVIOUS
  <2>1. /\ run = 0 /\ recorded = [t \in Stops!Turns |-> "none"] /\ news = <<>> /\ connected = TRUE /\ state = "idle"
        /\ active = 0 /\ announced = 0 /\ cached = recorded /\ pressed = <<>> /\ lied = FALSE /\ named = {} /\ lost = 0
        /\ stop = [at |-> "none", shown |-> [turn |-> 0, lost |-> 0], turn |-> 0]
    BY DEF Stops!Init, Stops!NoOp
  <2>2. 0 \in 0..TurnLimit /\ 0 \in Nat OBVIOUS
  <2>3. stop \in StopRecord
    <3>1. [turn |-> 0, lost |-> 0] \in Button BY <2>2 DEF Button
    <3> QED BY <2>1, <2>2, <3>1 DEF StopRecord
  <2>4. StopTypes BY <2>1, <2>2, <2>3 DEF StopTypes, StopRecord, Stops!Turns, Stops!Statuses
  <2>5. NewsTypes /\ OneTurn /\ SilentWhenDown /\ EndsComeLast /\ ShownAreRunning /\ AnswersAreAwaited
    BY <2>1 DEF NewsTypes, OneTurn, SilentWhenDown, EndsComeLast, ShownAreRunning, AnswersAreAwaited, Now
  <2>6. KnownAreMet BY <2>1 DEF KnownAreMet, Knows, Met, Gone
  <2>7. EndsFollow /\ NamesAreLive BY <2>1 DEF EndsFollow, NamesAreLive
  <2> QED BY <2>1, <2>4, <2>5, <2>6, <2>7 DEF StopInvariant, StopSound
<1>2. StopInvariant /\ [Stops!Next]_(Stops!vars) => StopInvariant'
  <2> SUFFICES ASSUME StopInvariant, [Stops!Next]_(Stops!vars) PROVE StopInvariant' OBVIOUS
  <2>0. StopSound /\ lied = FALSE /\ named = {} BY DEF StopInvariant
  <2>1. CASE UNCHANGED Stops!vars
    <3>1. UNCHANGED <<run, recorded, news, connected, state, active, announced, cached, stop, pressed, lied, named, lost>>
      BY <2>1 DEF Stops!vars, Stops!server, Stops!runtime
    <3> QED
      BY <2>0, <3>1 DEF StopInvariant, StopSound, StopTypes, NewsTypes, NewsLine, OneTurn, SilentWhenDown,
        KnownAreMet, EndsComeLast, ShownAreRunning, AnswersAreAwaited, EndsFollow, NamesAreLive, Button, Now,
        Knows, Tells, Met, Gone, SaysLive, SaysOver, Completes, Stops!Turns, Stops!Statuses
  <2>2. CASE Stops!TurnStarts \/ Stops!Materializes \/ Stops!TurnEnds \/ Stops!Reads \/ Stops!ReviewStarts
    <3>1. lied' = lied /\ named' = named
      BY <2>2 DEF Stops!TurnStarts, Stops!Materializes, Stops!TurnEnds, Stops!Reads, Stops!ReviewStarts
    <3> QED
      BY <2>0, <2>2, <3>1, TurnStartsKeeps, MaterializesKeeps, TurnEndsKeeps, ReadsKeeps, ReviewStartsKeeps
      DEF StopInvariant
  <2>3. CASE Stops!Event \/ Stops!Lose \/ Stops!Reconcile \/ Stops!ReviewCame
    <3>1. lied' = lied /\ named' = named BY <2>3 DEF Stops!Event, Stops!Lose, Stops!Reconcile, Stops!ReviewCame
    <3> QED BY <2>0, <2>3, <3>1, EventKeeps, LoseKeeps, ReconcileKeeps, ReviewCameKeeps DEF StopInvariant
  <2>4. CASE Stops!ReadCame
    <3>1. lied' = lied BY <2>4 DEF Stops!ReadCame
    <3> QED BY <2>0, <2>4, <3>1, ReadCameKeeps DEF StopInvariant
  <2>5. CASE Stops!Press \/ Stops!Interrupt \/ Stops!ReadFails \/ Stops!NotMaterialized \/ Stops!WaitEnds \/ Stops!Review
    <3>1. lied' = lied /\ named' = named
      BY <2>5 DEF Stops!Press, Stops!Interrupt, Stops!ReadFails, Stops!Fails, Stops!NotMaterialized,
        Stops!WaitEnds, Stops!Review
    <3> QED BY <2>0, <2>5, <3>1, OperationsKeep DEF StopInvariant
  <2>6. CASE Stops!Nothing
    <3>1. stop.at = "nothing" /\ lied' = (lied \/ Stops!Lie(stopped)) /\ named' = named
      BY <2>6 DEF Stops!Nothing, Stops!Succeeds
    <3>2. ~Stops!Lie(stopped) BY <2>0, <3>1, SuccessIsTrue
    <3>3. lied' = FALSE BY <2>0, <3>1, <3>2
    <3> QED BY <2>0, <2>6, <3>1, <3>3, OperationsKeep DEF StopInvariant
  <2>7. CASE Stops!Waits
    <3> DEFINE t == IF stop.turn # 0 THEN stop.turn ELSE active
    <3>1. stop.at = "waited" /\ cached' = cached BY <2>7 DEF Stops!Waits
    <3>2. t # 0 => cached[t] = "inProgress" BY <2>0, <3>1 DEF StopSound, NamesAreLive
    <3>3. CASE t # 0
      BY <2>0, <2>7, <3>1, <3>2, <3>3, OperationsKeep DEF Stops!Waits, Stops!Asks, StopInvariant
    <3>4. CASE t = 0
      <4>1. named' = named /\ IF state = "running" THEN lied' = lied ELSE lied' = (lied \/ Stops!Lie(stopped))
        BY <2>7, <3>4 DEF Stops!Waits, Stops!StillRuns, Stops!Running, Stops!Fails, Stops!Succeeds
      <4>2. lied' = FALSE BY <2>0, <4>1, SuccessIsTrue
      <4> QED BY <2>0, <2>7, <4>1, <4>2, OperationsKeep DEF StopInvariant
    <3> QED BY <3>3, <3>4
  <2>8. CASE Stops!Interrupted
    <3>1. named' = named /\ (lied' = lied \/ lied' = (lied \/ Stops!Lie(stopped \cup {run})))
      BY <2>8 DEF Stops!Interrupted, Stops!Succeeds, Stops!Fails
    <3>2. ~Stops!Lie(stopped \cup {run}) BY DEF Stops!Lie
    <3>3. lied' = FALSE BY <2>0, <3>1, <3>2
    <3> QED BY <2>0, <2>8, <3>1, <3>3, OperationsKeep DEF StopInvariant
  <2> QED BY <2>1, <2>2, <2>3, <2>4, <2>5, <2>6, <2>7, <2>8 DEF Stops!Next
<1>3. StopInvariant => Stops!StopIsHonest /\ Stops!NamesNoEndedTurn
  BY DEF StopInvariant, Stops!StopIsHonest, Stops!NamesNoEndedTurn
<1> QED BY <1>1, <1>2, <1>3, PTL DEF Stops!Spec
====
