---- MODULE MCServiceParts ----
(*
The parts of the service that share neither state nor calls with one
another, checked side by side: which one a behaviour is about is chosen
at the start, and the others rest.
*)
EXTENDS AppServerLink, FiniteSets

CONSTANTS
    Parents,        \* sessions a side chat is opened from
    MaxChats,       \* bound: ephemeral threads
    MaxRefusals,    \* bound: refused requests of side chats
    Files, Messages, Drafts,
    MaxCommits,     \* bound: commits of the branch the server updates itself to
    Procs,          \* bound: processes of pi at once, dying ones included
    MaxLines,       \* bound: lines under way from a process of pi
    AgyTurns        \* bound: Turns of agy

\* 0 stands for no process and for no commit.
ASSUME PartsAssumption ==
    /\ Drafts \subseteq SUBSET Files
    /\ MaxCommits \in Nat \ {0}
    /\ IsFiniteSet(Procs) /\ 0 \notin Procs

VARIABLES
    part,
    srv, seen, sock, http, memory, pageBudget,
    dir, saving, removing, message, has, pending, doubtful, unkept, up,
    chatLink, loaded, chats, create, close, doomed, orphans, main, birth,
    writing, chatBudget,
    status, saved, task, repo, process, restart, command, turn,
    pi, piLive, loading, op, reader, stored,
    agyTurns, agyStopping, agyProc, crashes,
    said, phase, over, linked, outages, snap, buffer, deltasOfServer, timeline,
    shownOver, deltasOfPage, touched, read

Page == INSTANCE LiveEvents WITH
    Opening <- FALSE, MaxChunks <- 1, MaxFlips <- 0, MaxFaults <- 1,
    page <- memory, budget <- pageBudget

Attachments == INSTANCE AttachmentFiles

Chats == INSTANCE SideChats WITH conn <- chatLink, budget <- chatBudget

Update == INSTANCE SelfUpdate WITH server <- process

Pi == INSTANCE PiBackend WITH
    Early <- FALSE, proc <- pi, live <- piLive

Agy == INSTANCE AgyBackend WITH
    MaxTurns <- AgyTurns, MaxCrashes <- 0, turns <- agyTurns, stopping <- agyStopping,
    proc <- agyProc

Text == INSTANCE StreamedText WITH
    Letters <- {"a", "b"}, Agents <- {1}, Commands <- {2}, MaxText <- 2,
    MaxOutages <- 0, LateOutput <- FALSE,
    live <- deltasOfServer, deltas <- deltasOfPage

Parts == {"link", "page", "attachments", "chats", "update", "pi", "agy", "text"}

pageVars == <<srv, seen, sock, http, memory, pageBudget>>
fileVars == <<dir, saving, removing, message, has, pending, doubtful, unkept, up>>
chatVars == <<chatLink, loaded, chats, create, close, doomed, orphans, main, birth,
              writing, chatBudget>>
updateVars == <<status, saved, task, repo, process, restart, command, turn>>
piVars == <<pi, piLive, loading, op, reader, stored>>
agyVars == <<agyTurns, agyStopping, agyProc, crashes>>
textVars == <<said, phase, over, linked, outages, snap, buffer, deltasOfServer,
              timeline, shownOver, deltasOfPage, touched, read>>
mcVars == <<part, vars, pageVars, fileVars, chatVars, updateVars, piVars, agyVars,
            textVars>>

MCInit ==
    /\ part \in Parts
    /\ Init /\ Page!Init /\ Attachments!Init /\ Chats!Init /\ Update!Init
    /\ Pi!Init /\ Agy!Init /\ Text!Init

linkRests == UNCHANGED vars
pageRests == UNCHANGED pageVars
filesRest == UNCHANGED fileVars
chatsRest == UNCHANGED chatVars
updateRests == UNCHANGED updateVars
piRests == UNCHANGED piVars
agyRests == UNCHANGED agyVars
textRests == UNCHANGED textVars

Step ==
    \/ /\ part = "link" /\ Next
       /\ pageRests /\ filesRest /\ chatsRest /\ updateRests /\ piRests
       /\ agyRests /\ textRests
    \/ /\ part = "page" /\ Page!Next
       /\ linkRests /\ filesRest /\ chatsRest /\ updateRests /\ piRests
       /\ agyRests /\ textRests
    \/ /\ part = "attachments" /\ Attachments!Next
       /\ linkRests /\ pageRests /\ chatsRest /\ updateRests /\ piRests
       /\ agyRests /\ textRests
    \/ /\ part = "chats" /\ Chats!Next
       /\ linkRests /\ pageRests /\ filesRest /\ updateRests /\ piRests
       /\ agyRests /\ textRests
    \/ /\ part = "update" /\ Update!Next
       /\ linkRests /\ pageRests /\ filesRest /\ chatsRest /\ piRests
       /\ agyRests /\ textRests
    \/ /\ part = "pi" /\ Pi!Next
       /\ linkRests /\ pageRests /\ filesRest /\ chatsRest /\ updateRests
       /\ agyRests /\ textRests
    \/ /\ part = "agy" /\ Agy!Next
       /\ linkRests /\ pageRests /\ filesRest /\ chatsRest /\ updateRests
       /\ piRests /\ textRests
    \/ /\ part = "text" /\ Text!Next
       /\ linkRests /\ pageRests /\ filesRest /\ chatsRest /\ updateRests
       /\ piRests /\ agyRests

MCNext == Step /\ part' = part

----
(***************************************************************************)
(* The fairness of each part (the part says what owes it), as long as it *)
(* is the part this behaviour is about. *)
(***************************************************************************)
On(name, action) == part = name /\ action

LinkFairness ==
    /\ WF_vars(On("link", \E i \in Conns : conn[i] = "closed" /\ Exit(i)))
    /\ WF_vars(On("link", Initialize)) /\ WF_vars(On("link", Settle))
    /\ WF_vars(On("link", Spawn)) /\ WF_vars(On("link", RetryTimer))

\* Of a process whose steps follow one another, the disjunction is fair.
PageFairness ==
    /\ WF_pageVars(On("page", Page!Accept))
    /\ WF_pageVars(On("page", Page!ServeRead \/ Page!ReadArrives))
    /\ WF_pageVars(On("page", \/ Page!Describe("snapshot") \/ Page!Answer("snapshot")
                             \/ Page!SnapshotArrives
                             \/ Page!RefreshEnds \/ Page!RefreshFails))
    /\ WF_pageVars(On("page", Page!Opens)) /\ WF_pageVars(On("page", Page!Receives))
    /\ WF_pageVars(On("page", sock.open /\ Page!Closes))
    /\ WF_pageVars(On("page", Page!TimerFires))

ChatsFairness ==
    /\ \A p \in Parents :
        WF_chatVars(On("chats", \/ Chats!Forked(p) \/ Chats!ForkRefused(p)
                               \/ Chats!Injected(p) \/ Chats!Registered(p)
                               \/ Chats!Cleaned(p)))
    /\ \A t \in Chats!Threads :
        /\ WF_chatVars(On("chats", Chats!RetryCleanup(t) \/ Chats!RetryAnswered(t)))
        /\ WF_chatVars(On("chats", Chats!Unsubscribed(t)))
        /\ WF_chatVars(On("chats", Chats!RemoveDoomed(t)))
    /\ WF_chatVars(On("chats", Chats!Initialized \/ Chats!ListDoomed \/ Chats!Reconciled))

UpdateFairness ==
    /\ WF_updateVars(On("update", Update!Task))
    /\ WF_updateVars(On("update", Update!RestartLaunched))
    /\ WF_updateVars(On("update", Update!RestartTimesOut))
    /\ WF_updateVars(On("update", Update!CommandStops))
    /\ WF_updateVars(On("update", Update!Boot)) /\ WF_updateVars(On("update", Update!Repair))

BackendsFairness ==
    /\ WF_piVars(On("pi", Pi!Steps))
    /\ \A p \in Procs :
        /\ WF_piVars(On("pi", Pi!Records(p))) /\ WF_piVars(On("pi", Pi!TimesOut(p)))
        /\ WF_piVars(On("pi", Pi!Dies(p))) /\ SF_piVars(On("pi", Pi!RunEnds(p)))
    /\ \A t \in 1..AgyTurns :
        /\ WF_agyVars(On("agy", Agy!ForceTimer(t)))
        /\ WF_agyVars(On("agy", Agy!KillTimer(t)))
        /\ WF_agyVars(On("agy", Agy!Finishes(t)))

MCSpec ==
    /\ MCInit /\ [][MCNext]_mcVars
    /\ LinkFairness /\ PageFairness /\ ChatsFairness
    /\ UpdateFairness /\ BackendsFairness
----
(***************************************************************************)
(* The promises of the parts; the definitions are in their modules. *)
(***************************************************************************)

\* AttachmentFiles: a file the App Server was told of is kept.  SelfUpdate: success is
\* reported by a process loaded from the new build.
TheDiskIsTrue == Attachments!SentStays /\ Update!SucceededIsLoaded

\* PiBackend and AgyBackend: a Turn that is stored as running has a process
\* that works on it, and no other process works on its session.
TurnsHaveTheirProcess == Pi!StoredIsWorkedOn /\ Pi!OneProcess /\ Agy!OneAtATime

\* LiveEvents and StreamedText: what the page shows is one moment of the
\* session, and the service and the page tell exactly what was said.  SideChats:
\* a side chat that is listed can be used.
ShownIsTrue ==
    /\ Chats!ListedAreAlive
    /\ Page!ShowsOneMoment
    /\ Text!SnapshotIsWhatWasSaid /\ Text!PageShowsWhatWasSaid

\* SideChats: recovery interrupts no other session's Turn; no ephemeral thread
\* stays behind that nothing will remove.
ChatsCostNothing ==
    Chats!RecoveryCostsNothing /\ (part = "chats" => Chats!NobodyIsLeft)

\* LiveEvents: a page whose socket or requests failed shows the truth again,
\* and a Turn that is over on it does not run again; StreamedText: a message
\* that was given up goes from the service and the page.
PageGetsInStep ==
    (part = "page" => Page!GetsInStep) /\ Page!OverIsOver /\ Text!GivenUpGoes

\* AppServerLink: the gate opens again after every fault, and closing the server
\* ends its App Server.  SelfUpdate: whatever phase was cut short, writes are
\* accepted again.  PiBackend and AgyBackend: a Turn ends, whatever its process
\* does once it is stopped.
PartsRecover ==
    /\ part = "link" => RecoversOrEnds
    /\ part = "update" => Update!WritesReturn
    /\ part \in {"pi", "agy"} => Pi!TurnsEnd /\ Agy!StopsEnd
====
