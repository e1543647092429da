---- MODULE MCSmallParts ----
(*
The small parts of the program, checked side by side: each has a state
of its own and no calls to another one.  Which part a behaviour is
about is chosen at the start, and its state is in the first of the
variables v1, v2, ...: an INSTANCE says which variable of the part is
which of them.  A property of a part is asked of it alone.
*)
EXTENDS Integers, Sequences

CONSTANT Parts  \* the parts that are checked, of those below

VARIABLES part,
    v1, v2, v3, v4, v5, v6, v7, v8, v9, v10, v11, v12, v13, v14, v15, v16,
    v17, v18, v19, v20, v21, v22, v23

\* Two calls that may carry the same request id.
UsedRoutes == [c \in {"c1", "c2"} |->
    IF c = "c1" THEN {"turns", "saveFile", "restart"} ELSE {"turns"}]

\* Lines of agents' messages: what opens and ends mathematics, code and cards.
MessageLines ==
    {<<"x">>, <<"frac">>, <<"[">>, <<"]">>, <<"]", "x">>, <<"[", "frac", "]">>,
     <<"tex[">>, <<"tex]">>, <<"tex[", "x", "tex]">>, <<"three">>, <<"four">>, <<"::dir">>}

Requests == INSTANCE ClientRequests WITH
    Calls <- {"c1", "c2"}, Ids <- {1}, Used <- UsedRoutes, Bars <- {"lost"},
    MaxLives <- 2,
    locked <- v1, server <- v2, results <- v3, times <- v4, page <- v5,
    call <- v6

Histories == INSTANCE HistoryCache WITH
    Tabs <- {1, 2}, Sessions <- {"s", "t"}, Changing <- {"s"},
    MaxEntries <- 1, MaxTurns <- 2, MaxEdits <- 1,
    history <- v1, archived <- v2, edits <- v3, memory <- v4, disk <- v5,
    fetch <- v6

Details == INSTANCE SessionDetails WITH
    Sessions <- {"s"}, Forked <- {"s"}, Kinds <- {"read", "archive"},
    GoalLoads <- {"goals"}, ForkLoads <- {"forks"}, MaxChanges <- 2,
    MaxTroubles <- 0,
    thread <- v1, row <- v2, removed <- v3, life <- v4, snapshot <- v5,
    presence <- v6, loading <- v7, attempted <- v8, naming <- v9,
    unsure <- v10, job <- v11, lines <- v12, changes <- v13, troubles <- v14

Names == INSTANCE SessionDetails WITH
    Sessions <- {"s"}, Forked <- {"s"}, Kinds <- {"rename", "archive"},
    GoalLoads <- {"goals"}, ForkLoads <- {"forks"}, MaxChanges <- 3,
    MaxTroubles <- 1,
    thread <- v1, row <- v2, removed <- v3, life <- v4, snapshot <- v5,
    presence <- v6, loading <- v7, attempted <- v8, naming <- v9,
    unsure <- v10, job <- v11, lines <- v12, changes <- v13, troubles <- v14

Settings == INSTANCE StoredSettings WITH
    Sessions <- {"parent"}, Modes <- {"full", "read"}, Models <- {"m1"},
    Messages <- {1, 2}, MaxChanges <- 2, MaxLosses <- 1,
    project <- v1, row <- v2, settings <- v3, thread <- v4, op <- v5,
    lines <- v6, history <- v7, refs <- v8, named <- v9, chosen <- v10,
    inherited <- v11, changes <- v12, losses <- v13

Forks == INSTANCE StoredSettings WITH
    Sessions <- {"parent", "child"}, Modes <- {"full", "read"},
    Models <- {"m1"}, Messages <- {1}, MaxChanges <- 0, MaxLosses <- 0,
    project <- v1, row <- v2, settings <- v3, thread <- v4, op <- v5,
    lines <- v6, history <- v7, refs <- v8, named <- v9, chosen <- v10,
    inherited <- v11, changes <- v12, losses <- v13

Submission == INSTANCE Drafts WITH
    Texts <- {"a", "b"}, Files <- {"f"}, Ids <- {1}, LateSteers <- FALSE,
    Overtakes <- FALSE, MaxUnknown <- 1, MaxReloads <- 1,
    draft <- v1, injected <- v2, files <- v3, pending <- v4, bubbles <- v5,
    sent <- v6, aimed <- v7, call <- v8, answer <- v9, seen <- v10,
    shown <- v11, wire <- v12, runtime <- v13, turn <- v14, history <- v15,
    unknown <- v16, late <- v17, prefill <- v18, nextId <- v19, intent <- v20,
    typed <- v21, losses <- v22, reloads <- v23

Submissions == INSTANCE Drafts WITH
    Texts <- {"a", "b"}, Files <- {}, Ids <- {1, 2}, LateSteers <- FALSE,
    Overtakes <- FALSE, MaxUnknown <- 1, MaxReloads <- 0,
    draft <- v1, injected <- v2, files <- v3, pending <- v4, bubbles <- v5,
    sent <- v6, aimed <- v7, call <- v8, answer <- v9, seen <- v10,
    shown <- v11, wire <- v12, runtime <- v13, turn <- v14, history <- v15,
    unknown <- v16, late <- v17, prefill <- v18, nextId <- v19, intent <- v20,
    typed <- v21, losses <- v22, reloads <- v23

Tokens == INSTANCE TokenLedger WITH
    Keys <- {"in", "out"}, Priced <- {"a"}, Unpriced <- {"x"}, MaxUsed <- 1,
    MaxLines <- 2, MaxFaults <- 2,
    counter <- v1, running <- v2, lines <- v3, settings <- v4, last <- v5,
    ledger <- v6, older <- v7, used <- v8, fell <- v9, lossy <- v10,
    faults <- v11

Trees == INSTANCE ForkTrees WITH
    Sessions <- 1..3, MaxTurns <- 2,
    listed <- v1, born <- v2, parent <- v3, origin <- v4, cut <- v5,
    history <- v6, held <- v7

Titler == INSTANCE TitleWorker WITH
    Runs <- {1, 2}, MaxLines <- 2, MaxFaults <- 1,
    at <- v1, tail <- v2, outcome <- v3, asked <- v4, known <- v5,
    turns <- v6, requestIds <- v7, conn <- v8, server <- v9, lines <- v10,
    forwarded <- v11, late <- v12, faults <- v13

Code == INSTANCE CodeTabs WITH
    Tabs <- {1, 2}, Texts <- {"a", "b"}, MaxWrites <- 1, MaxLost <- 1,
    disk <- v1, tab <- v2, save <- v3, queue <- v4, raced <- v5, told <- v6,
    loss <- v7, writes <- v8, lost <- v9

Lists == INSTANCE SessionLists WITH
    Sessions <- {1, 2}, Doomed <- {1}, Titles <- {"a", "b"}, Wanted <- "b",
    Renamers <- {"sidebar", "pane"}, MaxChanges <- 2, MaxLoads <- 1,
    MaxLost <- 1,
    title <- v1, known <- v2, events <- v3, list <- v4, searching <- v5,
    rename <- v6, archive <- v7, removal <- v8, selected <- v9,
    suppressed <- v10, had <- v11, gone <- v12, overlapped <- v13,
    changes <- v14, loads <- v15, lost <- v16

Update == INSTANCE UpdatePage WITH
    MaxRuns <- 1, MaxInstances <- 2, MaxLost <- 1, Polls <- {"poll"},
    server <- v1, update <- v2, restart <- v3, password <- v4, uses <- v5,
    cookie <- v6, page <- v7, mark <- v8, monitor <- v9, load <- v10,
    asked <- v11, dialog <- v12, reloaded <- v13, own <- v14, excused <- v15,
    waits <- v16, lost <- v17

Messages == INSTANCE AgentMessages WITH
    Lines <- MessageLines, MaxLines <- 4, MaxLoose <- 3,
    lines <- v1

Answers == INSTANCE PendingAnswers WITH
    Pages <- {1, 2},
    Kinds <- {"approval", "permissions", "input", "form", "url"},
    MaxRequests <- 2, MaxLost <- 1,
    request <- v1, pending <- v2, card <- v3, post <- v4, got <- v5,
    count <- v6, lost <- v7

Switch == INSTANCE BackendSwitch WITH
    MaxSessions <- 3, MaxTexts <- 1, Files <- {"f"}, MaxFaults <- 1,
    PinsMeanwhile <- FALSE, Hasty <- FALSE,
    srv <- v1, mapped <- v2, name <- v3, pinned <- v4, begun <- v5,
    tombs <- v6, unsure <- v7, switch <- v8, ended <- v9, orphans <- v10,
    doubtful <- v11, at <- v12, disabled <- v13, post <- v14, draft <- v15,
    typed <- v16, files <- v17, uploads <- v18, texts <- v19, faults <- v20

Notices == INSTANCE CompletionNotices WITH
    Tabs <- {1, 2}, Loud <- {1}, Turns <- {1}, Listeners <- {"pointerdown"},
    MaxChanges <- 1,
    stored <- v1, granted <- v2, untold <- v3, enabled <- v4,
    permission <- v5, armed <- v6, asking <- v7, shown <- v8, hidden <- v9,
    sound <- v10, unlocks <- v11, inbox <- v12, alerts <- v13, changes <- v14

Commands == INSTANCE CommandRuns WITH
    Descendants <- {"node", "esbuild"},
    up <- v1, deaf <- v2, holders <- v3, signalled <- v4, code <- v5,
    reading <- v6, timer <- v7, timedOut <- v8, result <- v9

Stops == INSTANCE Interrupts WITH
    MaxTurns <- 3, MaxPresses <- 2, MaxLosses <- 1,
    run <- v1, stored <- v2, lines <- v3, up <- v4, state <- v5, active <- v6,
    announced <- v7, cached <- v8, op <- v9, pressed <- v10, stopped <- v11,
    lied <- v12, named <- v13, lost <- v14

Images == INSTANCE LocalFiles WITH
    Items <- {1, 2}, Attachments <- <<"a", "b">>, MaxVersions <- 2,
    MaxCrashes <- 1,
    file <- v1, held <- v2, copy <- v3, snapshot <- v4, tokens <- v5,
    offered <- v6, record <- v7, linked <- v8, given <- v9, kept <- v10,
    stored <- v11, crashes <- v12, up <- v13

Questions == INSTANCE AsyncQuestions WITH
    Titles <- {"scope", "limits"}, MaxItems <- 3,
    history <- v1, draft <- v2, sending <- v3, onItsWay <- v4, arrived <- v5,
    running <- v6

Metrics == INSTANCE MachineMetrics WITH
    Pages <- {1, 2}, CacheFor <- 2, Window <- 1, QueryLimit <- 2,
    StaleLimit <- 4, MaxTime <- 8,
    now <- v1, samples <- v2, cached <- v3, lastGpu <- v4, waiting <- v5,
    answer <- v6

----
\* The variables beyond the n-th, that the chosen part does not have.
Unused(n) ==
    /\ (n < 2 => v2 = 0) /\ (n < 3 => v3 = 0) /\ (n < 4 => v4 = 0)
    /\ (n < 5 => v5 = 0) /\ (n < 6 => v6 = 0) /\ (n < 7 => v7 = 0)
    /\ (n < 8 => v8 = 0) /\ (n < 9 => v9 = 0) /\ (n < 10 => v10 = 0)
    /\ (n < 11 => v11 = 0) /\ (n < 12 => v12 = 0) /\ (n < 13 => v13 = 0)
    /\ (n < 14 => v14 = 0) /\ (n < 15 => v15 = 0) /\ (n < 16 => v16 = 0)
    /\ (n < 17 => v17 = 0) /\ (n < 18 => v18 = 0) /\ (n < 19 => v19 = 0)
    /\ (n < 20 => v20 = 0) /\ (n < 21 => v21 = 0) /\ (n < 22 => v22 = 0)
    /\ (n < 23 => v23 = 0)
Keeps(n) ==
    /\ (n < 2 => v2' = 0) /\ (n < 3 => v3' = 0) /\ (n < 4 => v4' = 0)
    /\ (n < 5 => v5' = 0) /\ (n < 6 => v6' = 0) /\ (n < 7 => v7' = 0)
    /\ (n < 8 => v8' = 0) /\ (n < 9 => v9' = 0) /\ (n < 10 => v10' = 0)
    /\ (n < 11 => v11' = 0) /\ (n < 12 => v12' = 0) /\ (n < 13 => v13' = 0)
    /\ (n < 14 => v14' = 0) /\ (n < 15 => v15' = 0) /\ (n < 16 => v16' = 0)
    /\ (n < 17 => v17' = 0) /\ (n < 18 => v18' = 0) /\ (n < 19 => v19' = 0)
    /\ (n < 20 => v20' = 0) /\ (n < 21 => v21' = 0) /\ (n < 22 => v22' = 0)
    /\ (n < 23 => v23' = 0)

MCInit ==
    /\ part \in Parts
    /\ \/ part = "requests" /\ Requests!Init /\ Unused(6)
       \/ part = "histories" /\ Histories!Init /\ Unused(6)
       \/ part = "details" /\ Details!Init /\ Unused(14)
       \/ part = "names" /\ Names!Init /\ Unused(14)
       \/ part = "settings" /\ Settings!Init /\ Unused(13)
       \/ part = "forks" /\ Forks!Init /\ Unused(13)
       \/ part = "drafts" /\ Submission!Init /\ Unused(23)
       \/ part = "resent" /\ Submissions!Init /\ Unused(23)
       \/ part = "tokens" /\ Tokens!Init /\ Unused(11)
       \/ part = "trees" /\ Trees!Init /\ Unused(7)
       \/ part = "titles" /\ Titler!Init /\ Unused(13)
       \/ part = "code" /\ Code!Init /\ Unused(9)
       \/ part = "lists" /\ Lists!Init /\ Unused(16)
       \/ part = "update" /\ Update!Init /\ Unused(17)
       \/ part = "messages" /\ Messages!Init /\ Unused(1)
       \/ part = "answers" /\ Answers!Init /\ Unused(7)
       \/ part = "switch" /\ Switch!Init /\ Unused(20)
       \/ part = "notices" /\ Notices!Init /\ Unused(14)
       \/ part = "commands" /\ Commands!Init /\ Unused(9)
       \/ part = "interrupts" /\ Stops!Init /\ Unused(14)
       \/ part = "images" /\ Images!Init /\ Unused(13)
       \/ part = "questions" /\ Questions!Init /\ Unused(6)
       \/ part = "metrics" /\ Metrics!Init /\ Unused(6)

MCNext ==
    /\ part' = part
    /\ \/ part = "requests" /\ Requests!Next /\ Keeps(6)
       \/ part = "histories" /\ Histories!Next /\ Keeps(6)
       \/ part = "details" /\ Details!Next /\ Keeps(14)
       \/ part = "names" /\ Names!Next /\ Keeps(14)
       \/ part = "settings" /\ Settings!Next /\ Keeps(13)
       \/ part = "forks" /\ Forks!Next /\ Keeps(13)
       \/ part = "drafts" /\ Submission!Next /\ Keeps(23)
       \/ part = "resent" /\ Submissions!Next /\ Keeps(23)
       \/ part = "tokens" /\ Tokens!Next /\ Keeps(11)
       \/ part = "trees" /\ Trees!Next /\ Keeps(7)
       \/ part = "titles" /\ Titler!Next /\ Keeps(13)
       \/ part = "code" /\ Code!Next /\ Keeps(9)
       \/ part = "lists" /\ Lists!Next /\ Keeps(16)
       \/ part = "update" /\ Update!Next /\ Keeps(17)
       \/ part = "messages" /\ Messages!Next /\ Keeps(1)
       \/ part = "answers" /\ Answers!Next /\ Keeps(7)
       \/ part = "switch" /\ Switch!Next /\ Keeps(20)
       \/ part = "notices" /\ Notices!Next /\ Keeps(14)
       \/ part = "commands" /\ Commands!Next /\ Keeps(9)
       \/ part = "interrupts" /\ Stops!Next /\ Keeps(14)
       \/ part = "images" /\ Images!Next /\ Keeps(13)
       \/ part = "questions" /\ Questions!Next /\ Keeps(6)
       \/ part = "metrics" /\ Metrics!Next /\ Keeps(6)

mcVars == <<part,
            v1, v2, v3, v4, v5, v6, v7, v8, v9, v10, v11, v12, v13, v14, v15,
            v16, v17, v18, v19, v20, v21, v22, v23>>
MCSpec == MCInit /\ [][MCNext]_mcVars
----
(***************************************************************************)
(* What a part promises, of the chosen part; the definitions are in its *)
(* module. *)
(***************************************************************************)

\* What is sent again is carried out once: a request of the page by its id (ClientRequests),
\* an answer to a request of the App Server, which stays answerable until it has one
\* (PendingAnswers), a submission as a Turn (Drafts), the reload of a page for an update (UpdatePage).
CarriedOutOnce ==
    /\ part = "requests" => Requests!CarriedOutOnce /\ Requests!RetryIsSafe
    /\ part = "answers" => Answers!TypeOK /\ Answers!AnsweredOnce /\ Answers!StaysAnswerable
    /\ part = "drafts" => Submission!TypeOK /\ Submission!TurnsOnce
    /\ part = "resent" => Submissions!TypeOK /\ Submissions!TurnsOnce
    /\ part = "update" => Update!TypeOK /\ Update!ReloadsOnce

\* What a cache shows is or was so at the server: histories put together from what the
\* browser kept (HistoryCache), titles, Goals and roots of sessions that have gone and come
\* back (SessionDetails), lists of sessions (SessionLists).
CachesTellTheTruth ==
    /\ part = "histories" => Histories!ReconstructsTheHistory
    /\ part = "details" => Details!LateLoadsReviveNothing
    /\ part = "names" => Names!LateLoadsReviveNothing
    /\ part = "lists" => Lists!TypeOK /\ Lists!ArchivedStaysGone /\ Lists!FailedNamesLeave

\* What is shown of a message is what was meant by it: its author in a family of forks
\* (ForkTrees), its mathematics and cards (AgentMessages), the answer that was entered
\* (PendingAnswers), its questions (AsyncQuestions), its pictures (LocalFiles).
MessagesAreShownAsMeant ==
    /\ part = "trees" => Trees!TypeOK /\ Trees!FamilyIsWhole /\ Trees!AuthorsAreTrue
    /\ part = "messages" => Messages!TypeOK /\ Messages!MathIsMath /\ Messages!NothingIsLost /\ Messages!CardsAreNotCode
    /\ part = "answers" => Answers!SaysWhatWasMeant
    /\ part = "questions" => Questions!TypeOK /\ Questions!PendingIsUnanswered
    /\ part = "images" => Images!TypeOK /\ Images!PicturesAreWhole /\ Images!AttachmentsComeBack

\* What was typed and attached stays: while a submission is under way (Drafts), a file is
\* saved (CodeTabs), a session changes its backend (BackendSwitch); and that one remains.
InputIsKept ==
    /\ part = "drafts" => Submission!EditsStay /\ Submission!NoGhosts
    /\ part = "resent" => Submissions!EditsStay /\ Submissions!NoGhosts
    /\ part = "code" => Code!TypeOK /\ Code!SavedIsStored
    /\ part = "switch" => Switch!TypeOK /\ Switch!DraftIsKept /\ Switch!OneRemains

\* What the service keeps beside the App Server's history goes with it: references of
\* messages (StoredSettings) and what tokens cost (TokenLedger); a reading of the machine
\* is one for all and not old (MachineMetrics).
RecordsFollowTheHistory ==
    /\ part = "settings" => Settings!TypeOK /\ Settings!ReferencesFollow
    /\ part = "forks" => Forks!TypeOK /\ Forks!ReferencesFollow
    /\ part = "tokens" => Tokens!TypeOK /\ Tokens!UsedIsCountedOnce /\ Tokens!UnderItsModel /\ Tokens!AmountIsHonest
    /\ part = "metrics" => Metrics!TypeOK /\ Metrics!OneSampleForAll /\ Metrics!OldIsNotLive

\* What is over is over, and known to be: internal Turns that name sessions (TitleWorker),
\* commands of an update (CommandRuns), stopped Turns (Interrupts), updates and restarts a
\* page waits for (UpdatePage), Turns a notice is shown for (CompletionNotices).
EndsAreNoticed ==
    /\ part = "titles" =>
        Titler!TypeOK /\ Titler!GhostsComeLate /\ Titler!WaitsAreTimed /\ Titler!NothingLeftBehind
    /\ part = "commands" => Commands!TypeOK /\ Commands!LateIsOver /\ Commands!DoneIsDone
    /\ part = "interrupts" => Stops!TypeOK /\ Stops!StopIsHonest /\ Stops!NamesNoEndedTurn
    /\ part = "update" => Update!RunIsFollowed /\ Update!RestartIsSeen
    /\ part = "notices" => Notices!TypeOK /\ Notices!Considerate

\* What no step of a part takes back: the answer of a call, a name and an access mode that
\* were chosen, a draft, tokens that were counted, text that was typed or stored, a picture
\* that was shown, a session that was left, the sound of a notice, a question's answer.
NothingIsTakenBack ==
    [][ /\ part = "requests" => Requests!RefreshHelpsStep
        /\ part = "names" => Names!UserNameStaysStep
        /\ part = "settings" => Settings!ChoiceStaysStep
        /\ part = "forks" => Forks!ChoiceStaysStep
        /\ part = "drafts" => Submission!NothingLostStep
        /\ part = "resent" => Submissions!NothingLostStep
        /\ part = "tokens" => Tokens!NeverRefundsStep
        /\ part = "code" => Code!NothingOverwrittenStep /\ Code!EditsAreKeptStep
        /\ part = "lists" => Lists!OpensWhatStaysStep
        /\ part = "switch" => Switch!NameAndPinStayStep
        /\ part = "notices" => Notices!SoundIsHeardStep
        /\ part = "images" => Images!PicturesStayStep
        /\ part = "questions" => Questions!AnswersHoldStep ]_mcVars
====
