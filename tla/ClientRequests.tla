---- MODULE ClientRequests ----
(*
The calls of a page on the server: api.ts with its security context
(the session's cookie and the CSRF token, both of one life of the
server), the one refresh that all calls share and the one retry that
follows it; the hooks of server.ts that refuse a call before its route
runs; and RequestDeduplicator, which gives calls with the same request
id the result of one action.

A secret is the life it was made in, 0 is none.  A route stands for all
that the hooks and the deduplication treat alike.
*)
EXTENDS Naturals, FiniteSets

CONSTANTS
    Calls,      \* calls of api() and of request(..., false)
    Ids,        \* clientRequestIds; a call may repeat the id of another
    Used,       \* per call the routes it may be of
    Bars,       \* what may bar writes: "restart", "update", "lost" (the connection)
    MaxLives    \* bound: starts of the server

----
(* Routes.  In each group all with a clientRequestId go through once(). *)

Reads == {"session"}
SystemWrites == {"restart", "update", "preferences"}
ProjectWrites == {"project"}
SessionWrites == {"rename", "turns"}
AnswerWrites == {"answer"}

\* PUT of a file of the code view and of a schedule, upload and removal of an
\* attachment have no request id.
PlainWrites == {"saveFile", "schedule", "upload"}

Deduplicated == SystemWrites \cup ProjectWrites \cup SessionWrites \cup AnswerWrites
Writes == Deduplicated \cup PlainWrites

\* preHandler: what the App Server must be there for.
NeedsConnection == SessionWrites \cup AnswerWrites \cup {"schedule"}

\* The shared securityRefresh, and the bootstraps of App and the code view.
Bootstraps == {"refresh", "load"}
Everyone == Calls \cup Bootstraps

VARIABLES
    locked,     \* passwordRequired
    server,     \* up; life; what bars writes, or "no"
    results,    \* RequestDeduplicator.results
    times,      \* history: successes of an action that nothing has forgotten
    page,       \* the cookie and the csrfToken
    call        \* per call: its request, where caller and request are, its answer

vars == <<locked, server, results, times, page, call>>

Keys == (Deduplicated \cap UNION {Used[c] : c \in Calls}) \X Ids
Key(c) == <<call[c].route, call[c].id>>

NoCall ==
    [route |-> "bootstrap", id |-> 0, since |-> 0, retried |-> FALSE, at |-> "idle", req |-> "none",
     cookie |-> 0, token |-> 0, answer |-> "none", life |-> 0, reached |-> FALSE]

Init ==
    /\ locked \in BOOLEAN
    /\ server = [up |-> TRUE, life |-> 1, barred |-> "no"]
    /\ results = [k \in Keys |-> "none"] /\ times = [k \in Keys |-> 0]
    /\ page = [cookie |-> 0, token |-> 0]
    /\ call = [c \in Everyone |-> NoCall]

----
(* The page *)

\* mutant: a refreshed call goes out with the headers it had.
OldHeaders(c, p) ==
    [call[c] EXCEPT !.at = "waits", !.req = "wire", !.cookie = p.cookie]

\* The fetch of request().
Sent(c, p) ==
    [call[c] EXCEPT !.at = "waits", !.req = "wire", !.cookie = p.cookie, !.token = p.token]

\* endpoints.restartService is the one that asks for no refresh.
MayRefresh(c) == c \in Calls /\ call[c].route # "restart" /\ ~call[c].retried

\* What request() takes for an expired security context.
Expired(answer) == answer \in {"expired", "password"}

Start(c, route, id) ==
    /\ call[c].at = "idle" /\ page.token # 0
    /\ call' = [call EXCEPT ![c] = [NoCall EXCEPT
          !.route = route, !.id = id, !.since = server.life, !.at = "waits", !.req = "wire",
          !.cookie = page.cookie, !.token = page.token]]
    /\ UNCHANGED <<locked, server, results, times, page>>

Free(c) == call[c].at \in {"idle", "ended"}

\* App's bootstrapQuery, and its snapshots when the socket opens again; CodeView's
\* first load.
Load ==
    /\ Free("load") /\ page.token # server.life
    /\ call' = [call EXCEPT !["load"] = [NoCall EXCEPT
          !.at = "waits", !.req = "wire", !.cookie = page.cookie, !.token = page.token]]
    /\ UNCHANGED <<locked, server, results, times, page>>

\* authenticateWebUi, with the right password.
Login ==
    /\ locked /\ server.up /\ page.cookie # server.life
    /\ page' = [page EXCEPT !.cookie = server.life]
    /\ UNCHANGED <<locked, server, results, times, call>>

Ended(answer) == [NoCall EXCEPT !.at = "ended", !.answer = answer]

\* The refresh ends: with it all who await it.
RefreshEnds(calls, answer) ==
    [c \in Everyone |->
        IF calls[c].at # "refreshes" THEN calls[c]
        ELSE IF answer = "ok" THEN [calls[c] EXCEPT !.at = "resumes"]
        ELSE Ended(answer)]

\* The call ends with this answer.
Over(c, answer) ==
    LET calls == [call EXCEPT ![c] = Ended(answer)]
    IN  call' = IF c = "refresh" THEN RefreshEnds(calls, answer) ELSE calls

\* A response without a second chance; bootstrap() stores the token.
Receive(c) ==
    /\ call[c].at = "waits" /\ call[c].req = "answered"
    /\ ~(Expired(call[c].answer) /\ MayRefresh(c))
    /\ Over(c, call[c].answer)
    /\ page' = IF c \in Bootstraps /\ call[c].answer = "ok"
               THEN [cookie |-> IF locked THEN page.cookie ELSE call[c].life, token |-> call[c].life]
               ELSE page
    /\ UNCHANGED <<locked, server, results, times>>

\* securityRefresh ??= bootstrap()
AwaitRefresh(c) ==
    /\ call[c].at = "waits" /\ call[c].req = "answered"
    /\ Expired(call[c].answer) /\ MayRefresh(c)
    /\ call' = [d \in Everyone |->
          IF d = c THEN [call[c] EXCEPT !.at = "refreshes", !.req = "none", !.answer = "none"]
          ELSE IF d = "refresh" /\ Free(d)
               THEN [NoCall EXCEPT !.at = "waits", !.req = "wire", !.cookie = page.cookie, !.token = page.token]
               ELSE call[d]]
    /\ UNCHANGED <<locked, server, results, times, page>>

Resume(c) ==
    /\ call[c].at = "resumes"
    /\ call' = [call EXCEPT ![c] = [Sent(c, page) EXCEPT !.retried = TRUE]]
    /\ UNCHANGED <<locked, server, results, times, page>>

\* The connection fails: before the request was read, or with it under way.
Lose(c) ==
    /\ call[c].at = "waits"
    /\ LET told == [call EXCEPT ![c].at = "ended", ![c].answer = "lost"]
           gone == [call EXCEPT ![c] = Ended("lost")]
       IN  \E calls \in (IF call[c].req \in {"runs", "joins"} THEN {told}
                         ELSE IF call[c].req = "wire" THEN {told, gone} ELSE {gone}) :
              call' = IF c = "refresh" THEN RefreshEnds(calls, "lost") ELSE calls
    /\ UNCHANGED <<locked, server, results, times, page>>

----
(* The server *)

\* What the hooks answer in the place of the route.
Refusal(c) ==
    LET route == call[c].route
    IN  CASE route = "bootstrap" /\ ~locked -> "none"
        []   call[c].cookie # server.life -> IF locked THEN "password" ELSE "expired"
        []   route \notin Writes -> "none"
        []   call[c].token # server.life -> "expired"
        []   server.barred = "restart" -> "busy"
        []   server.barred = "update" /\ route # "update" -> "busy"
        []   route \in NeedsConnection /\ server.barred = "lost" -> "busy"
        []   OTHER -> "none"

\* The request is at this point of the server; its headers have been read.
Served(c, place) == [call[c] EXCEPT !.req = place, !.cookie = 0, !.token = 0]

\* (Nobody hears the answer to a call whose connection failed.)
Answered(c, answer) ==
    IF call[c].at = "ended" THEN Ended("lost")
    ELSE [Served(c, "answered") EXCEPT
            !.answer = answer, !.life = IF c \in Bootstraps THEN server.life ELSE 0]

Refuse(c) ==
    /\ server.up /\ call[c].req = "wire" /\ Refusal(c) # "none"
    /\ call' = [call EXCEPT ![c] = Answered(c, Refusal(c))]
    /\ UNCHANGED <<locked, server, results, times, page>>

\* GET /api/bootstrap and the other reads.
Read(c) ==
    /\ server.up /\ call[c].req = "wire" /\ call[c].route \notin Writes /\ Refusal(c) = "none"
    /\ call' = [call EXCEPT ![c] = Answered(c, "ok")]
    /\ UNCHANGED <<locked, server, results, times, page>>

\* RequestDeduplicator.run: there is a promise for this id.
Shared(c) == call[c].route \in Deduplicated /\ results[Key(c)] # "none"

Perform(c) ==
    /\ server.up /\ call[c].req = "wire" /\ call[c].route \in Writes /\ Refusal(c) = "none"
    /\ ~Shared(c)
    /\ call' = [call EXCEPT ![c] = [Served(c, "runs") EXCEPT !.reached = TRUE]]
    /\ results' = IF call[c].route \in Deduplicated THEN [results EXCEPT ![Key(c)] = "running"] ELSE results
    /\ UNCHANGED <<locked, server, times, page>>

Join(c) ==
    /\ server.up /\ call[c].req = "wire" /\ call[c].route \in Writes /\ Refusal(c) = "none"
    /\ Shared(c)
    /\ call' = [call EXCEPT ![c] =
          IF results[Key(c)] = "done" THEN [Answered(c, "ok") EXCEPT !.reached = TRUE]
          ELSE [Served(c, "joins") EXCEPT !.reached = TRUE]]
    /\ UNCHANGED <<locked, server, results, times, page>>

\* What run() keeps of an action: its result for five minutes, a failure not.
After(outcome) == IF outcome = "ok" THEN "done" ELSE "none"

\* The action of a route ends; the code view denies with a 403 of its own.
Finish(c, outcome) ==
    /\ call[c].req = "runs"
    /\ outcome = "denied" => call[c].route = "saveFile"
    /\ LET same == {d \in Calls : call[d].req = "joins" /\ Key(d) = Key(c)}
       IN  call' = [d \in Everyone |->
              IF d = c \/ (call[c].route \in Deduplicated /\ d \in same)
              THEN Answered(d, outcome) ELSE call[d]]
    /\ IF call[c].route \in Deduplicated
       THEN /\ results' = [results EXCEPT ![Key(c)] = After(outcome)]
            /\ times' = IF outcome = "ok" THEN [times EXCEPT ![Key(c)] = @ + 1] ELSE times
       ELSE UNCHANGED <<results, times>>
    /\ UNCHANGED <<locked, server, page>>

\* The five minutes have passed.
Forget(k) ==
    /\ results[k] = "done"
    /\ results' = [results EXCEPT ![k] = "none"] /\ times' = [times EXCEPT ![k] = 0]
    /\ UNCHANGED <<locked, server, page, call>>

Bar(why) ==
    /\ server.up /\ server.barred # why
    /\ server' = [server EXCEPT !.barred = why]
    /\ UNCHANGED <<locked, results, times, page, call>>

\* The process ends, with the results it remembers and the connections to it.
Stop ==
    /\ server.up /\ server.life < MaxLives
    /\ server' = [server EXCEPT !.up = FALSE]
    /\ results' = [k \in Keys |-> "none"] /\ times' = [k \in Keys |-> 0]
    /\ LET cut == [c \in Everyone |->
              IF call[c].at = "waits" \/ call[c].req # "none" THEN Ended("lost") ELSE call[c]]
       IN  call' = IF call["refresh"].at = "waits" THEN RefreshEnds(cut, "lost") ELSE cut
    /\ UNCHANGED <<locked, page>>

\* createServer makes new secrets.
Boot ==
    /\ ~server.up
    /\ server' = [up |-> TRUE, life |-> server.life + 1, barred |-> "no"]
    /\ UNCHANGED <<locked, results, times, page, call>>

Serve(c) == Refuse(c) \/ Read(c) \/ Perform(c) \/ Join(c)
Hear(c) == Receive(c) \/ AwaitRefresh(c) \/ Lose(c)

Next ==
    \/ \E c \in Calls : (\E r \in Used[c], id \in Ids : Start(c, r, id)) \/ Resume(c)
    \/ \E c \in Calls, outcome \in {"ok", "error", "denied"} : Finish(c, outcome)
    \/ \E c \in Everyone : Serve(c) \/ Hear(c)
    \/ \E k \in Keys : Forget(k)
    \/ \E why \in Bars \cup {"no"} : Bar(why)
    \/ Load \/ Login \/ Stop \/ Boot

\* Handlers end, answers arrive or their connection fails, and who runs the
\* server starts it again.
Fairness ==
    /\ \A c \in Everyone : WF_vars(Serve(c) \/ Hear(c)) /\ WF_vars(Resume(c))
    /\ \A c \in Calls : WF_vars(\E outcome \in {"ok", "error"} : Finish(c, outcome))
    /\ WF_vars(Boot)

Spec == Init /\ [][Next]_vars /\ Fairness

----
\* Until its result is forgotten, an action with a request id is carried out
\* once, however many calls carry the id: none runs beside another or after a
\* success; and what later calls are told of it is true.
CarriedOutOnce ==
    \A k \in Keys :
        /\ times[k] + Cardinality({c \in Calls : call[c].req = "runs" /\ Key(c) = k}) <= 1
        /\ results[k] = "done" <=> times[k] = 1

\* A call is sent again by itself only when its first request reached no route.
RetryIsSafe == \A c \in Calls : call[c].at \in {"refreshes", "resumes"} => ~call[c].reached

\* A call is told that the page's security context has expired only when it may
\* not refresh it, or when the server was started anew in the meantime.
RefreshHelpsStep ==
    \A c \in Calls :
       call'[c].at = "ended" /\ call[c].at # "ended" /\ call'[c].answer = "expired"
       => call[c].route = "restart" \/ call[c].since # server.life
RefreshHelps == [][RefreshHelpsStep]_vars

\* Every call is answered or fails: nobody waits for a refresh that waits for
\* itself.
CallsEnd == \A c \in Calls : call[c].at = "waits" ~> call[c].at = "ended"
====
