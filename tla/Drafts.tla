---- MODULE Drafts ----
(*
What a user has typed and attached in the Composer of one session until
it is part of the session: drafts, submissions and optimistic messages
(store.ts), attachments (attachment-drafts.ts), the send and the
resolution of what became of it (Composer.tsx), against a server that
steers, starts, refuses, or does not know.  Queued submissions are
ComposerQueue's.

The session's events come in order on "wire"; the answer of a request
comes beside them, and not before the events sent ahead of it unless
Overtakes.
*)
EXTENDS Naturals, Sequences, FiniteSets

CONSTANTS
    Texts, Files,
    Ids,            \* 1..n: client user message ids
    LateSteers,     \* a steer of unknown result may be applied after it was looked for
    Overtakes,      \* an answer may overtake events that were sent before it
    MaxUnknown,     \* bound: requests whose result gets lost
    MaxReloads

VARIABLES
    draft, injected, files,     \* the Composer: its text, the prefill it holds, its attachments
    pending,                    \* pendingSubmissions of the session
    bubbles,                    \* optimisticUserMessages of the session
    sent,                       \* submittedAttachmentIds
    aimed,                      \* steerDraftTurnId, 0 for none
    call,                       \* the mutation under way: its request
    answer,                     \* the answer on its way, behind so many events
    seen, shown,                \* the runtime with its Turn, and the messages that the page shows
    wire,
    runtime, turn, history, unknown, late, prefill,     \* the server and Codex
    nextId, intent,             \* ids given; per id the submission it belongs to
    typed,                      \* what the user typed since the submission, if it is another text
    losses, reloads

page == <<draft, injected, files, pending, bubbles, sent, aimed>>
server == <<runtime, turn, history, unknown, late, prefill>>
vars == <<page, call, answer, seen, shown, wire, server, nextId, intent, typed, losses, reloads>>

Empty == ""
NoCall == [kind |-> "none", as |-> "none", id |-> 0, turn |-> 0, text |-> Empty, files |-> {}]
NoAnswer == [what |-> "none", of |-> NoCall, behind |-> 0]
NoSubmission == [text |-> Empty, id |-> 0, state |-> "none"]
Bubble(id, state) == [id |-> id, state |-> state]

Init ==
    /\ draft = Empty /\ injected = Empty /\ files = {} /\ pending = NoSubmission /\ bubbles = {}
    /\ sent = {} /\ aimed = 0 /\ call = NoCall /\ answer = NoAnswer
    /\ runtime \in {"idle", "running"} /\ turn = 1 /\ seen = [state |-> runtime, turn |-> turn] /\ shown = {} /\ wire = <<>>
    /\ history = {} /\ unknown = NoCall /\ late = NoCall
    /\ prefill \in {Empty} \cup Texts
    /\ nextId = 1 /\ intent = [i \in Ids |-> i] /\ typed = Empty /\ losses = 0 /\ reloads = 0

Blocked == seen.state = "disconnected"
\* rememberSteerIntent: the draft is for the Turn that ran when it was begun.
Remembered == IF aimed = 0 /\ seen.state = "running" THEN seen.turn ELSE aimed
Applied(id) == \E m \in history : m.id = id

----
(* The store *)

WithBubble(bs, id, state) == {b \in bs : b.id # id} \cup {Bubble(id, state)}
\* mutant: a message that was found, or is not to be shown any more, stays.
WithoutBubblesNone(bs, ids) == bs
WithoutBubbles(bs, ids) == {b \in bs : b.id \notin ids}
\* unconfirmedOptimisticUserMessages
Visible == {b \in bubbles : b.id \notin shown}
Marked(bs, id, state) == {IF b.id = id THEN Bubble(id, state) ELSE b : b \in bs}

\* mutant: what is in the Composer is taken for what was sent.
ClearedAlways(text) == Empty
\* Only the draft that was submitted is cleared, not what the user made of it since.
Cleared(text) == IF draft = text THEN Empty ELSE draft

acceptSubmission ==
    IF pending = NoSubmission THEN UNCHANGED <<draft, pending, bubbles>>
    ELSE /\ draft' = Cleared(pending.text)
         /\ bubbles' = Marked(bubbles, pending.id, "queued")
         /\ pending' = NoSubmission
finishSubmission(clear) ==
    IF pending = NoSubmission THEN UNCHANGED <<draft, pending, bubbles>>
    ELSE /\ draft' = IF clear THEN Cleared(pending.text) ELSE draft
         /\ bubbles' = WithoutBubbles(bubbles, {pending.id})
         /\ pending' = NoSubmission
markSubmissionUncertain ==
    IF pending = NoSubmission THEN UNCHANGED <<draft, pending, bubbles>>
    ELSE /\ pending' = [pending EXCEPT !.state = "uncertain"]
         /\ bubbles' = Marked(bubbles, pending.id, "uncertain")
         /\ UNCHANGED draft

----
(* The user *)

Type(text) ==
    /\ ~Blocked /\ text # draft
    /\ draft' = text /\ injected' = Empty
    /\ aimed' = Remembered
    /\ typed' = IF text = pending.text THEN Empty ELSE text
    /\ UNCHANGED <<files, pending, bubbles, sent, call, answer, seen, shown, wire, server,
                   nextId, intent, losses, reloads>>
\* upload has ended; removeAttachment.
Attach(f) ==
    /\ ~Blocked /\ f \notin files /\ \A m \in history : f \notin m.files
    /\ f \notin call.files \cup unknown.files \cup late.files
    /\ files' = files \cup {f}
    /\ UNCHANGED <<draft, injected, pending, bubbles, sent, aimed, call, answer, seen, shown,
                   wire, server, nextId, intent, typed, losses, reloads>>
Detach(f) ==
    /\ f \in files /\ files' = files \ {f}
    /\ UNCHANGED <<draft, injected, pending, bubbles, sent, aimed, call, answer, seen, shown,
                   wire, server, nextId, intent, typed, losses, reloads>>

\* mutant: the text alone decides.
RetriesNot(kind) == FALSE
\* The same draft again after it was found not applied keeps its id, unless it steers.
Retries(kind) == kind = "turn" /\ pending.state = "retryReady" /\ pending.text = draft

\* submit, send.mutate: a steer while a Turn runs or of the remembered one, else a new Turn.
Submit ==
    LET kind == IF Remembered # 0 THEN "steer" ELSE "turn"
        id == IF Retries(kind) THEN pending.id ELSE nextId
        again == pending.state = "retryReady" /\ pending.text = draft IN
    /\ ~Blocked /\ call = NoCall /\ draft # Empty
    /\ id \in Ids
    /\ call' = [kind |-> kind, as |-> kind, id |-> id, turn |-> Remembered, text |-> draft, files |-> files]
    /\ aimed' = Remembered
    /\ sent' = files
    /\ pending' = [text |-> draft, id |-> id, state |-> "sending"]
    /\ bubbles' = WithBubble(bubbles, id, "sending")
    /\ nextId' = IF id = nextId THEN nextId + 1 ELSE nextId
    /\ intent' = [intent EXCEPT ![id] = IF again THEN intent[pending.id] ELSE id]
    /\ typed' = Empty
    /\ UNCHANGED <<draft, injected, files, answer, seen, shown, wire, server, losses, reloads>>

\* The button of the uncertain Turn.
Resolve ==
    /\ Blocked /\ call = NoCall
    /\ call' = [NoCall EXCEPT !.kind = "resolve"]
    /\ UNCHANGED <<page, answer, seen, shown, wire, server, nextId, intent, typed, losses, reloads>>

----
(* The server and Codex *)

Event(kind, state, t) == [kind |-> kind, state |-> state, turn |-> t, text |-> Empty]
Emit(events, what) ==
    /\ wire' = wire \o events
    /\ answer' = [what |-> what, of |-> call, behind |-> IF Overtakes THEN 0 ELSE Len(wire \o events)]
Asked == call.kind \in {"steer", "turn", "resolve"} /\ answer = NoAnswer

Message(c) == [id |-> c.id, as |-> c.as, text |-> c.text, files |-> c.files]
\* Codex takes a message id once.
Taken(c) == IF Applied(c.id) THEN history ELSE history \cup {Message(c)}

Same == UNCHANGED <<page, call, seen, shown, nextId, intent, typed, losses, reloads>>

Finished ==     \* 409 turn_finished
    /\ Asked /\ call.kind = "steer" /\ unknown = NoCall
    /\ ~(runtime = "running" /\ call.turn = turn)
    /\ Emit(<<>>, "finished")
    /\ Same /\ UNCHANGED server
Refuse ==
    /\ Asked /\ call.kind # "resolve"
    /\ Emit(<<>>, "refused")
    /\ Same /\ UNCHANGED server
Accept ==
    /\ Asked /\ unknown = NoCall
    /\ \/ call.kind = "turn" /\ runtime = "idle"
       \/ call.kind = "steer" /\ runtime = "running" /\ call.turn = turn
    /\ history' = Taken(call) /\ runtime' = "running" /\ prefill' = Empty
    /\ turn' = IF runtime = "running" THEN turn ELSE turn + 1
    /\ Emit(IF runtime = "running" THEN <<>> ELSE <<Event("started", "running", turn')>>, "ok")
    /\ Same /\ UNCHANGED <<unknown, late>>
\* The result is lost: Codex has the message, will have it, or never gets it.
LoseResult ==
    /\ Asked /\ call.kind # "resolve" /\ unknown = NoCall /\ losses < MaxUnknown
    /\ \/ call.kind = "turn" /\ runtime = "idle"
       \/ call.kind = "steer" /\ runtime = "running" /\ call.turn = turn
    /\ \/ history' = Taken(call) /\ late' = late
       \/ history' = history /\ late' = late
       \/ /\ call.kind = "turn" \/ LateSteers
          /\ late' = call /\ history' = history
    /\ unknown' = call /\ runtime' = "disconnected" /\ losses' = losses + 1
    /\ Emit(<<Event("runtime", "disconnected", turn)>>, "unknown")
    /\ UNCHANGED <<page, call, seen, shown, nextId, intent, typed, turn, prefill, reloads>>
LateApply ==
    /\ late # NoCall
    /\ history' = Taken(late) /\ late' = NoCall
    /\ IF runtime = "idle" /\ ~Applied(late.id)
       THEN /\ runtime' = "running" /\ turn' = turn + 1
            /\ wire' = Append(wire, Event("started", "running", turn'))
       ELSE UNCHANGED <<runtime, turn, wire>>
    /\ Same /\ UNCHANGED <<answer, unknown, prefill>>

After(state, t) == <<Event("applied", state, t), Event("runtime", state, t)>>
\* A Turn whose start was unknown is one more.
TurnOf == IF unknown.kind = "turn" THEN turn + 1 ELSE turn

\* A read that reconciles: the message is there, and its Turn runs or has ended.
Reconcile ==
    /\ unknown # NoCall /\ Applied(unknown.id)
    /\ \E state \in {"idle", "running"} :
        /\ runtime' = state /\ turn' = TurnOf /\ wire' = wire \o After(state, turn')
    /\ unknown' = NoCall /\ prefill' = Empty
    /\ Same /\ UNCHANGED <<answer, history, late>>

\* resolveUncertainTurn
ResolveServed ==
    /\ Asked /\ call.kind = "resolve"
    /\ unknown' = NoCall
    /\ \E state \in {"idle", "running"} :
        IF unknown = NoCall THEN runtime' = runtime /\ turn' = turn /\ Emit(<<>>, "alreadyResolved")
        ELSE IF Applied(unknown.id) THEN runtime' = state /\ turn' = TurnOf /\ Emit(After(state, turn'), "applied")
        ELSE /\ state = IF unknown.kind = "steer" THEN state ELSE "idle"
             /\ runtime' = state /\ turn' = turn
             /\ wire' = Append(wire, Event("runtime", state, turn))
             /\ answer' = [what |-> "notApplied", of |-> unknown,
                           behind |-> IF Overtakes THEN 0 ELSE Len(wire) + 1]
    /\ Same /\ UNCHANGED <<history, late, prefill>>

TurnEnds ==
    /\ runtime = "running"
    /\ runtime' = "idle" /\ wire' = Append(wire, Event("runtime", "idle", turn))
    /\ Same /\ UNCHANGED <<answer, turn, history, unknown, late, prefill>>

----
(* What the page makes of events and answers *)

\* consume: a started Turn takes the prefill with it, an applied one the submission.
Hear ==
    LET event == Head(wire) IN
    /\ wire # <<>> /\ wire' = Tail(wire)
    /\ answer' = [answer EXCEPT !.behind = IF @ > 0 THEN @ - 1 ELSE 0]
    /\ seen' = IF event.kind = "prefill" THEN seen ELSE [state |-> event.state, turn |-> event.turn]
    /\ CASE event.kind = "started" ->
              /\ draft' = IF injected # Empty /\ draft = injected THEN Empty ELSE draft
              /\ injected' = Empty /\ UNCHANGED <<pending, bubbles>>
         [] event.kind = "applied" -> acceptSubmission /\ UNCHANGED injected
         [] event.kind = "prefill" ->
              IF draft = Empty
              THEN draft' = event.text /\ injected' = event.text /\ UNCHANGED <<pending, bubbles>>
              ELSE UNCHANGED <<draft, injected, pending, bubbles>>
         [] OTHER -> UNCHANGED <<draft, injected, pending, bubbles>>
    /\ UNCHANGED <<files, sent, aimed, call, shown, server, nextId, intent, typed, losses, reloads>>

Ready == answer # NoAnswer /\ answer.behind = 0 /\ call # NoCall

\* A steer of a Turn that has ended becomes a Turn of its own, with the same message id.
SendInstead ==
    /\ Ready /\ answer.what = "finished"
    /\ call' = [call EXCEPT !.kind = "turn"] /\ answer' = NoAnswer /\ aimed' = 0
    /\ UNCHANGED <<draft, injected, files, pending, bubbles, sent, seen, shown, wire, server, nextId, intent, typed, losses, reloads>>

\* mutant: an attachment that came in while the prompt was sent goes with it.
AllSent == files
\* What leaves the Composer with an accepted prompt.
Sent == sent

HandleSend ==
    /\ Ready /\ call.kind \in {"steer", "turn"} /\ answer.what # "finished"
    /\ CASE answer.what = "ok" -> acceptSubmission /\ files' = files \ Sent /\ sent' = {}
         [] answer.what = "unknown" -> markSubmissionUncertain /\ UNCHANGED <<files, sent>>
         [] OTHER -> finishSubmission(FALSE) /\ UNCHANGED <<files, sent>>
    /\ aimed' = IF answer.what = "ok" THEN 0 ELSE aimed
    /\ call' = NoCall /\ answer' = NoAnswer
    /\ UNCHANGED <<injected, seen, shown, wire, server, nextId, intent, typed, losses, reloads>>

\* A page that does not know the submission any more begins it anew (beginSubmission).
markSubmissionRetryReady(restored) ==
    /\ pending' = [text |-> IF restored THEN answer.of.text ELSE pending.text,
                   id |-> answer.of.id, state |-> "retryReady"]
    /\ bubbles' = WithoutBubbles(bubbles, {pending.id, answer.of.id})

HandleResolve ==
    LET restored == answer.of.text # Empty /\ pending = NoSubmission IN
    /\ Ready /\ call.kind = "resolve"
    /\ CASE answer.what = "notApplied" ->
              /\ draft' = IF restored THEN answer.of.text ELSE draft
              /\ injected' = IF restored THEN Empty ELSE injected
              /\ markSubmissionRetryReady(restored)
         [] answer.what = "applied" -> finishSubmission(TRUE) /\ UNCHANGED injected
         [] OTHER -> UNCHANGED <<draft, injected, pending, bubbles>>
    /\ call' = NoCall /\ answer' = NoAnswer
    /\ UNCHANGED <<files, sent, aimed, seen, shown, wire, server, nextId, intent, typed, losses, reloads>>

\* The history is read, and reconcileOptimisticUserMessages.
Refetch ==
    /\ shown' = {m.id : m \in history} /\ shown' # shown
    /\ bubbles' = WithoutBubbles(bubbles, shown')
    /\ UNCHANGED <<draft, injected, files, pending, sent, aimed, call, answer, seen, wire,
                   server, nextId, intent, typed, losses, reloads>>

Current == [state |-> runtime, turn |-> turn]

\* The tab loads anew: attachments are in its sessionStorage, texts and submissions are not.
\* initialize puts the prefill of the session into an empty draft.
Reload ==
    /\ reloads < MaxReloads /\ reloads' = reloads + 1 /\ (call = NoCall \/ answer # NoAnswer)
    /\ draft' = prefill /\ injected' = prefill /\ pending' = NoSubmission /\ bubbles' = {} /\ sent' = {}
    /\ aimed' = 0
    /\ call' = NoCall /\ answer' = NoAnswer /\ wire' = <<>> /\ seen' = Current /\ typed' = Empty
    /\ UNCHANGED <<files, shown, server, nextId, intent, losses>>
\* The socket comes back: the snapshot's runtime and prefill.
Reconnect ==
    /\ reloads < MaxReloads /\ reloads' = reloads + 1
    /\ wire' = <<>> /\ seen' = Current /\ answer' = [answer EXCEPT !.behind = 0]
    /\ draft' = IF prefill = Empty THEN IF injected # Empty /\ draft = injected THEN Empty ELSE draft
                ELSE IF draft \in {Empty, injected} THEN prefill ELSE draft
    /\ injected' = IF prefill # Empty /\ draft \in {Empty, injected} THEN prefill
                   ELSE IF prefill = Empty THEN Empty ELSE injected
    /\ UNCHANGED <<files, pending, bubbles, sent, aimed, call, shown, server, nextId, intent, typed, losses>>
\* session.created of an empty Fork with a prefill.
Prefilled ==
    /\ prefill # Empty /\ wire = <<>> /\ nextId = 1 /\ injected = Empty /\ reloads = 0
    /\ wire' = <<[kind |-> "prefill", state |-> "none", turn |-> 0, text |-> prefill]>>
    /\ Same /\ UNCHANGED <<answer, server>>

Next ==
    \/ \E t \in Texts : Type(t)
    \/ \E f \in Files : Attach(f) \/ Detach(f)
    \/ Submit \/ Resolve
    \/ Finished \/ Refuse \/ Accept \/ LoseResult \/ LateApply \/ Reconcile \/ ResolveServed \/ TurnEnds
    \/ Hear \/ SendInstead \/ HandleSend \/ HandleResolve \/ Refetch
    \/ Reload \/ Reconnect \/ Prefilled

Spec == Init /\ [][Next]_vars

----

TypeOK ==
    /\ {draft, injected, typed, prefill} \subseteq Texts \cup {Empty} /\ files \subseteq Files
    /\ pending.state \in {"none", "sending", "uncertain", "retryReady"}
    /\ seen.state \in {"idle", "running", "disconnected"} /\ nextId \in Nat

\* What the user sent as a Turn is in the session as one Turn, also when its result was lost,
\* it was found not to be there, sent again, and comes late (retry of Composer's send).
TurnsOnce ==
    \A m, n \in history :
        intent[m.id] = intent[n.id] /\ m.as = "turn" /\ n.as = "turn" => m = n

\* What does not hold: it is in the session once.  When the late Turn is seen to run, the
\* retry is a steer, and gets a new id.
SubmittedOnce ==
    \A m, n \in history : intent[m.id] = intent[n.id] => m = n

\* What the user types after a submission stays until it is submitted: no answer, event or
\* snapshot about an earlier one takes it away (acceptSubmission, finishSubmission).  But for
\* the draft that a page which was loaded anew gets back with the result of the resolution.
EditsStay ==
    typed # Empty =>
        \/ draft = typed
        \/ reloads > 0 /\ pending.state = "retryReady" /\ draft = pending.text

\* A submission that is over is in the session, or still in the Composer: no text and no
\* attachment is lost on the way, and no attachment goes that was added later.
NothingLostStep ==
    pending.state = "sending" /\ pending'.state = "none" /\ reloads' = reloads
    => \/ Applied(pending.id) /\ files' \in {files, files \ call.files}
       \/ draft' = draft /\ files' = files
NothingLost == [][NothingLostStep]_vars

\* When nothing is under way and the history is shown, the only message shown beside it is
\* one whose result is unknown, and that is still the submission of the Composer.
NoGhosts ==
    call = NoCall /\ wire = <<>> /\ late = NoCall /\ shown = {m.id : m \in history}
    => \A b \in Visible : b.state = "uncertain" /\ pending.id = b.id
====
