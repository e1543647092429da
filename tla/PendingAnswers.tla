---- MODULE PendingAnswers ----
(*
The answer to a server request, from the card in which a user enters it
(PendingBanner.tsx) to the response that the App Server gets
(pending-requests.ts, CodexAdapter.respondPendingRequest).  The request
in the runtime of its thread is in RuntimeEvents.

One request at a time is modelled; each process of the App Server
counts its requests anew, so that the next has the same id.
*)
EXTENDS Naturals, Sequences

CONSTANTS
    Pages,       \* tabs
    Kinds,       \* of requests, of those in AllKinds
    MaxRequests, \* bound: requests
    MaxLost      \* bound: answers of the server that do not reach a page

VARIABLES
    request,     \* App Server: kind, live, responses to it
    pending,     \* the adapter has it in pendingRequests
    card,        \* per page: is the card there
    post,        \* per page: the POST of its card
    got,         \* ghost: the last response, and what its author had entered
    count, lost

vars == <<request, pending, card, post, got, count, lost>>

AllKinds == {"approval", "permissions", "input", "form", "url"}

\* The fields of the form: the type of each, and whether it is required.
Fields == {"name", "flag", "size", "tags"}
Required(kind) == CASE kind = "form" -> {"name"} [] kind = "input" -> {"name"} [] OTHER -> {}
AsksFor(kind) == CASE kind = "form" -> Fields [] kind = "input" -> {"name"} [] OTHER -> {}

Blank == "blank"       \* spaces
Empty == "empty"
Entries ==
    [name : {Empty, Blank, "v"}, flag : {FALSE}, size : {Empty}, tags : {<<>>}]
    \cup [name : {"v"}, flag : BOOLEAN, size : {"2", "nan"}, tags : {<<"a", "b">>}]
NoEntries == [name |-> Empty, flag |-> FALSE, size |-> Empty, tags |-> <<>>]

NoRequest == [kind |-> "none", live |-> FALSE, responses |-> 0]
NoPost == [at |-> "none", allow |-> FALSE, answers |-> <<>>, entries |-> NoEntries, of |-> 0]
Nothing == [content |-> NoEntries, meant |-> NoEntries]

Init ==
    /\ request = NoRequest /\ pending = FALSE /\ card = [p \in Pages |-> FALSE]
    /\ post = [p \in Pages |-> NoPost] /\ got = Nothing /\ count = 0 /\ lost = 0

----
(* The card *)

\* The button is enabled: input is trimmed for this, a form is not.
Complete(kind, e) ==
    CASE kind = "input" -> e.name \notin {Empty, Blank}
      [] kind = "form" -> e.name # Empty
      [] OTHER -> TRUE

\* String(value), trimmed, without what is empty then.
Words(e, f) ==
    CASE f = "name" -> IF e.name \in {Empty, Blank} THEN <<>> ELSE <<e.name>>
      [] f = "flag" -> <<IF e.flag THEN "true" ELSE "false">>
      [] f = "size" -> IF e.size = Empty THEN <<>> ELSE <<e.size>>
      [] f = "tags" -> e.tags
Encoded(kind, e) == [f \in {g \in AsksFor(kind) : Words(e, g) # <<>>} |-> Words(e, f)]

----
(* pendingRequestResponse *)

Decision(allow) == IF allow THEN "accept" ELSE "decline"

\* mutant: any word is taken for a yes.
AnyWord(words) == words # <<>>
Yes(words) == words[1] = "true"
Value(f, words) ==
    CASE f = "flag" -> Yes(words) [] f = "tags" -> words [] OTHER -> words[1]

\* elicitationResponse throws on these.
Throws(kind, allow, answers) ==
    /\ kind = "form" /\ allow
    /\ \/ \E f \in Required(kind) : f \notin DOMAIN answers
       \/ "size" \in DOMAIN answers /\ answers["size"] = <<"nan">>

Response(kind, allow, answers) ==
    CASE kind = "approval" -> [decision |-> Decision(allow)]
      [] kind = "permissions" -> [permissions |-> IF allow THEN "requested" ELSE "none"]
      [] kind = "url" -> [action |-> Decision(allow), content |-> <<>>]
      [] kind = "form" -> [action |-> Decision(allow), content |->
            IF allow THEN [f \in DOMAIN answers |-> Value(f, answers[f])] ELSE <<>>]
      [] kind = "input" -> [answers |-> IF allow THEN answers ELSE <<>>]

\* What the author of an answer entered, as the App Server is to read it.
Entered(kind, e) == {f \in AsksFor(kind) :
    CASE f = "name" -> e.name = "v" [] f = "flag" -> TRUE [] f = "size" -> e.size # Empty
      [] f = "tags" -> e.tags # <<>>}
Meant(kind, allow, e) ==
    CASE kind = "approval" -> [decision |-> Decision(allow)]
      [] kind = "permissions" -> [permissions |-> IF allow THEN "requested" ELSE "none"]
      [] kind = "url" -> [action |-> Decision(allow), content |-> <<>>]
      [] kind = "form" -> [action |-> Decision(allow), content |->
            IF allow THEN [f \in Entered(kind, e) |-> e[f]] ELSE <<>>]
      [] kind = "input" -> [answers |->
            IF allow THEN [f \in Entered(kind, e) |-> <<e[f]>>] ELSE <<>>]

----
(* Steps *)

\* The App Server asks; a request of a process that has ended is forgotten.
Ask(kind) ==
    /\ ~request.live /\ count < MaxRequests /\ count' = count + 1
    /\ request' = [kind |-> kind, live |-> TRUE, responses |-> 0] /\ pending' = TRUE
    /\ got' = Nothing /\ UNCHANGED <<card, post, lost>>

\* It answers the request itself or withdraws it (serverRequest/resolved), or ends.
Resolve ==
    /\ request.live /\ request' = [request EXCEPT !.live = FALSE] /\ pending' = FALSE
    /\ UNCHANGED <<card, post, got, count, lost>>

Shown(p) ==
    /\ pending /\ ~card[p] /\ card' = [card EXCEPT ![p] = TRUE]
    /\ UNCHANGED <<request, pending, post, got, count, lost>>
Hidden(p) ==
    /\ ~pending /\ card[p] /\ card' = [card EXCEPT ![p] = FALSE]
    /\ UNCHANGED <<request, pending, post, got, count, lost>>

\* With what is entered when the button is pressed.
Submit(p, allow, e) ==
    /\ card[p] /\ post[p].at = "none"
    /\ \A f \in Fields \ (IF allow THEN AsksFor(request.kind) ELSE {}) : e[f] = NoEntries[f]
    /\ allow => Complete(request.kind, e)
    /\ post' = [post EXCEPT ![p] =
          [at |-> "sent", allow |-> allow, entries |-> e, of |-> count,
           answers |-> IF allow THEN Encoded(request.kind, e) ELSE <<>>]]
    /\ UNCHANGED <<request, pending, card, got, count, lost>>

\* mutant: the request is forgotten before its response is made.
ForgottenFirst(throws) == TRUE
Forgotten(throws) == ~throws
\* mutant: it is not forgotten.
FoundAnyhow == request.live
Found == pending

\* respondPendingRequest, with once().
Serve(p) ==
    LET d == post[p]
        throws == Throws(request.kind, d.allow, d.answers)
    IN  /\ d.at = "sent"
        /\ IF ~Found THEN UNCHANGED <<request, pending, got>>
           ELSE /\ pending' = ~Forgotten(throws)
                /\ IF throws THEN UNCHANGED <<request, got>>
                   ELSE /\ request' = [request EXCEPT !.responses = @ + 1]
                        /\ got' = [content |-> Response(request.kind, d.allow, d.answers),
                                   meant |-> IF d.of = count
                                             THEN Meant(request.kind, d.allow, d.entries)
                                             ELSE Response(request.kind, d.allow, d.answers)]
        /\ post' = [post EXCEPT ![p].at = IF Found /\ ~throws THEN "done" ELSE "failed"]
        /\ UNCHANGED <<card, count, lost>>

\* The mutation ends; the card of an input that was sent stays disabled.
Answered(p) ==
    /\ \/ post[p].at = "failed" /\ UNCHANGED lost /\ post' = [post EXCEPT ![p] = NoPost]
       \/ /\ post[p].at = "done" /\ UNCHANGED lost
          /\ request.kind # "input" \/ ~card[p]
          /\ post' = [post EXCEPT ![p] = NoPost]
       \/ /\ post[p].at \in {"sent", "done"} /\ lost < MaxLost /\ lost' = lost + 1
          /\ post' = [post EXCEPT ![p] = NoPost]
    /\ UNCHANGED <<request, pending, card, got, count>>

Next ==
    \/ \E kind \in Kinds : Ask(kind)
    \/ Resolve
    \/ \E p \in Pages :
        \/ Shown(p) \/ Hidden(p) \/ Serve(p) \/ Answered(p)
        \/ \E allow \in BOOLEAN, e \in Entries : Submit(p, allow, e)

Spec == Init /\ [][Next]_vars

----
TypeOK ==
    /\ request.kind \in Kinds \cup {"none"} /\ request.responses \in Nat
    /\ pending \in BOOLEAN /\ (got # Nothing => request.responses > 0)
    /\ \A p \in Pages : post[p].at \in {"none", "sent", "done", "failed"}

\* The App Server gets at most one response to a request, whichever tabs answer
\* it and however often.
AnsweredOnce == request.responses <= 1

\* A request without a response can be answered, also after an answer that was
\* not good for it.
StaysAnswerable == request.live /\ request.responses = 0 => pending

\* The response says what its author entered into the card of that request.
SaysWhatWasMeant == got.content = got.meant
====
