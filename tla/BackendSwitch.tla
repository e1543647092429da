---- MODULE BackendSwitch ----
(*
The backend of a session in which nothing has been said is changed
(SessionService.switchBackend, App.createSession): a session of the
other backend takes its name, its pin, its text and its files, and the
old one is archived.  One tab changes backends; the users of others pin
sessions and send prompts.  A creation with an unknown result is
SessionFamilies' business.
*)
EXTENDS Naturals, FiniteSets

CONSTANTS
    MaxSessions,   \* bound: sessions, the first included
    MaxTexts,      \* bound: texts that are typed
    Files,         \* that may be attached
    MaxFaults,     \* bound: requests that fail or whose answer is lost
    PinsMeanwhile, \* a pin changes during the switch
    Hasty          \* the user drops a file, or writes into the new session, meanwhile

VARIABLES
    srv,      \* per session: "none", "listed" or "archived" at its backend
    mapped,   \* it has a row, it is in the sidebar
    name,     \* its name at its backend; 0: none
    pinned,   \* of its row
    begun,    \* it has a Turn
    tombs,    \* archivedSessions
    unsure,   \* uncertainArchives
    switch,   \* the switchBackend under way: where it is, what it has read
    ended,    \* ghost: the last switch that succeeded, and the old session at its end
    orphans,  \* ghost: sessions a rollback could not archive
    doubtful, \* ghost: sessions whose archive had an unknown result
    at,       \* page: the session it shows; 0: none
    disabled, \* page: the composer is, for this mutation
    post,     \* page: sessionCreationInFlight and its answer
    draft,    \* page: per session the text that is not sent; 0: none
    typed,    \* ghost: what the user typed last
    files,    \* page: per session its attachments
    uploads,  \* page: per session, files on their way
    texts, faults

server == <<srv, mapped, name, pinned, begun, tombs, unsure, orphans, doubtful>>
page == <<at, disabled, post, draft, typed, files, uploads, texts>>
vars == <<server, switch, ended, page, faults>>

Sessions == 1..MaxSessions
NoSwitch == [at |-> "none", from |-> 1, to |-> 1, pinned |-> FALSE, name |-> 0, ends |-> "none"]
NoEnd == [to |-> 0, name |-> 0, pinned |-> FALSE]
NoPost == [at |-> "none", from |-> 1, to |-> 1, draft |-> 0]

Init ==
    /\ srv = [s \in Sessions |-> IF s = 1 THEN "listed" ELSE "none"]
    /\ mapped = {1} /\ begun = {} /\ tombs = {} /\ unsure = {} /\ orphans = {} /\ doubtful = {}
    /\ name \in {[s \in Sessions |-> IF s = 1 THEN n ELSE 0] : n \in {0, 7}}
    /\ pinned \in {{}, {1}}
    /\ switch = NoSwitch /\ ended = NoEnd
    /\ at = 1 /\ disabled = FALSE /\ post = NoPost
    /\ draft = [s \in Sessions |-> 0] /\ typed = 0 /\ texts = 0
    /\ files = [s \in Sessions |-> {}] /\ uploads = [s \in Sessions |-> {}] /\ faults = 0

Fault == faults < MaxFaults /\ faults' = faults + 1
Locked(s) == switch.at # "none" /\ switch.from = s
Fresh == {s \in Sessions : srv[s] = "none"}

----
(* The page *)

\* SessionPane: the button of another backend.
Click ==
    /\ at \in mapped /\ at \notin begun /\ ~disabled /\ uploads[at] = {}
    /\ post.at = "none"
    /\ post' = [at |-> "sent", from |-> at, to |-> at, draft |-> draft[at]] /\ disabled' = TRUE
    /\ UNCHANGED <<server, switch, ended, at, draft, typed, files, uploads, texts, faults>>

\* Another session is opened; its pane knows nothing of the switch.
Open(s) ==
    /\ s \in mapped \cup {0} /\ s # at /\ at' = s /\ disabled' = FALSE
    /\ UNCHANGED <<server, switch, ended, post, draft, typed, files, uploads, texts, faults>>

Expected(s) == Hasty \/ post.at = "none" \/ s = post.from
Type ==
    /\ at \in mapped /\ ~disabled /\ texts < MaxTexts /\ Expected(at)
    /\ texts' = texts + 1 /\ draft' = [draft EXCEPT ![at] = texts'] /\ typed' = texts'
    /\ UNCHANGED <<server, switch, ended, at, disabled, post, files, uploads, faults>>

\* A file that is dropped is not stopped by a disabled composer.
Upload(f) ==
    /\ at \in mapped /\ (Hasty \/ post.at = "none")
    /\ \A s \in Sessions : f \notin files[s] \cup uploads[s]
    /\ uploads' = [uploads EXCEPT ![at] = @ \cup {f}]
    /\ UNCHANGED <<server, switch, ended, at, disabled, post, draft, typed, files, texts, faults>>
Uploaded(s, f) ==
    /\ f \in uploads[s] /\ uploads' = [uploads EXCEPT ![s] = @ \ {f}]
    /\ files' = [files EXCEPT ![s] = @ \cup {f}]
    /\ UNCHANGED <<server, switch, ended, at, disabled, post, draft, typed, texts, faults>>

\* mutant: the text as it was when the button was pressed.
TextWhenAsked(s) == post.draft
TextNow(s) == draft[s]
\* The new session takes the draft of the old one, and its place if that is
\* still shown.
Answered ==
    /\ post.at = "done" /\ post' = NoPost
    /\ draft' = [draft EXCEPT ![post.to] = TextNow(post.from), ![post.from] = 0]
    /\ files' = [files EXCEPT ![post.to] = files[post.from], ![post.from] = {}]
    /\ IF at = post.from THEN at' = post.to /\ disabled' = FALSE ELSE UNCHANGED <<at, disabled>>
    /\ UNCHANGED <<server, switch, ended, typed, uploads, texts, faults>>
Failed ==
    /\ \/ post.at = "failed" /\ UNCHANGED faults
       \/ post.at = "sent" /\ switch.at # "none" /\ Hasty /\ Fault
    /\ post' = NoPost /\ disabled' = FALSE
    /\ UNCHANGED <<server, switch, ended, at, draft, typed, files, uploads, texts>>

----
(* Other tabs *)

Pin(s) ==
    /\ s \in mapped /\ (PinsMeanwhile \/ switch.at = "none")
    /\ pinned' = IF s \in pinned THEN pinned \ {s} ELSE pinned \cup {s}
    /\ UNCHANGED <<srv, mapped, name, begun, tombs, unsure, orphans, doubtful, switch, ended, page, faults>>

Prompt(s) ==
    /\ s \in mapped /\ ~Locked(s) /\ begun' = begun \cup {s}
    /\ UNCHANGED <<srv, mapped, name, pinned, tombs, unsure, orphans, doubtful, switch, ended, page, faults>>

----
(* switchBackend *)

Fails == post' = IF post.at = "sent" THEN [post EXCEPT !.at = "failed"] ELSE post

\* In the locks of project and session: what can be checked, and the read.
Refused(s) == s \notin mapped \/ s \in begun
Begin ==
    /\ post.at = "sent" /\ switch.at = "none"
    /\ IF Refused(post.from) THEN Fails /\ UNCHANGED switch
       ELSE /\ switch' = [NoSwitch EXCEPT !.at = "read", !.from = post.from,
                                          !.pinned = post.from \in pinned, !.name = name[post.from]]
            /\ UNCHANGED post
    /\ UNCHANGED <<server, ended, at, disabled, draft, typed, files, uploads, texts, faults>>

CreationFails ==
    /\ switch.at = "read" /\ (Fault \/ (Fresh = {} /\ UNCHANGED faults))
    /\ switch' = NoSwitch /\ Fails
    /\ UNCHANGED <<server, ended, at, disabled, draft, typed, files, uploads, texts>>

Create ==
    /\ switch.at = "read" /\ Fresh # {}
    /\ LET s == CHOOSE t \in Fresh : \A u \in Fresh : t <= u
       IN  /\ srv' = [srv EXCEPT ![s] = "listed"] /\ mapped' = mapped \cup {s}
           /\ switch' = [switch EXCEPT !.at = IF switch.name = 0 THEN "named" ELSE "created", !.to = s]
    /\ UNCHANGED <<name, pinned, begun, tombs, unsure, orphans, doubtful, ended, page, faults>>

Rename ==
    /\ switch.at = "created" /\ switch' = [switch EXCEPT !.at = "named"]
    /\ name' = [name EXCEPT ![switch.to] = switch.name]
    /\ UNCHANGED <<srv, mapped, pinned, begun, tombs, unsure, orphans, doubtful, ended, page, faults>>

\* mutant: the old session's pin is set again.
PinsOld == switch.from
PinsNew == switch.to
\* The pin, and archiveUnlocked up to its request.
AskArchive ==
    /\ switch.at = "named" /\ switch' = [switch EXCEPT !.at = "archiving"]
    /\ pinned' = IF switch.pinned THEN pinned \cup {PinsNew} ELSE pinned
    /\ tombs' = tombs \cup {switch.from}
    /\ UNCHANGED <<srv, mapped, name, begun, unsure, orphans, doubtful, ended, page, faults>>

Finish ==
    /\ switch.at = "archiving" /\ switch' = NoSwitch
    /\ srv' = [srv EXCEPT ![switch.from] = "archived"]
    /\ mapped' = mapped \ {switch.from} /\ pinned' = pinned \ {switch.from}
    /\ unsure' = unsure \ {switch.from}
    /\ ended' = [to |-> switch.to, name |-> name[switch.from], pinned |-> switch.from \in pinned]
    /\ post' = IF post.at = "sent" /\ post.from = switch.from
               THEN [post EXCEPT !.at = "done", !.to = switch.to] ELSE post
    /\ UNCHANGED <<name, begun, tombs, orphans, doubtful, at, disabled, draft, typed, files, uploads, texts, faults>>

\* A request fails, or its result is unknown: the new session is to go.
Fail ==
    /\ switch.at \in {"created", "archiving"} /\ Fault
    /\ switch' = [switch EXCEPT !.at = "rolling"]
    /\ \/ /\ tombs' = tombs \ (IF switch.at = "archiving" THEN {switch.from} ELSE {})
          /\ UNCHANGED <<srv, unsure, doubtful>>
       \/ /\ switch.at = "archiving" /\ unsure' = unsure \cup {switch.from} /\ UNCHANGED tombs
          /\ doubtful' = doubtful \cup {switch.from}
          /\ \/ UNCHANGED srv
             \/ srv' = [srv EXCEPT ![switch.from] = "archived"]
    /\ UNCHANGED <<mapped, name, pinned, begun, orphans, ended, page>>

\* mutant: its row stays.
Unmapped(s) == {}
RolledBack(s) == {s}
\* rollbackCreatedThread
Rollback ==
    /\ switch.at = "rolling" /\ switch' = NoSwitch /\ Fails
    /\ mapped' = mapped \ RolledBack(switch.to) /\ pinned' = pinned \ RolledBack(switch.to)
    /\ \/ srv' = [srv EXCEPT ![switch.to] = "archived"] /\ UNCHANGED <<orphans, faults>>
       \/ orphans' = orphans \cup {switch.to} /\ Fault /\ UNCHANGED srv
    /\ UNCHANGED <<name, begun, tombs, unsure, doubtful, ended, at, disabled, draft, typed, files, uploads, texts>>

----
(* What looks after sessions *)

\* recoverUncertainArchives, after the next reconnect.
Recover(s) ==
    /\ s \in unsure /\ ~Locked(s) /\ unsure' = unsure \ {s}
    /\ IF srv[s] = "archived" THEN mapped' = mapped \ {s} /\ pinned' = pinned \ {s} /\ UNCHANGED tombs
       ELSE tombs' = tombs \ {s} /\ UNCHANGED <<mapped, pinned>>
    /\ UNCHANGED <<srv, name, begun, orphans, doubtful, switch, ended, page, faults>>

\* A scan maps what is listed and has no tombstone.
Scan(s) ==
    /\ srv[s] = "listed" /\ s \notin mapped \cup tombs /\ ~Locked(s)
    /\ switch.at # "none" => s # switch.to
    /\ mapped' = mapped \cup {s}
    /\ UNCHANGED <<srv, name, pinned, begun, tombs, unsure, orphans, doubtful, switch, ended, page, faults>>

Next ==
    \/ Click \/ Type \/ Answered \/ Failed
    \/ \E s \in Sessions \cup {0} : Open(s)
    \/ \E s \in Sessions : Pin(s) \/ Prompt(s) \/ Recover(s) \/ Scan(s)
    \/ \E f \in Files : Upload(f) \/ \E s \in Sessions : Uploaded(s, f)
    \/ Begin \/ CreationFails \/ Create \/ Rename \/ AskArchive \/ Finish \/ Fail \/ Rollback

Spec == Init /\ [][Next]_vars

----
TypeOK ==
    /\ srv \in [Sessions -> {"none", "listed", "archived"}] /\ mapped \subseteq Sessions
    /\ pinned \subseteq mapped /\ begun \subseteq Sessions /\ tombs \cup unsure \cup orphans \cup doubtful \subseteq Sessions
    /\ switch.at \in {"none", "read", "created", "named", "archiving", "rolling"}
    /\ at \in Sessions \cup {0} /\ disabled \in BOOLEAN
    /\ post.at \in {"none", "sent", "done", "failed"} /\ draft \in [Sessions -> 0..MaxTexts]
    /\ files \in [Sessions -> SUBSET Files] /\ uploads \in [Sessions -> SUBSET Files]

\* However a switch ends, the sidebar has one session for it as before: the old
\* one, or the new one.  Only an archive with an unknown result may leave none,
\* and a new session that could not be archived either may turn up again.
OneRemains ==
    /\ Cardinality(mapped) <= Cardinality(orphans) + (IF switch.at = "none" THEN 1 ELSE 2)
    /\ mapped = {} => doubtful # {}

\* What the user has typed last and every file that was attached stay in a draft,
\* and after a switch in the draft of the session that is left.
DraftIsKept ==
    /\ typed # 0 => \E s \in Sessions : draft[s] = typed
    /\ \A s, t \in Sessions : s # t => files[s] \cap files[t] = {}
    /\ post.at = "none" /\ mapped # {} /\ typed # 0 /\ orphans = {} => \E s \in mapped : draft[s] = typed

\* A switch that has succeeded keeps the name and the pin.
NameAndPinStayStep ==
    ended' # ended =>
    name[ended'.to] = ended'.name /\ (ended'.to \in pinned <=> ended'.pinned)
NameAndPinStay == [][NameAndPinStayStep]_vars
====
