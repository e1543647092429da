---- MODULE AttachmentFiles ----
(*
Uploaded attachments (attachment-store.ts): a directory each, whose
metadata says whether a message has claimed it.  A message claims its
attachments before it goes to the App Server and releases them if it did
not get there (session-service.ts startTurn, steer,
resolveUncertainTurn); what is unclaimed can be removed, and expires.
Each operation reads the metadata and writes or deletes later; one that
fails for one file ends the request, and goes on for the others.

A directory is "none" yet, "partial" while its upload runs or after it
was cut, "free", "claimed", or "gone"; its name is never used again.
*)
EXTENDS Naturals, FiniteSets

CONSTANTS
    Files,          \* attachments that may be uploaded
    Messages,       \* messages that may be sent
    Drafts          \* what a message may have attached

VARIABLES
    dir,            \* the directories
    saving,         \* uploads in progress
    removing,       \* removals that have read that nobody claims the file
    message,        \* where each message is, what it has, what it saw unclaimed
    has,            \* messages that the App Server has
    pending,        \* those without an answer that it may take yet
    doubtful,       \* history: those of pending that were resolved as not applied
    unkept,         \* history: files whose claim was overtaken
    up              \* is the server running

disk == <<dir, saving, removing>>
taken == <<has, pending, doubtful>>
vars == <<disk, message, taken, unkept, up>>

----
Readable(f) == dir[f] \in {"free", "claimed"}
Unsent == [at |-> "unsent", files |-> {}, seen |-> {}, todo |-> {}]
OnItsWay(m) == message[m].at \in {"claiming", "asked", "uncertain", "releasing", "resolving"}

\* The messages, m aside, whose files are not to be released.
Rely(m) == {n \in Messages \ {m} : OnItsWay(n) \/ n \in (has \cup pending) \ doubtful}

\* POST /api/attachments: metadata comes last.
Upload(f) ==
    /\ up /\ dir[f] = "none"
    /\ dir' = [dir EXCEPT ![f] = "partial"]
    /\ saving' = saving \cup {f}
    /\ UNCHANGED <<removing, message, taken, unkept, up>>

Uploaded(f) ==
    /\ f \in saving
    /\ saving' = saving \ {f}
    /\ \E end \in {"free", "gone"} : dir' = [dir EXCEPT ![f] = end]
    /\ UNCHANGED <<removing, message, taken, unkept, up>>

\* resolvePromptAttachments reads them all; claim begins with each of them.  What is
\* sent to a session, where the files are, is sent one after the other (withLock); a
\* message goes again when it was resolved as not applied, or as a Turn, not a steer.
Send(m, files) ==
    /\ up /\ message[m].at \in {"unsent", "released"} /\ message[m].seen \cup message[m].todo = {}
    /\ message[m].at = "released" => files = message[m].files
    /\ \A f \in files : Readable(f)
    /\ \A n \in Messages \ {m} : message[n].files \cap files # {} => ~OnItsWay(n)
    /\ message' = [message EXCEPT ![m] = [at |-> "claiming", files |-> files, seen |-> {}, todo |-> files]]
    /\ UNCHANGED <<disk, taken, unkept, up>>

ClaimReads(m, f) ==
    /\ up /\ message[m].at \in {"claiming", "refused"} /\ f \in message[m].todo
    /\ message' = [message EXCEPT
            ![m].todo = @ \ {f},
            ![m].seen = IF dir[f] = "free" THEN @ \cup {f} ELSE @,
            ![m].at = IF Readable(f) THEN @ ELSE "refused"]
    /\ UNCHANGED <<disk, taken, unkept, up>>

\* One that fails refuses the message; the others are claimed all the same.
ClaimWrites(m, f) ==
    /\ up /\ message[m].at \in {"claiming", "refused"} /\ f \in message[m].seen
    /\ dir' = IF Readable(f) THEN [dir EXCEPT ![f] = "claimed"] ELSE dir
    /\ message' = [message EXCEPT ![m].seen = @ \ {f}, ![m].at = IF Readable(f) THEN @ ELSE "refused"]
    /\ UNCHANGED <<saving, removing, taken, unkept, up>>

Ask(m) ==
    /\ up /\ message[m].at = "claiming" /\ message[m].todo = {} /\ message[m].seen = {}
    /\ message' = [message EXCEPT ![m].at = "asked"]
    /\ UNCHANGED <<disk, taken, unkept, up>>

\* The catch of startTurn and steer: what is not uncertain did not get there.
Releases(answer) == answer = "refused"

\* turn/start or turn/steer is applied or not, and answers that or nothing; what was
\* not answered may be lost, there, or taken later.
Answered(m) ==
    /\ up /\ message[m].at = "asked"
    /\ \E answer \in {"applied", "refused", "unknown"} :
        /\ has' = IF answer = "applied" THEN has \cup {m} ELSE has
        /\ pending' \in IF answer = "unknown" THEN {pending, pending \cup {m}} ELSE {pending}
        /\ message' = [message EXCEPT
                ![m].at = IF Releases(answer) THEN "releasing" ELSE IF answer = "applied" THEN "sent" ELSE "uncertain",
                ![m].todo = IF Releases(answer) THEN message[m].files ELSE {}]
    /\ UNCHANGED <<disk, doubtful, unkept, up>>

TakesLate(m) ==
    /\ m \in pending
    /\ has' = has \cup {m} /\ pending' = pending \ {m}
    /\ UNCHANGED <<disk, message, doubtful, unkept, up>>

\* resolveUncertainTurn, or a snapshot that shows the Turn.
Resolve(m) ==
    /\ up /\ message[m].at = "uncertain"
    /\ message' = IF m \in has THEN [message EXCEPT ![m].at = "sent"]
                  ELSE [message EXCEPT ![m].at = "resolving", ![m].todo = message[m].files]
    /\ doubtful' = doubtful \cup ({m} \cap pending)
    /\ UNCHANGED <<disk, has, pending, unkept, up>>

\* releaseClaims; a file that is gone ends the request, which is then over or, in
\* resolveUncertainTurn, as uncertain as it was.
Releasing(m) == message[m].at \in {"releasing", "resolving", "released", "uncertain", "sent"}

Failed(at) == IF at = "releasing" THEN "released" ELSE IF at = "resolving" THEN "uncertain" ELSE at

ReleaseReads(m, f) ==
    /\ up /\ Releasing(m) /\ f \in message[m].todo
    /\ message' = [message EXCEPT
            ![m].todo = @ \ {f},
            ![m].seen = IF dir[f] = "claimed" THEN @ \cup {f} ELSE @,
            ![m].at = IF Readable(f) THEN @ ELSE Failed(@)]
    /\ UNCHANGED <<disk, taken, unkept, up>>

\* Nobody asks whether another message has the file.
ReleaseWrites(m, f) ==
    /\ up /\ Releasing(m) /\ f \in message[m].seen
    /\ dir' = IF Readable(f) THEN [dir EXCEPT ![f] = "free"] ELSE dir
    /\ message' = [message EXCEPT ![m].seen = @ \ {f}, ![m].at = IF Readable(f) THEN @ ELSE Failed(@)]
    /\ unkept' = IF \E n \in Rely(m) : f \in message[n].files THEN unkept \cup {f} ELSE unkept
    /\ UNCHANGED <<saving, removing, taken, up>>

Released(m) ==
    /\ up /\ message[m].at \in {"releasing", "resolving"} /\ message[m].todo = {} /\ message[m].seen = {}
    /\ message' = [message EXCEPT ![m].at = "released"]
    /\ UNCHANGED <<disk, taken, unkept, up>>

\* DELETE /api/attachments/f: removeDraft.
RemoveReads(f) ==
    /\ up /\ dir[f] = "free"
    /\ removing' = removing \cup {f}
    /\ UNCHANGED <<dir, saving, message, taken, unkept, up>>

\* The page removes beside a send of its own (Composer.tsx:583), the store beside a
\* claim.
RemoveDeletes(f) ==
    /\ f \in removing
    /\ removing' = removing \ {f}
    /\ dir' = [dir EXCEPT ![f] = "gone"]
    /\ unkept' = IF dir[f] = "claimed" THEN unkept \cup {f} ELSE unkept
    /\ UNCHANGED <<saving, message, taken, up>>

\* Who was on the way is answered by nobody; the claims stay.
Asked == {m \in Messages : message[m].at = "asked"}

Crash ==
    /\ up
    /\ up' = FALSE
    /\ saving' = {} /\ removing' = {}
    /\ message' = [m \in Messages |-> [message[m] EXCEPT !.seen = {}, !.todo = {},
            !.at = IF OnItsWay(m) THEN "sent" ELSE @]]
    /\ pending' = pending \cup Asked
    /\ UNCHANGED <<dir, has, doubtful, unkept>>

\* initialize: cleanupExpiredDrafts; which of them are a day old by then is open.
Expired(f) == dir[f] \in {"partial", "free"}

Boot ==
    /\ ~up
    /\ up' = TRUE
    /\ \E days \in SUBSET Files : dir' = [f \in Files |-> IF f \in days /\ Expired(f) THEN "gone" ELSE dir[f]]
    /\ UNCHANGED <<saving, removing, message, taken, unkept>>

Init ==
    /\ dir = [f \in Files |-> "none"]
    /\ saving = {} /\ removing = {}
    /\ message = [m \in Messages |-> Unsent]
    /\ has = {} /\ pending = {} /\ doubtful = {} /\ unkept = {}
    /\ up = TRUE

Next ==
    \/ \E f \in Files :
        Upload(f) \/ Uploaded(f) \/ RemoveReads(f) \/ RemoveDeletes(f)
    \/ \E m \in Messages :
        \/ \E files \in Drafts : Send(m, files)
        \/ \E f \in Files : ClaimReads(m, f) \/ ClaimWrites(m, f) \/ ReleaseReads(m, f) \/ ReleaseWrites(m, f)
        \/ Ask(m) \/ Answered(m) \/ TakesLate(m) \/ Resolve(m) \/ Released(m)
    \/ Crash \/ Boot

Spec == Init /\ [][Next]_vars

----
\* The attachments of a message that the App Server has stay on the disk and
\* cannot be removed ("an attachment that was sent cannot be deleted",
\* server.ts:410), whichever answers were lost and whenever the server stopped.
\* What the code leaves open is left out: a file whose claim was written between
\* the two steps of a removal or while another message released it (unkept), and a
\* message that the App Server takes after it was resolved as not applied, which
\* docs/V1_ACCEPTANCE.md:44 leaves to its deduplication (doubtful).
SentStays ==
    \A m \in has \ doubtful : \A f \in message[m].files \ unkept : dir[f] = "claimed"
====
