---- MODULE LocalFiles ----
(*
The pictures and attachments of a history (attachment-store.ts).  A
picture an item shows is copied the first time the item is decorated
and served from the copy for ever; a link to a picture names a record
that holds the path and serves the file as it is.  The copy runs in one
synchronous call, but the program that owns the file writes meanwhile.
Attachments the App Server's history left out are put back from the
references the server keeps.

A file's content is a pair of halves, each of the version that wrote
it: whoever writes the file writes one half after the other.
*)
EXTENDS Naturals, Sequences, FiniteSets, SequencesExt

CONSTANTS
    Items,          \* items that show the picture
    Attachments,    \* the attachments of a message, in their order
    MaxVersions,    \* bound: times the file is written
    MaxCrashes      \* bound: times the server is killed

VARIABLES
    file,           \* the file: whether it exists, its halves, its time of change
    held,           \* contents the file has had
    copy,           \* the copy under way
    snapshot,       \* local-images: the copies, by item
    tokens,         \* localImageTokens: items whose copy the server knows
    offered,        \* items whose URL a page was given
    record,         \* local-paths: the link's record
    linked,         \* localPathTokens, localPathPaths: the server knows the link
    given,          \* a page was given the link's URL
    kept,           \* attachments the App Server's history has
    stored,         \* attachments that are still stored
    crashes,
    up

files == <<file, held>>
pictures == <<copy, snapshot, tokens, offered>>
links == <<record, linked, given>>
parts == <<kept, stored>>
vars == <<files, pictures, links, parts, crashes, up>>

NoCopy == [at |-> "none"]
Nothing == <<>>
Free == up /\ copy = NoCopy /\ record # "writing"

Init ==
    /\ file = [exists |-> FALSE, halves |-> <<0, 0>>, mtime |-> 0]
    /\ held = {} /\ copy = NoCopy
    /\ snapshot = [i \in Items |-> Nothing] /\ tokens = {} /\ offered = {}
    /\ record = "none" /\ linked = FALSE /\ given = FALSE
    /\ kept = ToSet(Attachments) /\ stored = ToSet(Attachments)
    /\ crashes = 0 /\ up = TRUE

----
(* The owner of the file. *)

Writes(halves) ==
    /\ file' = [exists |-> TRUE, halves |-> halves, mtime |-> file.mtime + 1]
    /\ held' = held \cup {halves}

Write ==
    /\ \/ file.halves[1] = file.halves[2] /\ file.halves[1] < MaxVersions
          /\ Writes(<<file.halves[1] + 1, file.halves[2]>>)
       \/ file.exists /\ file.halves[1] # file.halves[2] /\ Writes(<<file.halves[1], file.halves[1]>>)
    /\ UNCHANGED <<pictures, links, parts, crashes, up>>

Delete ==
    /\ file.exists /\ file.halves[1] = file.halves[2]
    /\ file' = [file EXCEPT !.exists = FALSE]
    /\ UNCHANGED <<held, pictures, links, parts, crashes, up>>

----
(* localImageUrl *)

Has(i) == snapshot[i] # Nothing
\* mutant: the copies of an earlier process are not looked for.
CopiedNow(i) == i \in tokens
Copied(i) == i \in tokens \/ Has(i)

Offer(i) ==
    /\ Free /\ Copied(i)
    /\ tokens' = tokens \cup {i} /\ offered' = offered \cup {i}
    /\ UNCHANGED <<files, copy, snapshot, links, parts, crashes, up>>

\* statSync: a file that is not there gives no URL.
BeginCopy(i) ==
    /\ Free /\ ~Copied(i) /\ file.exists
    /\ copy' = [at |-> "first", item |-> i, mtime |-> file.mtime, halves |-> <<>>]
    /\ UNCHANGED <<files, snapshot, tokens, offered, links, parts, crashes, up>>

\* copyFileSync reads one half after the other.
CopyHalf ==
    /\ copy.at \in {"first", "second"}
    /\ IF copy.at = "first" /\ ~file.exists
       THEN copy' = NoCopy
       ELSE copy' = [copy EXCEPT !.at = IF copy.at = "first" THEN "second" ELSE "copied",
                                 !.halves = Append(copy.halves, file.halves[Len(copy.halves) + 1])]
    /\ UNCHANGED <<files, snapshot, tokens, offered, links, parts, crashes, up>>

\* mutant: the second statSync is left out.
UnmovedAnyhow == TRUE
Unmoved == file.exists /\ file.mtime = copy.mtime

EndCopy ==
    /\ copy.at = "copied"
    /\ copy' = NoCopy
    /\ IF Unmoved
       THEN /\ snapshot' = [snapshot EXCEPT ![copy.item] = copy.halves]
            /\ tokens' = tokens \cup {copy.item} /\ offered' = offered \cup {copy.item}
       ELSE UNCHANGED <<snapshot, tokens, offered>>
    /\ UNCHANGED <<files, links, parts, crashes, up>>

----
(* localPathUrl, openLocalPath *)

BeginLink ==
    /\ Free /\ record = "none"
    /\ record' = "writing"
    /\ UNCHANGED <<files, pictures, linked, given, parts, crashes, up>>

\* mutant: any record will do.
ReadableIfThere == record \in {"whole", "partial"}
Readable == record = "whole"

\* The record is written, or one of an earlier process read.
Link ==
    /\ up /\ copy = NoCopy
    /\ \/ record = "writing" /\ record' = "whole"
       \/ (linked \/ Readable) /\ UNCHANGED record
    /\ linked' = TRUE /\ given' = TRUE
    /\ UNCHANGED <<files, pictures, parts, crashes, up>>

----
Crash ==
    /\ up /\ crashes < MaxCrashes
    /\ crashes' = crashes + 1 /\ up' = FALSE
    /\ copy' = NoCopy /\ tokens' = {} /\ linked' = FALSE
    /\ record' = IF record = "writing" THEN "partial" ELSE record
    /\ UNCHANGED <<files, snapshot, offered, given, parts>>

Start ==
    /\ ~up /\ up' = TRUE
    /\ UNCHANGED <<files, pictures, links, parts, crashes>>

\* The App Server's history leaves a part out; a stored attachment is taken away.
Lose ==
    /\ \/ \E part \in kept : kept' = kept \ {part} /\ UNCHANGED stored
       \/ \E part \in stored : stored' = stored \ {part} /\ UNCHANGED kept
    /\ UNCHANGED <<files, pictures, links, crashes, up>>

Next ==
    \/ Lose \/ Write \/ Delete \/ CopyHalf \/ EndCopy \/ BeginLink \/ Link \/ Crash \/ Start
    \/ \E i \in Items : Offer(i) \/ BeginCopy(i)

Spec == Init /\ [][Next]_vars

----
(* restoreThreadAttachments: content is what the App Server's history has *)
(* of a message, references what the server noted when it was sent. *)

\* mutant: what is there already is not looked at.
MissingAll(content, references) == references
Missing(content, references) == SelectSeq(references, LAMBDA part : ~Contains(content, part))
Restored(content, references) ==
    content \o SelectSeq(Missing(content, references), LAMBDA part : part \in stored)

----
TypeOK ==
    /\ DOMAIN file = {"exists", "halves", "mtime"}
    /\ held \subseteq (0..MaxVersions) \X (0..MaxVersions)
    /\ copy.at \in {"none", "first", "second", "copied"}
    /\ \A i \in Items : Has(i) => snapshot[i] \in (0..MaxVersions) \X (0..MaxVersions)
    /\ tokens \subseteq Items /\ offered \subseteq Items
    /\ record \in {"none", "writing", "partial", "whole"}
    /\ kept \cup stored \subseteq ToSet(Attachments)
    /\ {linked, given, up} \subseteq BOOLEAN /\ crashes \in 0..MaxCrashes

\* A picture is the file as it was at one moment, never parts of two versions,
\* although its owner may write it while it is copied; and a URL a page was given
\* always opens, whatever became of the file and however often the server was
\* restarted (attachment-store.ts localImageUrl, openLocalImage; openLocalPath).
PicturesAreWhole ==
    /\ \A i \in Items : Has(i) => snapshot[i] \in held
    /\ \A i \in offered : Has(i)
    /\ given => record = "whole"

\* A history that was shown keeps its pictures: the copy of an item is never
\* replaced, although the file is written again and the server forgets which
\* copies it has made (the browser keeps them a year, server.ts:420).
PicturesStayStep ==
    \A i \in Items : Has(i) => snapshot'[i] = snapshot[i]
PicturesStay == [][PicturesStayStep]_vars

\* Whatever part of a message the App Server's history has left out, the message
\* shows each attachment that is still stored, and none of them twice.
AttachmentsComeBack ==
    LET content == SelectSeq(Attachments, LAMBDA part : part \in kept)
        shown == Restored(content, Attachments)
    IN  ToSet(shown) = kept \cup stored /\ IsInjective(shown)

====
