---- MODULE CodeTabs ----
(*
A text file that several tabs of the Code View edit: what each of them
has loaded and typed (CodeView.tsx), and the saves of the service, one
at a time for a file, which compare versions before they read, write a
copy, compare again and put it in the file's place (code-view.ts).
Other programs write the file whenever they like; an answer may be lost.

A text stands for its version (a hash).  Paths are resolved before they
are locked, so that a file has one lock whatever it is called.
*)
EXTENDS Naturals, Sequences, FiniteSets, SequencesExt

CONSTANTS
    Tabs,
    Texts,
    MaxWrites,   \* bound: writes of other programs
    MaxLost      \* bound: answers that are lost

VARIABLES
    disk,        \* what the file holds
    tab,         \* a tab: the text it has loaded, its content, the question about
                 \* unsaved changes, the request that is under way
    save,        \* a save of the service, by the tab that asked for it
    queue,       \* those that wait for the file's lock, and its holder first
    raced,       \* another program wrote between the last check and the rename
    told,        \* the text of which the tab says that it is saved
    loss,        \* may what was typed go: none, agreed (the question was answered),
                 \* typed (after the file was asked for)
    writes, lost

vars == <<disk, tab, save, queue, raced, told, loss, writes, lost>>

None == "none"
NoSave == [at |-> "none", next |-> None, expected |-> None]

\* useState: nothing is loaded yet.
Init ==
    /\ disk = CHOOSE text \in Texts : TRUE
    /\ tab = [t \in Tabs |-> [file |-> None, content |-> None, asks |-> FALSE, op |-> "none"]]
    /\ save = [t \in Tabs |-> NoSave] /\ queue = <<>> /\ raced = FALSE
    /\ told = [t \in Tabs |-> None]
    /\ loss = [t \in Tabs |-> "none"]
    /\ writes = 0 /\ lost = 0

Dirty(t) == tab[t].file # None /\ tab[t].content # tab[t].file
Busy(t) == tab[t].op # "none"

----
(* The tab *)

Type(t, text) ==
    /\ tab[t].file # None /\ text # tab[t].content
    /\ tab' = [tab EXCEPT ![t].content = text]
    /\ told' = [told EXCEPT ![t] = None]
    /\ loss' = [loss EXCEPT ![t] = IF tab[t].op = "load" THEN "typed" ELSE @]
    /\ UNCHANGED <<disk, save, queue, raced, writes, lost>>

StartLoad(t, how) ==
    /\ tab' = [tab EXCEPT ![t].asks = FALSE, ![t].op = IF Busy(t) THEN @ ELSE "load"]
    /\ loss' = [loss EXCEPT ![t] = IF Busy(t) THEN @ ELSE how]

\* mutant: an edited file is read again at once.
AsksNever(t) == FALSE
Asks(t) == Dirty(t)
\* guard: a file that was edited is left after the question only.
Reload(t) ==
    /\ ~Busy(t)
    /\ IF Asks(t)
       THEN tab' = [tab EXCEPT ![t].asks = TRUE] /\ UNCHANGED loss
       ELSE StartLoad(t, "none")
    /\ UNCHANGED <<disk, save, queue, raced, told, writes, lost>>
Discard(t) ==
    /\ tab[t].asks /\ StartLoad(t, "agreed")
    /\ UNCHANGED <<disk, save, queue, raced, told, writes, lost>>
KeepEditing(t) ==
    /\ tab[t].asks /\ tab' = [tab EXCEPT ![t].asks = FALSE]
    /\ UNCHANGED <<disk, save, queue, raced, told, loss, writes, lost>>

\* The answer of a read; it may be lost.
Loaded(t) ==
    /\ tab[t].op = "load"
    /\ \/ /\ tab' = [tab EXCEPT ![t].op = "none", ![t].file = disk, ![t].content = disk]
          /\ told' = [told EXCEPT ![t] = None] /\ UNCHANGED lost
       \/ /\ lost < MaxLost /\ lost' = lost + 1
          /\ tab' = [tab EXCEPT ![t].op = "none"] /\ UNCHANGED told
    /\ loss' = [loss EXCEPT ![t] = "none"]
    /\ UNCHANGED <<disk, save, queue, raced, writes>>

Save(t) ==
    /\ Dirty(t) /\ ~Busy(t) /\ save[t] = NoSave
    /\ tab' = [tab EXCEPT ![t].op = "save"]
    /\ save' = [save EXCEPT ![t] = [at |-> "locks", next |-> tab[t].content,
                                    expected |-> tab[t].file]]
    /\ queue' = Append(queue, t)
    /\ UNCHANGED <<disk, raced, told, loss, writes, lost>>

\* mutant: what the tab holds now is taken to be what was saved.
SavedNow(t) == tab[t].content
\* setFile(data): the text that was submitted.
SavedText(t) == save[t].next
Answered(t) ==
    /\ save[t].at \in {"done", "refused"}
    /\ \/ /\ save[t].at = "done" /\ tab[t].op = "save"
          /\ tab' = [tab EXCEPT ![t].op = "none", ![t].file = SavedText(t)]
          /\ told' = [told EXCEPT ![t] = save[t].next] /\ UNCHANGED lost
       \/ /\ save[t].at = "refused" /\ tab[t].op = "save"
          /\ tab' = [tab EXCEPT ![t].op = "none"] /\ UNCHANGED <<lost, told>>
       \/ /\ tab[t].op = "save" /\ lost < MaxLost /\ lost' = lost + 1
          /\ tab' = [tab EXCEPT ![t].op = "none"] /\ UNCHANGED told
    /\ save' = [save EXCEPT ![t] = NoSave]
    /\ UNCHANGED <<disk, queue, raced, loss, writes>>

----
(* CodeViewFiles.save *)

\* mutant: the saves of a file do not wait for one another.
AnyTurn(t) == TRUE
Turn(t) == Head(queue) = t
Ends(t, how) ==
    /\ save' = [save EXCEPT ![t].at = how]
    /\ queue' = Tail(queue)
Steps(t, from) == Contains(queue, t) /\ Turn(t) /\ save[t].at = from

\* A retry of a save that was done is done; one of an older text is refused.
Compare(t) ==
    /\ Steps(t, "locks")
    /\ IF disk = save[t].next THEN Ends(t, "done")
       ELSE IF disk # save[t].expected THEN Ends(t, "refused")
       ELSE save' = [save EXCEPT ![t].at = "writes"] /\ UNCHANGED queue
    /\ UNCHANGED <<disk, tab, raced, told, loss, writes, lost>>
\* mutant: the file is not looked at again once the copy is written.
UnchangedAnyhow(t) == TRUE
UnchangedSince(t) == disk = save[t].expected
\* The copy is written and synced.
CompareAgain(t) ==
    /\ Steps(t, "writes")
    /\ IF UnchangedSince(t)
       THEN save' = [save EXCEPT ![t].at = "renames"] /\ UNCHANGED queue
       ELSE Ends(t, "refused")
    /\ raced' = FALSE
    /\ UNCHANGED <<disk, tab, told, loss, writes, lost>>
Rename(t) ==
    /\ Steps(t, "renames") /\ disk' = save[t].next /\ Ends(t, "done")
    /\ raced' = FALSE /\ UNCHANGED <<tab, told, loss, writes, lost>>

OtherProgram(text) ==
    /\ writes < MaxWrites /\ writes' = writes + 1 /\ text # disk /\ disk' = text
    /\ raced' = (raced \/ \E t \in Tabs : save[t].at = "renames")
    /\ UNCHANGED <<tab, save, queue, told, loss, lost>>

Next ==
    \/ \E t \in Tabs :
        \/ \E text \in Texts : Type(t, text)
        \/ Reload(t) \/ Discard(t) \/ KeepEditing(t) \/ Loaded(t)
        \/ Save(t) \/ Answered(t) \/ Compare(t) \/ CompareAgain(t) \/ Rename(t)
    \/ \E text \in Texts : OtherProgram(text)

Spec == Init /\ [][Next]_vars

----
TypeOK ==
    /\ disk \in Texts
    /\ \A t \in Tabs :
        /\ {tab[t].file, tab[t].content} \subseteq Texts \cup {None}
        /\ tab[t].op \in {"none", "load", "save"}
        /\ save[t].at \in {"none", "locks", "writes", "renames", "done", "refused"}
    /\ IsInjective(queue)

\* A save puts its text in the place of the text it was edited from, and of no
\* other, unless another program wrote in the moment before.
NothingOverwrittenStep ==
    \A t \in Tabs : Rename(t) => raced \/ disk = save[t].expected
NothingOverwritten == [][NothingOverwrittenStep]_vars

\* A tab that says its text is saved shows the very text the service put into
\* the file, also if it was typed in while the save was under way.
SavedIsStored ==
    \A t \in Tabs : told[t] # None /\ ~Dirty(t) => tab[t].content = told[t]

\* What was typed goes away unasked only if it was typed after the file was
\* asked for; the editor is open then.
EditsAreKeptStep ==
    \A t \in Tabs : Dirty(t) /\ Loaded(t) /\ tab'[t].content # tab[t].content
       => loss[t] # "none"
EditsAreKept == [][EditsAreKeptStep]_vars

\* "Unsaved changes are pointed out when another file is opened" (README.md:74).
EditsNeverLost ==
    [][\A t \in Tabs : Dirty(t) /\ Loaded(t) /\ tab'[t].content # tab[t].content
          => loss[t] = "agreed"]_vars
====
