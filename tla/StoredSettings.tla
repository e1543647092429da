---- MODULE StoredSettings ----
(*
What the service keeps of a session's model and access mode, and of the
skills and attachments its messages name: the rows of the database
(project default, override, settings of the last Turn, references), the
map SessionService.settings in memory, which is lost with the process,
and the settings the App Server holds and announces.

"model" stands for model, reasoning and service tier, which are kept
and resolved in the same way; "refs" for the references to skills and
to attachments.  A session has one operation at a time: its lock.
*)
EXTENDS Naturals, Sequences

CONSTANTS
    Sessions,           \* "parent", and "child" where it is forked
    Modes, Models,
    Messages,           \* client user message ids; each is sent once
    MaxChanges,         \* bound: changes of project, override, threads; announcements
    MaxLosses           \* bound: lost connections and restarts of the web server

VARIABLES
    project,    \* the project's default access mode
    row,        \* per session [there, override, last]
    settings,   \* SessionService.settings, Unset without an entry
    thread,     \* the settings of the loaded thread at the App Server
    op,         \* per session the operation that holds its lock
    lines,      \* what the App Server has written and the service not handled
    history,    \* per session the messages of its Turns
    refs,       \* rows of message_skill_refs and message_attachment_refs
    named,      \* the modes that Turns have named since the override was set
    chosen,     \* the model of the last Turn that was confirmed
    inherited,  \* the access mode that a Fork was created with
    changes, losses

vars == <<project, row, settings, thread, op, lines, history, refs, named, chosen,
          inherited, changes, losses>>

None == "none"
Unset == [mode |-> None, model |-> None]
Settings == [mode : Modes, model : Models]
NoOp == [kind |-> "free", at |-> "free", input |-> Unset, message |-> 0, with |-> Unset,
         had |-> Unset, cold |-> None, last |-> None]
DefaultModel == CHOOSE m \in Models : TRUE

Init ==
    /\ project \in Modes
    /\ row = [s \in Sessions |-> [there |-> s = "parent", override |-> None, last |-> None]]
    /\ settings = [s \in Sessions |-> Unset]
    /\ thread = [s \in Sessions |-> [mode |-> project, model |-> DefaultModel]]
    /\ op = [s \in Sessions |-> NoOp] /\ lines = <<>>
    /\ history = [s \in Sessions |-> {}] /\ refs = {}
    /\ named = [s \in Sessions |-> {}] /\ chosen = [s \in Sessions |-> None]
    /\ inherited = None /\ changes = 0 /\ losses = 0

Or(a, b) == IF a = None THEN b ELSE a

\* resolveSessionSettings
Resolve(input, current) ==
    [mode |-> Or(input.mode, Or(current.mode, project)),
     model |-> Or(input.model, Or(current.model, DefaultModel))]

\* The rows of a message's references: stored again they are overwritten.
Stored(s, m) == refs \cup {<<s, m>>}
Removed(s, known) == refs \ {<<s, m>> : m \in known}
Listed(s) == {m \in Messages : <<s, m>> \in refs}
\* The messages of a read whose skills and attachments are restored.
Restored(s) == history[s] \cap Listed(s)

\* mutant: a cold session falls back to the default of its project.
ColdModeOfProject(s) == project
\* coldAccessMode
ColdMode(s) == Or(row[s].override, project)

\* mutant: the App Server's word counts.
PreferredAnnounced(s, announced) == announced
\* withPreferredAccessMode
Preferred(s, announced) ==
    [announced EXCEPT !.mode = IF row[s].there THEN Or(row[s].override, project)
                               ELSE Or(settings[s].mode, announced.mode)]

----
(* Operations under the lock of the session *)

\* A message that nobody has sent yet.
Fresh == CHOOSE m \in 1..5 :
    LET used(k) == \E t \in Sessions : k \in history[t] \/ op[t].message = k \/ <<t, k>> \in refs
    IN  ~used(m) /\ \A k \in 1..(m - 1) : used(k)

Free(s) == op[s].kind = "free" /\ row[s].there

\* The request of resumeWithPreferredSettings, and what the service captures before it.
Resuming(s, o) == [o EXCEPT !.at = "resuming", !.had = settings[s], !.cold = ColdMode(s),
                            !.last = row[s].last]

Captured(o) == [o EXCEPT !.had = Unset, !.cold = None, !.last = None]

\* startTurn past ensureSessionSettings: what the Turn will run with is resolved,
\* then its skills are listed.
Listing(s, o) == [o EXCEPT !.at = "listing", !.with = Resolve(o.input, settings[s])]

StartTurn(s, input, m) ==
    LET o == [NoOp EXCEPT !.kind = "turn", !.input = input, !.message = m] IN
    /\ Free(s)
    /\ m = Fresh
    /\ op' = [op EXCEPT ![s] = IF settings[s] = Unset THEN Resuming(s, o) ELSE Listing(s, o)]
    /\ UNCHANGED <<project, row, settings, thread, lines, history, refs, named, chosen,
                   inherited, changes, losses>>

\* A read, and the resume after a reconnection; a scheduled prompt begins like a read.
Read(s) ==
    /\ Free(s)
    /\ op' = [op EXCEPT ![s] = Resuming(s, [NoOp EXCEPT !.kind = "read"])]
    /\ UNCHANGED <<project, row, settings, thread, lines, history, refs, named, chosen,
                   inherited, changes, losses>>
Scheduled(s, m) ==
    /\ Free(s)
    /\ m = Fresh
    /\ op' = [op EXCEPT ![s] = Resuming(s, [NoOp EXCEPT !.kind = "scheduled", !.message = m])]
    /\ UNCHANGED <<project, row, settings, thread, lines, history, refs, named, chosen,
                   inherited, changes, losses>>

\* The snapshot that a read or a scheduled prompt asks for after the resume.
SnapshotRead(s) ==
    /\ op[s].at = "reading"
    /\ op' = [op EXCEPT ![s] = IF @.kind = "scheduled" THEN Listing(s, @) ELSE NoOp]
    /\ UNCHANGED <<project, row, settings, thread, lines, history, refs, named, chosen,
                   inherited, changes, losses>>

\* resolveSkills and resolveAttachments return: the references are stored, turn/start goes out.
Send(s) ==
    /\ op[s].at = "listing"
    /\ op' = [op EXCEPT ![s].at = "sent"]
    /\ refs' = Stored(s, op[s].message)
    /\ named' = [named EXCEPT ![s] = @ \cup ({op[s].input.mode} \ {None})]
    /\ UNCHANGED <<project, row, settings, thread, lines, history, chosen, inherited,
                   changes, losses>>
\* UnknownSkillError, or an attachment that is gone: nothing was stored.
Unresolved(s) ==
    /\ op[s].at = "listing"
    /\ op' = [op EXCEPT ![s] = NoOp]
    /\ UNCHANGED <<project, row, settings, thread, lines, history, refs, named, chosen,
                   inherited, changes, losses>>

\* fork: the child gets the parent's settings; a cold parent is resumed first.
Fork ==
    LET o == [NoOp EXCEPT !.kind = "fork", !.with = settings["parent"]] IN
    /\ "child" \in Sessions /\ Free("parent") /\ ~row["child"].there
    /\ op' = [op EXCEPT !["parent"] = IF settings["parent"] = Unset THEN Resuming("parent", o)
                                     ELSE [o EXCEPT !.at = "sent"]]
    /\ UNCHANGED <<project, row, settings, thread, lines, history, refs, named, chosen,
                   inherited, changes, losses>>

----
(* The App Server *)

Line(kind, s, value) == [kind |-> kind, session |-> s, value |-> value]

\* It serves the request under way; requests of one session come one by one.
Asked(s) == op[s].at \in {"resuming", "sent"} /\ ~\E i \in 1..Len(lines) :
                lines[i].session = s /\ lines[i].kind # "settings"

ServeResume(s) ==
    LET o == op[s]
        asked == IF o.had # Unset THEN o.had ELSE [mode |-> o.cold, model |-> o.last] IN
    /\ Asked(s) /\ o.at = "resuming"
    /\ thread' = [thread EXCEPT ![s] = [mode |-> Or(asked.mode, @.mode), model |-> Or(asked.model, @.model)]]
    /\ lines' = Append(lines, Line("resumed", s, thread'[s]))
    /\ UNCHANGED <<project, row, settings, op, history, refs, named, chosen, inherited,
                   changes, losses>>
ServeTurn(s) ==
    /\ Asked(s) /\ op[s].at = "sent" /\ op[s].kind \in {"turn", "scheduled"}
    /\ op[s].message \notin history[s]
    /\ \/ /\ history' = [history EXCEPT ![s] = @ \cup {op[s].message}]
          /\ thread' = [thread EXCEPT ![s] = op[s].with]
          /\ lines' = Append(lines, Line("started", s, Unset))
       \/ /\ lines' = Append(lines, Line("refused", s, Unset))
          /\ UNCHANGED <<history, thread>>
    /\ UNCHANGED <<project, row, settings, op, refs, named, chosen, inherited, changes, losses>>
ServeFork ==
    /\ Asked("parent") /\ op["parent"].at = "sent" /\ op["parent"].kind = "fork"
    /\ thread' = [thread EXCEPT !["child"] = op["parent"].with]
    /\ history' = [history EXCEPT !["child"] = history["parent"]]
    /\ lines' = Append(lines, Line("forked", "parent", Unset))
    /\ UNCHANGED <<project, row, settings, op, refs, named, chosen, inherited, changes, losses>>
\* thread/settings/updated
Announce(s) ==
    /\ row[s].there /\ changes < MaxChanges
    /\ lines' = Append(lines, Line("settings", s, thread[s]))
    /\ changes' = changes + 1
    /\ UNCHANGED <<project, row, settings, thread, op, history, refs, named, chosen,
                   inherited, losses>>

----
(* What the service makes of a line *)

HandleSettings(s, value) ==
    /\ settings' = [settings EXCEPT ![s] = Preferred(s, value)]
    /\ UNCHANGED <<row, op, refs, chosen, inherited>>

\* The end of resumeWithPreferredSettings, with what it captured before its request.
HandleResumed(s, value) ==
    LET o == op[s]
        current == IF o.had # Unset THEN o.had
                   ELSE [mode |-> o.cold, model |-> Or(o.last, value.model)]
    IN  /\ settings' = [settings EXCEPT ![s] = current]
        /\ row' = IF history[s] # {} /\ o.last = None THEN [row EXCEPT ![s].last = current.model] ELSE row
        /\ op' = [op EXCEPT ![s] =
              CASE o.kind \in {"read", "scheduled"} -> Captured([o EXCEPT !.at = "reading"])
                [] o.kind = "turn" -> Captured([o EXCEPT !.at = "listing",
                                                        !.with = Resolve(o.input, current)])
                [] OTHER -> Captured([o EXCEPT !.at = "sent", !.with = current])]
        /\ UNCHANGED <<refs, chosen, inherited>>

HandleStarted(s) ==
    /\ row' = [row EXCEPT ![s].last = op[s].with.model]
    /\ settings' = [settings EXCEPT ![s] = op[s].with]
    /\ chosen' = [chosen EXCEPT ![s] = op[s].with.model]
    /\ op' = [op EXCEPT ![s] = NoOp]
    /\ UNCHANGED <<refs, inherited>>

\* mutant: the references of a prompt whose result is unknown go as well.
DroppedAlways(s, known) == {op[s].message}
\* The catch of startTurn: references go with a prompt that was refused.
Dropped(s, known) == IF known THEN {op[s].message} ELSE {}

HandleRefused(s) ==
    /\ refs' = Removed(s, Dropped(s, TRUE))
    /\ op' = [op EXCEPT ![s] = NoOp]
    /\ UNCHANGED <<row, settings, chosen, inherited>>

\* finalizeFork: the child's row has no override, its mode is in memory only.
HandleForked ==
    /\ settings' = [settings EXCEPT !["child"] = op["parent"].with]
    /\ row' = [row EXCEPT !["child"] = [there |-> TRUE, override |-> None, last |-> None]]
    /\ inherited' = op["parent"].with.mode
    /\ op' = [op EXCEPT !["parent"] = NoOp]
    /\ UNCHANGED <<refs, chosen>>

Handle ==
    /\ lines # <<>> /\ lines' = Tail(lines)
    /\ LET line == Head(lines) IN
        CASE line.kind = "settings" -> HandleSettings(line.session, line.value)
          [] line.kind = "resumed" -> HandleResumed(line.session, line.value)
          [] line.kind = "started" -> HandleStarted(line.session)
          [] line.kind = "refused" -> HandleRefused(line.session)
          [] OTHER -> HandleForked
    /\ UNCHANGED <<project, thread, history, named, changes, losses>>

----
(* The user, and what goes wrong *)

SetDefault(mode) ==
    /\ changes < MaxChanges /\ changes' = changes + 1 /\ project' = mode
    /\ UNCHANGED <<row, settings, thread, op, lines, history, refs, named, chosen,
                   inherited, losses>>

\* setAccessModeOverride
SetOverride(s, mode) ==
    /\ Free(s) /\ changes < MaxChanges /\ changes' = changes + 1
    /\ row' = [row EXCEPT ![s].override = mode]
    /\ settings' = [settings EXCEPT ![s] = [Resolve(Unset, @) EXCEPT !.mode = mode]]
    /\ named' = [named EXCEPT ![s] = {}]
    /\ UNCHANGED <<project, thread, op, lines, history, refs, chosen, inherited, losses>>

\* The connection is lost: resumes fail, and the result of a prompt is unknown; the App
\* Server may have started its Turn.  A Fork of unknown result is left out.
Lose ==
    /\ losses < MaxLosses /\ losses' = losses + 1
    /\ lines' = <<>> /\ op' = [s \in Sessions |-> IF op[s].at = "listing" THEN op[s] ELSE NoOp]
    /\ refs' = {ref \in refs : op[ref[1]].at = "sent" => ref[2] \notin Dropped(ref[1], FALSE)}
    /\ UNCHANGED <<project, row, settings, thread, history, named, chosen, inherited, changes>>

\* The web server stops and starts: what is in memory is gone, and its App Server with it.
Restart ==
    /\ losses < MaxLosses /\ losses' = losses + 1
    /\ settings' = [s \in Sessions |-> Unset] /\ lines' = <<>>
    /\ op' = [s \in Sessions |-> NoOp]
    /\ UNCHANGED <<project, row, thread, history, refs, named, chosen, inherited, changes>>

Next ==
    \/ \E s \in Sessions, m \in Messages :
        \/ \E mode \in Modes \cup {None}, model \in Models \cup {None} :
            StartTurn(s, [mode |-> mode, model |-> model], m)
        \/ Scheduled(s, m)
    \/ \E s \in Sessions : \/ Read(s) \/ SnapshotRead(s) \/ Send(s) \/ Unresolved(s)
                           \/ ServeResume(s) \/ ServeTurn(s) \/ Announce(s)
                           \/ \E mode \in Modes : SetOverride(s, mode)
    \/ Fork \/ ServeFork \/ Handle \/ Lose \/ Restart
    \/ \E mode \in Modes : SetDefault(mode)

Spec == Init /\ [][Next]_vars

TypeOK ==
    /\ project \in Modes
    /\ row \in [Sessions -> [there : BOOLEAN, override : Modes \cup {None}, last : Models \cup {None}]]
    /\ settings \in [Sessions -> Settings \cup {Unset}]
    /\ thread \in [Sessions -> Settings]
    /\ refs \subseteq Sessions \X Messages

\* A Turn that names no access mode, of a session whose user has chosen one, is sent with
\* that choice or with a mode another Turn has named since: announcements of older settings
\* under way, resumes, restarts and changes of the project do not widen it
\* (withPreferredAccessMode, resumeWithPreferredSettings).
ChoiceStaysStep ==
    \A s \in Sessions :
     op[s].at = "listing" /\ op'[s].at = "sent" /\ op[s].input.mode = None /\ row[s].override # None
     => op'[s].with.mode \in {row[s].override} \cup named[s]
ChoiceStays == [][ChoiceStaysStep]_vars

\* A message of a session's own that the App Server keeps is shown with its references,
\* whether or not the service learned that the Turn was started; a refused one leaves none
\* (catch of startTurn).
ReferencesFollow ==
    /\ \A s \in Sessions :
        \A m \in history[s] \ Restored(s) : s = "child" /\ m \in history["parent"]
    /\ losses = 0 => \A ref \in refs : ref[2] \in history[ref[1]] \/ op[ref[1]].message = ref[2]

\* What does not hold: a Fork stays in the access mode it was created with until its user
\* or its Turns name another.
ForkKeepsItsMode ==
    [][op["child"].at = "listing" /\ op'["child"].at = "sent" /\ op["child"].input.mode = None
       /\ row["child"].override = None
       => op'["child"].with.mode \in {inherited} \cup named["child"]]_vars

\* What does not hold: a Turn that names no model runs with the model of the last Turn
\* that was confirmed.
LastModelStays ==
    [][\A s \in Sessions :
        op[s].at = "listing" /\ op'[s].at = "sent" /\ op[s].input.model = None /\ chosen[s] # None
        => op'[s].with.model = chosen[s]]_vars
====
