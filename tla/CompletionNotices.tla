---- MODULE CompletionNotices ----
(*
The notice and the sound a finished Turn gives (browser-notifications,
notification-sound, App): a switch kept in localStorage for all tabs,
the permission of the browser, what each tab has read of both, and an
audio element that a press of the user must unlock.  Each Turn is of a
session of its own; events that a tab misses give no notice.
*)
EXTENDS Naturals, FiniteSets

CONSTANTS
    Tabs,
    Loud,       \* the tabs whose sound is followed
    Turns,
    Listeners,  \* that unlock the sound, once each: "pointerdown", "keydown"
    MaxChanges  \* bound: toggles and revocations

VARIABLES
    stored,     \* localStorage: "enabled"
    granted,    \* Notification.permission
    untold,     \* tabs whose storage event is on its way
    enabled, permission,  \* per tab: the React state of both
    armed,      \* per tab: the listeners that unlock the sound
    asking,     \* tabs whose user is asked for permission
    shown,      \* per tab: the session in front; 0: none
    hidden,     \* tabs that are not visible
    sound,      \* per tab: the audio element
    unlocks,    \* per tab: playback versions of unlocks under way
    inbox,      \* per tab: Turns whose end it has still to hear of
    alerts,     \* ghost: the notices, and what was the case
    changes

switch == <<stored, granted, untold, enabled, permission, armed, asking>>
audio == <<sound, unlocks>>
view == <<shown, hidden>>
vars == <<switch, audio, view, inbox, alerts, changes>>

Silent == [plays |-> "no", muted |-> FALSE, version |-> 0]

Init ==
    /\ stored \in BOOLEAN /\ granted \in {"default", "granted"} /\ untold = {}
    /\ enabled = [t \in Tabs |-> stored] /\ permission = [t \in Tabs |-> granted]
    /\ armed = [t \in Tabs |-> IF stored /\ t \in Loud THEN Listeners ELSE {}] /\ asking = {}
    /\ shown = [t \in Tabs |-> 0] /\ hidden = {}
    /\ sound = [t \in Tabs |-> Silent] /\ unlocks = [t \in Tabs |-> {}]
    /\ inbox = [t \in Tabs |-> Turns] /\ alerts = {} /\ changes = 0

Change == changes < MaxChanges /\ changes' = changes + 1

----
(* The sound *)

\* unlockCompletionNotificationSound: played without a sound, for the browser to
\* see that the user wants it.
Unlocked(t) ==
    IF t \notin Loud THEN UNCHANGED audio
    ELSE /\ sound' = [sound EXCEPT ![t] = [plays |-> "muted", muted |-> TRUE, version |-> @.version + 1]]
         /\ unlocks' = [unlocks EXCEPT ![t] = @ \cup {sound'[t].version}]

\* playCompletionNotificationSound
Played(t) ==
    IF t \notin Loud THEN UNCHANGED sound
    ELSE sound' = [sound EXCEPT ![t] = [plays |-> "aloud", muted |-> FALSE, version |-> @.version + 1]]

\* mutant: whatever has been played since.
CurrentAnyhow(t, version) == TRUE
Current(t, version) == version = sound[t].version
\* play() of an unlock is answered, or refused.
UnlockSettles(t) ==
    \E v \in unlocks[t] :
        /\ unlocks' = [unlocks EXCEPT ![t] = @ \ {v}]
        /\ sound' = IF Current(t, v) THEN [sound EXCEPT ![t].plays = "no", ![t].muted = FALSE] ELSE sound
        /\ UNCHANGED <<switch, view, inbox, alerts, changes>>

SoundEnds(t) ==
    /\ sound[t].plays = "aloud" /\ sound' = [sound EXCEPT ![t].plays = "no"]
    /\ UNCHANGED <<switch, unlocks, view, inbox, alerts, changes>>

\* A press or a key, for the first time since the switch is on.
Press(t, l) ==
    /\ t \in Loud \ hidden /\ l \in armed[t] /\ Unlocked(t)
    /\ armed' = [armed EXCEPT ![t] = @ \ {l}]
    /\ UNCHANGED <<stored, granted, untold, enabled, permission, asking, view, inbox, alerts, changes>>

----
(* The switch *)

Shows(t, on) ==
    /\ enabled' = [enabled EXCEPT ![t] = on]
    /\ armed' = [armed EXCEPT ![t] = IF ~on \/ t \notin Loud THEN {} ELSE IF enabled[t] THEN @ ELSE Listeners]
Stores(t, on) ==
    /\ stored' = on
    /\ untold' = IF stored = on THEN untold ELSE untold \cup (Tabs \ {t})

ControlState(t) ==
    IF permission[t] = "denied" THEN "blocked"
    ELSE IF enabled[t] /\ permission[t] = "granted" THEN "enabled" ELSE "disabled"

\* toggleTurnNotifications
TurnOff(t) ==
    /\ t \notin hidden /\ ControlState(t) = "enabled" /\ Change
    /\ Stores(t, FALSE) /\ Shows(t, FALSE)
    /\ UNCHANGED <<granted, permission, asking, audio, view, inbox, alerts>>
TurnOn(t) ==
    /\ t \notin hidden \cup asking /\ ControlState(t) = "disabled" /\ Change
    /\ asking' = asking \cup {t} /\ Unlocked(t)
    /\ UNCHANGED <<stored, granted, untold, enabled, permission, armed, view, inbox, alerts>>
Asked(t) ==
    /\ t \in asking /\ asking' = asking \ {t}
    /\ granted' \in IF granted = "default" THEN {"default", "granted", "denied"} ELSE {granted}
    /\ permission' = [permission EXCEPT ![t] = granted']
    /\ IF granted' = "granted" THEN Stores(t, TRUE) /\ Shows(t, TRUE) /\ Played(t) /\ UNCHANGED unlocks
       ELSE UNCHANGED <<stored, untold, enabled, armed, audio>>
    /\ UNCHANGED <<view, inbox, alerts, changes>>

\* The user takes the permission back in the browser's settings.
Revoke ==
    /\ granted = "granted" /\ granted' = "denied" /\ Change
    /\ UNCHANGED <<stored, untold, enabled, permission, armed, asking, audio, view, inbox, alerts>>

\* mutant: the listener for "storage" is missing.
RereadsNot(t) == UNCHANGED <<enabled, armed>>
Rereads(t) == Shows(t, stored)
\* refreshNotificationState on "storage", and on "focus".
Storage(t) ==
    /\ t \in untold /\ untold' = untold \ {t} /\ Rereads(t)
    /\ permission' = [permission EXCEPT ![t] = granted]
    /\ UNCHANGED <<stored, granted, asking, audio, view, inbox, alerts, changes>>
Focus(t) ==
    /\ hidden' = hidden \ {t} /\ Shows(t, stored)
    /\ permission' = [permission EXCEPT ![t] = granted]
    /\ UNCHANGED <<stored, granted, untold, asking, audio, shown, inbox, alerts, changes>>

Hide(t) ==
    /\ hidden' = hidden \cup {t} /\ t \notin hidden
    /\ UNCHANGED <<switch, audio, shown, inbox, alerts, changes>>
Open(t, s) ==
    /\ t \notin hidden /\ shown' = [shown EXCEPT ![t] = s] /\ s # shown[t]
    /\ UNCHANGED <<switch, audio, hidden, inbox, alerts, changes>>

----
(* turn.completed *)

ShouldNotify(t, turn) ==
    /\ enabled[t] /\ permission[t] = "granted"
    /\ t \in hidden \/ shown[t] # turn
\* mutant: the permission that the tab has read is good enough.
ShowsAnyhow == TRUE
\* showTurnCompletionNotification looks again.
ShowsNotice == granted = "granted"

Alert(t, turn) ==
    [tab |-> t, turn |-> turn, permitted |-> granted = "granted",
     wanted |-> stored \/ t \in untold, watched |-> t \notin hidden /\ shown[t] = turn]
Completed(t) ==
    \E turn \in inbox[t] :
        /\ inbox' = [inbox EXCEPT ![t] = @ \ {turn}]
        /\ IF ShouldNotify(t, turn) /\ ShowsNotice
           THEN Played(t) /\ alerts' = alerts \cup {Alert(t, turn)} ELSE UNCHANGED <<sound, alerts>>
        /\ UNCHANGED <<switch, unlocks, view, changes>>

\* A click on the notice.
OpenNotice(a) ==
    /\ a \in alerts /\ hidden' = hidden \ {a.tab} /\ shown' = [shown EXCEPT ![a.tab] = a.turn]
    /\ Shows(a.tab, stored) /\ permission' = [permission EXCEPT ![a.tab] = granted]
    /\ UNCHANGED <<stored, granted, untold, asking, audio, inbox, alerts, changes>>

Next ==
    \/ \E t \in Tabs : UnlockSettles(t) \/ SoundEnds(t) \/ TurnOff(t) \/ TurnOn(t) \/ Asked(t)
                       \/ Storage(t) \/ Focus(t) \/ Hide(t) \/ Completed(t)
    \/ \E t \in Tabs : (\E l \in Listeners : Press(t, l)) \/ (\E s \in Turns : Open(t, s))
    \/ Revoke \/ \E a \in alerts : OpenNotice(a)

Spec == Init /\ [][Next]_vars

----
TypeOK ==
    /\ stored \in BOOLEAN /\ granted \in {"default", "granted", "denied"}
    /\ untold \cup asking \cup hidden \subseteq Tabs
    /\ enabled \in [Tabs -> BOOLEAN] /\ armed \in [Tabs -> SUBSET Listeners]
    /\ permission \in [Tabs -> {"default", "granted", "denied"}]
    /\ shown \in [Tabs -> Turns \cup {0}] /\ inbox \in [Tabs -> SUBSET Turns]
    /\ \A t \in Tabs : sound[t].plays \in {"no", "muted", "aloud"} /\ \A v \in unlocks[t] : v <= sound[t].version

\* A notice, and the sound with it, comes only while the browser permits it, for a
\* session the user is not looking at, and not after the switch was turned off in
\* some tab and this one has been told.
Considerate == \A a \in alerts : a.permitted /\ a.wanted /\ ~a.watched

\* The answer to an unlock never cuts the sound of a Turn short, and leaves the
\* element muted for none.
SoundIsHeardStep ==
    \A t \in Tabs :
    unlocks'[t] # unlocks[t] /\ unlocks'[t] \subseteq unlocks[t] =>
        /\ sound[t].plays = "aloud" => sound'[t].plays = "aloud"
        /\ unlocks'[t] = {} => ~sound'[t].muted
SoundIsHeard == [][SoundIsHeardStep]_vars
====
