------------------------------ MODULE AlertQueue ------------------------------
(***************************************************************************)
(* Who is told that a session waits: server/src/alertQueue.ts, the hook    *)
(* handlers of server/src/monitor.ts that feed it, GET /api/alerts of      *)
(* server/src/index.ts, and the helper that polls it and posts the banners *)
(* (menubar/Sources/Alerts.swift).                                         *)
(*                                                                         *)
(* A panel waits from the notification that says so until its transcript   *)
(* moves on.  Nobody tells the queue of the latter: it looks at the panel  *)
(* when the grace timer fires and when the helper asks.  Either side may   *)
(* restart; the server's ids begin anew, and so does the helper's cursor.  *)
(*                                                                         *)
(* A wait is a number, so that a banner can be held against the wait it    *)
(* was posted for.  The queue and the helper's answers are sets: the ids   *)
(* are the order.  What a banner says and what a click does is left out.   *)
(***************************************************************************)
EXTENDS Integers

CONSTANTS
    Panels,
    PrefChoices,    \* the notification prefs the user switches between
    MaxWaits,       \* bound of the model: waits of a panel
    MaxStops,       \* bound of the model: ends of turns
    MaxRestarts     \* bound of the model: of the server, and of the helper

Prefs == [on : BOOLEAN, turns : BOOLEAN, grace : BOOLEAN]
ASSUME PrefsAssumption == PrefChoices \subseteq Prefs /\ PrefChoices # {}
ASSUME BoundsAssumption == {MaxWaits, MaxStops, MaxRestarts} \subseteq Nat

VARIABLES
    panel,          \* the panel: its last wait, whether that goes on
    prefs,          \* not muted and macNative; macNativeTurnComplete; graceSeconds > 0
    pendingTimers,  \* panels whose grace timer runs
    alerts,         \* AlertQueue.alerts
    nextId,
    life,           \* the server's lives so far
    stops,          \* ends of turns so far
    helper,         \* seeded, cursor, and restarts so far
    replies,        \* the answer on its way to the helper, if there is one
    banners,        \* the banners posted for waits: which wait, in which life
    repeated        \* a banner was posted for a wait that had one in this life

queue == <<pendingTimers, alerts, nextId>>
delivery == <<helper, replies, banners, repeated>>
vars == <<panel, prefs, queue, life, stops, delivery>>

Panel == [there : BOOLEAN, awaiting : BOOLEAN, wait : 0..MaxWaits, late : BOOLEAN]
Alert == [id : Nat, panel : Panels, reason : {"awaiting", "turn_complete"},
          wait : 0..MaxWaits, life : 0..MaxRestarts, old : BOOLEAN]

Init ==
    /\ panel = [p \in Panels |-> [there |-> TRUE, awaiting |-> FALSE, wait |-> 0, late |-> FALSE]]
    /\ prefs \in PrefChoices
    /\ pendingTimers = {}
    /\ alerts = {}
    /\ nextId = 1
    /\ life = 0
    /\ stops = 0
    /\ helper = [seeded |-> FALSE, cursor |-> -1, restarts |-> 0]
    /\ replies = {}
    /\ banners = {}
    /\ repeated = FALSE

-----------------------------------------------------------------------------
(* The queue *)

Queued(p) == \E a \in alerts : a.panel = p /\ a.reason = "awaiting"

\* fire: the panel is looked at as it is now
Fire(P, p, reason) ==
    IF prefs.on /\ P[p].there /\ (reason = "awaiting" => P[p].awaiting)
    THEN /\ alerts' = alerts \cup {[id |-> nextId, panel |-> p, reason |-> reason,
                                    wait |-> P[p].wait, life |-> life, old |-> FALSE]}
         /\ nextId' = nextId + 1
    ELSE UNCHANGED <<alerts, nextId>>

\* onAwaiting(p, true) with the panels as the notification left them
onAwaitingUndeduped(P, p) ==                                           \* mutant
    IF ~prefs.on THEN UNCHANGED queue
    ELSE IF prefs.grace
    THEN pendingTimers' = pendingTimers \cup {p} /\ UNCHANGED <<alerts, nextId>>
    ELSE Fire(P, p, "awaiting") /\ UNCHANGED pendingTimers

onAwaiting(P, p) ==
    IF ~prefs.on \/ p \in pendingTimers \/ Queued(p) THEN UNCHANGED queue
    ELSE IF prefs.grace
    THEN pendingTimers' = pendingTimers \cup {p} /\ UNCHANGED <<alerts, nextId>>
    ELSE Fire(P, p, "awaiting") /\ UNCHANGED pendingTimers

\* list: what has expired and what no longer waits is dropped for good
Listed == {a \in alerts : ~a.old /\ (a.reason = "awaiting" => panel[a.panel].awaiting)}

-----------------------------------------------------------------------------
(* The steps *)

\* A notification hook.  The first of a wait begins it; repetitions come while
\* the wait is young, and again when a restarted server replays the hook files.
\* A record older than ALERT_FRESHNESS_SECONDS marks the panel and alerts nobody.
Waiting(p) ==
    IF ~panel[p].there \/ panel[p].awaiting THEN panel
    ELSE [panel EXCEPT ![p] = [there |-> TRUE, awaiting |-> TRUE, wait |-> panel[p].wait + 1, late |-> FALSE]]

Notify(p, isFresh) ==
    /\ panel[p].awaiting => ~panel[p].late
    /\ Waiting(p)[p].wait <= MaxWaits
    /\ panel' = Waiting(p)
    /\ IF isFresh THEN onAwaiting(Waiting(p), p) ELSE UNCHANGED queue
    /\ UNCHANGED <<prefs, life, stops, delivery>>

\* The transcript moves on: the wait is over, and the queue is not told
Answer(p) ==
    /\ panel[p].awaiting
    /\ panel' = [panel EXCEPT ![p].awaiting = FALSE]
    /\ UNCHANGED <<prefs, queue, life, stops, delivery>>

\* A Stop hook ends a turn
Stop(p) ==
    /\ stops < MaxStops
    /\ stops' = stops + 1
    /\ IF prefs.on /\ prefs.turns THEN Fire(panel, p, "turn_complete") ELSE UNCHANGED <<alerts, nextId>>
    /\ UNCHANGED <<panel, prefs, pendingTimers, life, delivery>>

\* The grace period ends
TimerFires(p) ==
    /\ p \in pendingTimers
    /\ pendingTimers' = pendingTimers \ {p}
    /\ Fire(panel, p, "awaiting")
    /\ UNCHANGED <<panel, prefs, life, stops, delivery>>

\* EXPIRY_MS pass for an alert that is still queued
Expire(a) ==
    /\ ~a.old
    /\ alerts' = (alerts \ {a}) \cup {[a EXCEPT !.old = TRUE]}
    /\ panel' = IF a.reason = "awaiting" /\ a.wait = panel[a.panel].wait
                THEN [panel EXCEPT ![a.panel].late = TRUE] ELSE panel
    /\ UNCHANGED <<prefs, pendingTimers, nextId, life, stops, delivery>>

\* panel_remove disposes of what the panel has here; it may come back
Remove(p) ==
    /\ panel[p].there
    /\ panel' = [panel EXCEPT ![p].there = FALSE, ![p].awaiting = FALSE]
    /\ pendingTimers' = pendingTimers \ {p}
    /\ alerts' = {a \in alerts : a.panel # p}
    /\ UNCHANGED <<prefs, nextId, life, stops, delivery>>

\* The user's purge tells the clients and not the queue
Purge(p) ==
    /\ panel[p].there
    /\ panel' = [panel EXCEPT ![p].there = FALSE, ![p].awaiting = FALSE]
    /\ UNCHANGED <<prefs, queue, life, stops, delivery>>

Return(p) ==
    /\ ~panel[p].there
    /\ panel' = [panel EXCEPT ![p].there = TRUE]
    /\ UNCHANGED <<prefs, queue, life, stops, delivery>>

SetPrefs ==
    /\ prefs' \in PrefChoices \ {prefs}
    /\ UNCHANGED <<panel, queue, life, stops, delivery>>

\* awaiting_input is persisted, the queue is not; a connection falls with the server
RestartServer ==
    /\ life < MaxRestarts
    /\ life' = life + 1
    /\ pendingTimers' = {} /\ alerts' = {} /\ nextId' = 1
    /\ replies' = {}
    /\ UNCHANGED <<panel, prefs, stops, helper, banners, repeated>>

RestartHelper ==
    /\ helper.restarts < MaxRestarts
    /\ helper' = [seeded |-> FALSE, cursor |-> -1, restarts |-> helper.restarts + 1]
    /\ replies' = {}
    /\ UNCHANGED <<panel, prefs, queue, life, stops, banners, repeated>>

PollOnce ==                                                            \* mutant
    /\ replies = {}
    /\ alerts' = {}
    /\ replies' = {{a \in Listed : a.id > helper.cursor}}
    /\ UNCHANGED <<panel, prefs, pendingTimers, nextId, life, stops, helper, banners, repeated>>

\* The helper asks and the server answers; a request times out before the next
Poll ==
    /\ replies = {}
    /\ alerts' = Listed
    /\ replies' = {{a \in Listed : a.id > helper.cursor}}
    /\ UNCHANGED <<panel, prefs, pendingTimers, nextId, life, stops, helper, banners, repeated>>

LoseReply ==
    /\ replies # {}
    /\ replies' = {}
    /\ UNCHANGED <<panel, prefs, queue, life, stops, helper, banners, repeated>>

\* The waits an answer speaks of, and whether it speaks of one twice
WaitOf(a) == <<a.panel, a.wait, a.life>>
Asking(r) == {a \in r : a.reason = "awaiting"}
Waits(r) == {WaitOf(a) : a \in Asking(r)}
Twice(r) == \E a, b \in Asking(r) : a.id # b.id /\ WaitOf(a) = WaitOf(b)

\* The cursor moves to the last id of the answer; the first answer only seeds it
Heard(r) == {helper.cursor} \cup {a.id : a \in r}
Deliver ==
    \E r \in replies :
        /\ IF helper.seeded
           THEN /\ banners' = banners \cup Waits(r)
                /\ repeated' = (repeated \/ Twice(r) \/ Waits(r) \cap banners # {})
           ELSE UNCHANGED <<banners, repeated>>
        /\ \E last \in Heard(r) :
              /\ \A id \in Heard(r) : id <= last
              /\ helper' = [helper EXCEPT !.seeded = TRUE, !.cursor = last]
        /\ replies' = {}
        /\ UNCHANGED <<panel, prefs, queue, life, stops>>

Next ==
    \/ \E p \in Panels, isFresh \in BOOLEAN : Notify(p, isFresh)
    \/ \E p \in Panels : Answer(p) \/ Stop(p) \/ TimerFires(p) \/ Remove(p) \/ Purge(p) \/ Return(p)
    \/ \E a \in alerts : Expire(a)
    \/ SetPrefs \/ RestartServer \/ RestartHelper
    \/ Poll \/ LoseReply \/ Deliver

Spec == Init /\ [][Next]_vars

\* Timers fire, the helper polls, and not every answer is lost
FairSpec ==
    /\ Spec
    /\ \A p \in Panels : WF_vars(TimerFires(p))
    /\ WF_vars(Poll)
    /\ SF_vars(Deliver)

-----------------------------------------------------------------------------
(* Correctness *)

\* The variables hold what the queue and the helper can hold.
TypeOK ==
    /\ panel \in [Panels -> Panel] /\ prefs \in Prefs
    /\ pendingTimers \subseteq Panels /\ alerts \subseteq Alert /\ nextId \in Nat
    /\ life \in 0..MaxRestarts /\ stops \in 0..MaxStops
    /\ helper \in [seeded : BOOLEAN, cursor : Int, restarts : 0..MaxRestarts]
    /\ replies \subseteq SUBSET Alert
    /\ banners \subseteq Panels \X (0..MaxWaits) \X (0..MaxRestarts) /\ repeated \in BOOLEAN

\* One banner per wait in one life of the server, whatever is said again while
\* the wait is young, however late answers are and however often the helper
\* restarts (assertions.md "one alert per wait-episode", "helper restarts never
\* replay"; alertQueue.ts onAwaiting, Alerts.swift fetch).
OneBannerPerWait == ~repeated

\* A wait whose grace timer runs is shown to a helper that listens, unless it is
\* answered, muted, or 10 minutes old first: the timer of an earlier wait does
\* for a later one, and no poll, expiry or prune in between loses it.  A restart
\* of either side ends the promise, and so does a cursor ahead of the ids.
Listens == helper.seeded /\ helper.cursor < nextId
ArmedWaitsAreShown ==
    \A p \in Panels, l \in 0..MaxRestarts :
        (p \in pendingTimers /\ panel[p].awaiting /\ prefs.on /\ Listens /\ life = l)
        ~> (\/ <<p, panel[p].wait, life>> \in banners
            \/ ~panel[p].awaiting \/ panel[p].late \/ ~prefs.on
            \/ ~Listens \/ life # l)
=============================================================================
