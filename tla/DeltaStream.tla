----------------------------- MODULE DeltaStream -----------------------------
(***************************************************************************)
(* The panel stream from the server to one browser:                        *)
(*                                                                         *)
(*   server/src/session.ts   what each handler emits, and snapshot()       *)
(*   server/src/trpc.ts      the `deltas` subscription                     *)
(*   client/src/useDeltaStream.ts   the reducer and its removal timer      *)
(*                                                                         *)
(* A subscriber gets one snapshot, then every delta the emitter fires      *)
(* while its listener is attached.  The listener is attached when the      *)
(* generator is asked for its second message, so deltas fired between the  *)
(* snapshot and that moment reach nobody, until the next snapshot.         *)
(*                                                                         *)
(* PanelLifecycle models when a handler changes a status; here a handler   *)
(* may change it to anything the source allows, and what matters is what   *)
(* it emits and in which order.  An event is the number of its turn among  *)
(* the events pushed for its panel.                                        *)
(***************************************************************************)
EXTENDS Integers, Sequences, FiniteSets

CONSTANTS
    Panels,             \* panel ids
    MaxEvents, Evict,   \* MAX_EVENTS_PER_PANEL and how many a full list drops
    SnapshotCap,        \* SNAPSHOT_EVENTS_CAP
    ReseedCap,          \* RESEED_EVENTS_CAP
    LiveWindow, EvictChunk,     \* the client's LIVE_WINDOW and EVICT_CHUNK
    MaxPushed,          \* bound of the model: events per panel
    MaxQueue,           \* bound of the model: messages under way
    MaxOutages,         \* bound of the model: lost connections
    MaxFades,           \* bound of the model: removals of a panel under way at once
    MaxMissed,          \* bound of the model: no handler fires once so much was missed
    Kinds               \* bound of the model: the kinds of handler considered

ASSUME CapsAssumption ==
    /\ {MaxEvents, SnapshotCap, ReseedCap, LiveWindow} \subseteq Nat \ {0}
    /\ Evict \in 1..MaxEvents /\ EvictChunk \in 1..(LiveWindow - 1)
    /\ SnapshotCap <= LiveWindow /\ ReseedCap <= LiveWindow
ASSUME BoundsAssumption == {MaxPushed, MaxQueue, MaxOutages, MaxFades, MaxMissed} \subseteq Nat

VARIABLES
    panels,     \* the server's panels: id -> [status, binned, events]
    aged,       \* known panels outside the UI window, so not surfaceable
    pushed,     \* id -> events pushed so far
    link,       \* the subscription: "down", "greeted" (snapshot out), "attached"
    queue,      \* messages under way to the client, oldest first
    view,       \* the client's panels: id -> [status, events, removing]
    timers,     \* id -> pending commit_remove timeouts
    missed,     \* what this subscription fired at nobody: pairs <<id, what>>
    outages     \* connections lost so far

vars == <<panels, aged, pushed, link, queue, view, timers, missed, outages>>
clientVars == <<view, timers>>

Statuses == {"live", "done", "mini"}
Known(p) == p \in DOMAIN panels

LastFew(s, n) == SubSeq(s, IF Len(s) > n THEN Len(s) - n + 1 ELSE 1, Len(s))
With(f, p, x) == [q \in DOMAIN f \cup {p} |-> IF q = p THEN x ELSE f[q]]
Without(f, p) == [q \in DOMAIN f \ {p} |-> f[q]]

----------------------------------------------------------------------------
(* Deltas.  An upsert that carries events is a "reseed" here.              *)

Upsert(p, P) == [op |-> "panel_upsert", id |-> p, status |-> P.status]
Reseed(p, P) == [op |-> "reseed", id |-> p, status |-> P.status,
                 events |-> LastFew(P.events, ReseedCap)]
Status(p, status) == [op |-> "panel_status", id |-> p, status |-> status]
Remove(p) == [op |-> "panel_remove", id |-> p]
EventAppend(p, n) == [op |-> "event_append", id |-> p, event |-> n]

(* Removals of p that the client has not completed.                        *)
Fading(p) ==
    timers[p] + Cardinality({i \in 1..Len(queue) : queue[i] = Remove(p)})

(* What a client goes without that a delta does not reach.                 *)
Loss(d) ==
    <<d.id, CASE d.op = "event_append" -> "event"
              [] d.op = "panel_remove" -> "removal"
              [] OTHER -> "status">>

(* Emit fires the deltas of one handler, in order, in the same step.  Who  *)
(* has the snapshot and does not listen yet misses them.                   *)
Emit(deltas) ==
    /\ queue' = IF link = "attached" THEN queue \o deltas ELSE queue
    /\ Len(queue') <= MaxQueue
    /\ link = "greeted" => Cardinality(missed) < MaxMissed
    /\ missed' = IF link = "greeted"
                    THEN missed \cup {Loss(deltas[i]) : i \in 1..Len(deltas)}
                    ELSE missed
    /\ UNCHANGED <<clientVars, link, outages>>

----------------------------------------------------------------------------
(* Server handlers.                                                        *)

Capped(events) ==
    IF Len(events) > MaxEvents THEN SubSeq(events, Evict + 1, Len(events)) ELSE events

(* apply(), for an ordinary record: a new panel is announced, the record   *)
(* is pushed, an early side effect (awaiting, self-heal) re-announces the  *)
(* panel with its old status, the status moves (to live on fresh activity, *)
(* or for a stale record of a panel that is not live), a late side effect  *)
(* (title, cwd) re-announces it, and the event goes out last.              *)
Ingest(p, born, refreshed, status) ==
    LET isNew == ~Known(p)
        P == IF isNew THEN [status |-> born, binned |-> FALSE, events |-> <<>>] ELSE panels[p]
        Q == [P EXCEPT !.status = status, !.events = Capped(Append(@, pushed[p] + 1))]
        If(cond, delta) == IF cond THEN <<delta>> ELSE <<>>
    IN /\ "ingest" \in Kinds /\ pushed[p] < MaxPushed
       /\ isNew \/ born = P.status
       /\ status \in {P.status, "live"} \/ P.status # "live"
       /\ panels' = With(panels, p, Q)
       /\ pushed' = [pushed EXCEPT ![p] = @ + 1]
       /\ aged' = IF status = "live" THEN aged \ {p} ELSE aged
       /\ Emit(If(isNew, Upsert(p, P)) \o If(refreshed = "early", Upsert(p, P))
               \o If(status # P.status, Status(p, status)) \o If(refreshed = "late", Upsert(p, Q))
               \o <<EventAppend(p, pushed'[p])>>)

(* Everything that only re-announces a panel: usage records, awaiting,     *)
(* ended, theme, relocation, terminal id, hook overhead, rename.  The bin  *)
(* is not asked.                                                           *)
Refresh(p) ==
    /\ "refresh" \in Kinds /\ Known(p)
    /\ Emit(<<Upsert(p, panels[p])>>)
    /\ UNCHANGED <<panels, aged, pushed>>

(* applyAutoTitle: a breadcrumb event, pushed without the cap.  (The third *)
(* delta, auto_titled, is a toast and no state.)                           *)
AutoTitle(p) ==
    /\ "title" \in Kinds /\ Known(p) /\ pushed[p] < MaxPushed
    /\ panels' = [panels EXCEPT ![p].events = Append(@, pushed[p] + 1)]
    /\ pushed' = [pushed EXCEPT ![p] = @ + 1]
    /\ Emit(<<Upsert(p, panels[p]), EventAppend(p, pushed[p] + 1)>>)
    /\ UNCHANGED aged

(* One panel's share of tick(): a step towards the dock, or the end.       *)
TickDemotes(p) ==
    LET next == IF panels[p].status = "live" THEN "done" ELSE "mini"
    IN /\ "tick" \in Kinds /\ Known(p) /\ ~panels[p].binned /\ panels[p].status # "mini"
       /\ panels' = [panels EXCEPT ![p].status = next]
       /\ Emit(<<Status(p, next)>>)
       /\ UNCHANGED <<aged, pushed>>

Forget(p) ==
    /\ Fading(p) < MaxFades
    /\ panels' = Without(panels, p)
    /\ aged' = aged \ {p}
    /\ Emit(<<Remove(p)>>)

TickReaps(p) ==
    /\ "tick" \in Kinds /\ Known(p) /\ ~panels[p].binned /\ panels[p].status = "mini"
    /\ Forget(p)
    /\ UNCHANGED pushed

(* forceStatus: out of the dock, the transcript goes along, unless the     *)
(* server holds none of it.                                                *)
ForceStatus(p, status) ==
    LET P == [panels[p] EXCEPT !.status = status]
    IN /\ "force" \in Kinds /\ Known(p) /\ panels[p].status # status
       /\ panels' = [panels EXCEPT ![p] = P]
       /\ aged' = IF status = "live" THEN aged \ {p} ELSE aged
       /\ Emit(<<IF panels[p].status # "mini" THEN Status(p, status)
                 ELSE IF P.events = <<>> THEN Upsert(p, P) ELSE Reseed(p, P)>>)
       /\ UNCHANGED pushed

Bin(p) ==
    /\ "bin" \in Kinds /\ Known(p) /\ ~panels[p].binned /\ Fading(p) < MaxFades
    /\ panels' = [panels EXCEPT ![p].binned = TRUE]
    /\ Emit(<<Remove(p)>>)
    /\ UNCHANGED <<aged, pushed>>

Unbin(p) ==
    /\ "bin" \in Kinds /\ Known(p) /\ panels[p].binned
    /\ panels' = [panels EXCEPT ![p].binned = FALSE]
    /\ Emit(<<Reseed(p, panels[p])>>)
    /\ UNCHANGED <<aged, pushed>>

(* bin.purge: a record that arrives later makes the panel anew.            *)
Purge(p) ==
    /\ "purge" \in Kinds /\ Known(p)
    /\ Forget(p)
    /\ UNCHANGED pushed

(* rebuildPanel: torn down, then its records are read again from the first *)
(* on and carry the same numbers as before.                                *)
Rebuild(p) ==
    /\ "rebuild" \in Kinds /\ Known(p)
    /\ Forget(p)
    /\ pushed' = [pushed EXCEPT ![p] = 0]

(* A docked panel's last activity leaves the UI window.                    *)
AgeOut(p) ==
    /\ "age" \in Kinds /\ Known(p) /\ panels[p].status = "mini" /\ p \notin aged
    /\ aged' = aged \cup {p}
    /\ UNCHANGED <<panels, pushed, link, queue, clientVars, missed, outages>>

----------------------------------------------------------------------------
(* The subscription.                                                       *)

(* snapshot(): what is neither binned nor outside the window; docked       *)
(* panels come without their events.                                       *)
Surfaced == {p \in DOMAIN panels : ~panels[p].binned /\ p \notin aged}
SnapshotPanel(p) ==
    [status |-> panels[p].status,
     events |-> IF panels[p].status = "mini" THEN <<>> ELSE LastFew(panels[p].events, SnapshotCap),
     removing |-> FALSE]
Snapshot == [op |-> "snapshot", panels |-> [p \in Surfaced |-> SnapshotPanel(p)]]

Subscribe ==
    /\ link = "down"
    /\ link' = "greeted" /\ queue' = <<Snapshot>>
    /\ UNCHANGED <<panels, aged, pushed, clientVars, missed, outages>>

Attach ==
    /\ link = "greeted"
    /\ link' = "attached"
    /\ UNCHANGED <<panels, aged, pushed, queue, clientVars, missed, outages>>

(* The connection breaks: what was under way is lost.  The client keeps    *)
(* what it shows and subscribes anew.                                      *)
Disconnect ==
    /\ link # "down" /\ outages < MaxOutages
    /\ link' = "down" /\ queue' = <<>> /\ missed' = {} /\ outages' = outages + 1
    /\ UNCHANGED <<panels, aged, pushed, clientVars>>

(* client_build_updated, or the user: the page loads again, empty.         *)
Reload ==
    /\ outages < MaxOutages
    /\ link' = "down" /\ queue' = <<>> /\ missed' = {} /\ outages' = outages + 1
    /\ view' = <<>> /\ timers' = [p \in Panels |-> 0]
    /\ UNCHANGED <<panels, aged, pushed>>

----------------------------------------------------------------------------
(* The client: reducer and onData.                                         *)

Seen(p) == p \in DOMAIN view

AppendCapped(events, n) ==
    LET next == Append(events, n)
    IN IF Len(next) > LiveWindow THEN LastFew(next, LiveWindow - EvictChunk) ELSE next

SnapshotMerged(d) ==                                            \* mutant
    [p \in DOMAIN d.panels \cup DOMAIN view |->
        IF p \in DOMAIN d.panels
          THEN [d.panels[p] EXCEPT !.events = LastFew(@, LiveWindow)] ELSE view[p]]
SnapshotApplied(d) ==
    [p \in DOMAIN d.panels |-> [d.panels[p] EXCEPT !.events = LastFew(@, LiveWindow)]]

UpsertApplied(d) ==
    With(view, d.id, [status |-> d.status, removing |-> FALSE,
                      events |-> IF Seen(d.id) THEN LastFew(view[d.id].events, LiveWindow)
                                               ELSE <<>>])

ReseedPrepended(d) ==                                           \* mutant
    With(view, d.id, [status |-> d.status, removing |-> FALSE,
                      events |-> LastFew(d.events \o (IF Seen(d.id) THEN view[d.id].events
                                                                   ELSE <<>>), LiveWindow)])
ReseedApplied(d) ==
    With(view, d.id, [status |-> d.status, removing |-> FALSE,
                      events |-> LastFew(d.events, LiveWindow)])

StatusAppliedUnlessRemoving(d) ==                               \* mutant
    IF Seen(d.id) /\ ~view[d.id].removing
      THEN [view EXCEPT ![d.id].status = d.status] ELSE view
StatusApplied(d) ==
    IF Seen(d.id) THEN [view EXCEPT ![d.id].status = d.status] ELSE view

Reduced(d) ==
    CASE d.op = "snapshot" -> SnapshotApplied(d)
      [] d.op = "panel_upsert" -> UpsertApplied(d)
      [] d.op = "reseed" -> ReseedApplied(d)
      [] d.op = "panel_status" -> StatusApplied(d)
      [] d.op = "event_append" ->
           IF Seen(d.id) THEN [view EXCEPT ![d.id].events = AppendCapped(@, d.event)] ELSE view
      [] d.op = "panel_remove" ->
           IF Seen(d.id) THEN [view EXCEPT ![d.id].removing = TRUE] ELSE view

(* A panel_remove also starts the timeout of its commit_remove.            *)
Deliver ==
    LET d == Head(queue)
    IN /\ queue # <<>>
       /\ queue' = Tail(queue)
       /\ view' = Reduced(d)
       /\ timers' = IF d.op = "panel_remove" THEN [timers EXCEPT ![d.id] = @ + 1] ELSE timers
       /\ UNCHANGED <<panels, aged, pushed, link, missed, outages>>

CommitRemove(p) ==
    /\ timers[p] > 0
    /\ timers' = [timers EXCEPT ![p] = @ - 1]
    /\ view' = Without(view, p)
    /\ UNCHANGED <<panels, aged, pushed, link, queue, missed, outages>>

----------------------------------------------------------------------------
Init ==
    /\ panels = <<>> /\ aged = {} /\ pushed = [p \in Panels |-> 0]
    /\ link = "down" /\ queue = <<>>
    /\ view = <<>> /\ timers = [p \in Panels |-> 0]
    /\ missed = {} /\ outages = 0

ServerStep ==
    \E p \in Panels :
        \/ \E born, status \in Statuses, refreshed \in {"no", "early", "late"} :
              Ingest(p, born, refreshed, status)
        \/ Refresh(p)
        \/ AutoTitle(p)
        \/ TickDemotes(p)
        \/ TickReaps(p)
        \/ \E status \in Statuses : ForceStatus(p, status)
        \/ Bin(p)
        \/ Unbin(p)
        \/ Purge(p)
        \/ Rebuild(p)
        \/ AgeOut(p)

Next ==
    \/ ServerStep
    \/ Subscribe
    \/ Attach
    \/ Disconnect
    \/ Reload
    \/ Deliver
    \/ \E p \in Panels : CommitRemove(p)

Spec == Init /\ [][Next]_vars

(* The client subscribes again, the stream is drained, timeouts expire.    *)
Fairness ==
    /\ WF_vars(Subscribe) /\ WF_vars(Attach) /\ WF_vars(Deliver)
    /\ \A p \in Panels : WF_vars(CommitRemove(p))
FairSpec == Spec /\ Fairness

----------------------------------------------------------------------------
(* Properties.                                                             *)

(* Nothing is left to tell the client.                                     *)
CaughtUp == link = "attached" /\ queue = <<>>
Still == CaughtUp /\ \A p \in Panels : timers[p] = 0

(* The snapshot of the present subscription has arrived.                   *)
Greeted == link # "down" /\ \A i \in 1..Len(queue) : queue[i].op # "snapshot"

(* What was fired between that snapshot and the listener.                  *)
StatusMissed(p) == <<p, "status">> \in missed
EventMissed(p) == <<p, "event">> \in missed
RemovalMissed(p) == <<p, "removal">> \in missed

(* A removal of p is under way, or its timeout runs.                       *)
Leaving(p) == timers[p] > 0 \/ \E i \in 1..Len(queue) : queue[i] = Remove(p)

(* Every variable has its type, and what a panel shows never outgrows the  *)
(* live window.                                                            *)
TypeOK ==
    /\ DOMAIN panels \subseteq Panels
    /\ \A p \in DOMAIN panels :
         panels[p] \in [status : Statuses, binned : BOOLEAN, events : Seq(1..MaxPushed)]
    /\ aged \subseteq DOMAIN panels
    /\ pushed \in [Panels -> 0..MaxPushed]
    /\ link \in {"down", "greeted", "attached"}
    /\ DOMAIN view \subseteq Panels
    /\ \A p \in DOMAIN view :
         /\ view[p] \in [status : Statuses, events : Seq(1..MaxPushed), removing : BOOLEAN]
         /\ Len(view[p].events) <= LiveWindow
    /\ timers \in [Panels -> Nat]
    /\ missed \subseteq Panels \X {"status", "event", "removal"}
    /\ outages \in 0..MaxOutages

(* A client with nothing left to be told shows every panel it shows with   *)
(* the server's status, fading panels and binned ones included; once the   *)
(* fades are over it shows no panel the server has forgotten.  The one     *)
(* exception is what was fired after its snapshot and before the listener. *)
ViewInStep ==
    /\ CaughtUp => \A p \in DOMAIN view \cap DOMAIN panels :
         ~StatusMissed(p) => view[p].status = panels[p].status
    /\ Still => \A p \in DOMAIN view \ DOMAIN panels : RemovalMissed(p)

(* What a client shows of a transcript fits its window, has no hole and no *)
(* repetition, and ends where the server's copy ends, through caps, docks, *)
(* reseeds, bins and reconnections, unless an event or a removal was fired *)
(* after its snapshot and before the listener.  A panel on its way out is  *)
(* excepted: after a rebuild its records arrive again and are shown twice  *)
(* until the timeout takes the panel away.                                 *)
HistoryIsATail ==
    \A p \in DOMAIN view :
      LET events == view[p].events
      IN /\ Len(events) <= LiveWindow
         /\ Greeted /\ ~Leaving(p) /\ ~EventMissed(p) /\ ~RemovalMissed(p) =>
              /\ \A i \in 1..(Len(events) - 1) : events[i + 1] = events[i] + 1
              /\ CaughtUp /\ p \in DOMAIN panels /\ events # <<>> =>
                   events[Len(events)] = panels[p].events[Len(panels[p].events)]

(* A panel the server has dropped for good leaves the client's screen, and *)
(* does not come back, unless its removal was fired after the client's     *)
(* snapshot and before the listener.                                       *)
RemovalsReachTheClient ==
    \A p \in Panels :
      <>[](p \notin DOMAIN panels /\ ~RemovalMissed(p)) => <>[](p \notin DOMAIN view)
=============================================================================
