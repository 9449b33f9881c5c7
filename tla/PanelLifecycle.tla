--------------------------- MODULE PanelLifecycle ---------------------------
(***************************************************************************)
(* The life of brainhouse's panels: server/src/session.ts (SessionStore)   *)
(* together with the handlers of server/src/monitor.ts and                 *)
(* server/src/trpc.ts that drive it.                                       *)
(*                                                                         *)
(* A panel is one Claude Code session ("parent") or one Task inside it     *)
(* ("subagent").  It is created by the first transcript record that        *)
(* mentions it, walks live -> done -> mini -> removed on a periodic tick,  *)
(* and is pushed around by hook records, by the user, by a five second     *)
(* timer, and by restarts of the server, which reload the last written     *)
(* row of every panel.                                                     *)
(*                                                                         *)
(* Time is an integer number of seconds.  Every handler of the source is   *)
(* synchronous, so it is one step here.                                    *)
(***************************************************************************)
EXTENDS Integers, Sequences

CONSTANTS
    Parents,            \* ids of session panels
    Subagents,          \* ids of subagent panels
    ParentOf,           \* subagent -> its session (panelIdentity)
    PaneOf,             \* session -> the iTerm pane it runs in, or NoPane
    NoPane,
    ProjectOf,          \* session -> its project directory (encoded cwd)
    Records,            \* uuids of transcript records
    PanelOf,            \* record -> the panel it belongs to
    ClassOf,            \* record -> one of Classes
    TsOf,               \* record -> the timestamp written in it
    IdleSeconds, MiniSeconds, RemoveAfterSeconds, GraceSeconds,   \* prefs.timings
    Freshness,          \* ALERT_FRESHNESS_SECONDS
    SupersedeWithin, SupersedeMinIdle, SupersedeMiniDelay,
    HydrateWindow,      \* HYDRATE_WINDOW_SECONDS
    EventsCap, Evict,   \* MAX_EVENTS_PER_PANEL and how many a full list drops
    MaxTime,            \* bound of the model: the clock stops here
    QuietFrom,          \* bound of the model: the outside world stops here
    OutsideKinds        \* bound of the model: the outside events considered

PanelIds == Parents \cup Subagents
Statuses == {"live", "done", "mini"}
Provenances == {"hook_session_end", "hook_subagent_stop", "progress_complete",
                "hook_session_start_supersede", "bootstrap_stale"}

(* What apply() tells apart in a record: ordinary content, content holding *)
(* a finished checklist, a slash-command artifact, a user_text tagged      *)
(* `meta`, a record of kind `meta`, and a resource_usage side record.      *)
Classes == {"text", "checklist", "artifact", "meta_text", "meta", "usage"}

ASSUME IdsAssumption ==
    /\ Parents \cap Subagents = {}
    /\ ParentOf \in [Subagents -> Parents]
    /\ DOMAIN PaneOf = Parents /\ DOMAIN ProjectOf = Parents
ASSUME RecordsAssumption ==
    /\ PanelOf \in [Records -> PanelIds]
    /\ ClassOf \in [Records -> Classes]
    /\ TsOf \in [Records -> Nat]
ASSUME TimingsAssumption ==
    /\ {IdleSeconds, MiniSeconds, RemoveAfterSeconds, GraceSeconds} \subseteq Nat \ {0}
    /\ {Freshness, SupersedeWithin, SupersedeMinIdle, SupersedeMiniDelay} \subseteq Nat
    /\ HydrateWindow \in Nat
ASSUME CapAssumption == EventsCap \in Nat \ {0} /\ Evict \in 1..EventsCap
ASSUME BoundsAssumption == MaxTime \in Nat /\ QuietFrom \in Nat

VARIABLES
    now,                \* the clock
    panels,             \* SessionStore.panels: id -> panel, the known ids its domain
    db,                 \* the panels table: id -> row
    pendingStartMini,   \* SessionStore.pendingStartMini
    miniTimers,         \* pending timeouts of scheduleSupersedeMini
    procLive,           \* sessions the process tracker attributes a live `claude` to
    stamped,            \* sessions whose terminal is known: iterm_session_id of the
                        \* panel, or pendingItermGuid before it has one
    ticking             \* startWatching has finished, the periodic tick runs

vars == <<now, panels, db, pendingStartMini, miniTimers, procLive, stamped, ticking>>

(* A panel's fields.  `ended` folds the source's pair (ended,              *)
(* ended_provenance), which are always assigned together; "no" is          *)
(* ended = false.  `events` holds the uuids of the event list.             *)
Row == [status : Statuses, last_event_at : Nat, status_changed_at : Nat,
        binned : BOOLEAN, awaiting : BOOLEAN, ended : Provenances \cup {"no"}]
Panel == [status : Statuses, last_event_at : Nat, status_changed_at : Nat,
          binned : BOOLEAN, awaiting : BOOLEAN, ended : Provenances \cup {"no"},
          start_minimized : BOOLEAN, events : Seq(Records)]

Timer == [panel : PanelIds, due : Nat]

Later(a, b) == IF a < b THEN b ELSE a
Earlier(a, b) == IF a < b THEN a ELSE b

Known(p) == p \in DOMAIN panels
SubagentsOf(s) == {c \in DOMAIN panels : c \in Subagents /\ ParentOf[c] = s}
UnendedSubagentsOf(s) == {c \in SubagentsOf(s) : panels[c].ended = "no"}

----------------------------------------------------------------------------
(* Persistence.  Of the columns persistPanel writes, these are the ones    *)
(* the lifecycle reads; events and the start_minimized flag are not        *)
(* columns.                                                                *)

PanelToRow(P) ==
    [status |-> P.status, last_event_at |-> P.last_event_at,
     status_changed_at |-> P.status_changed_at, binned |-> P.binned,
     awaiting |-> P.awaiting, ended |-> P.ended]

PanelRowToPanel(R) ==
    [status |-> R.status, last_event_at |-> R.last_event_at,
     status_changed_at |-> R.status_changed_at, binned |-> R.binned,
     awaiting |-> R.awaiting, ended |-> R.ended,
     start_minimized |-> FALSE, events |-> <<>>]

(* f laid over g.                                                          *)
Over(f, g) == [q \in DOMAIN f \cup DOMAIN g |-> IF q \in DOMAIN f THEN f[q] ELSE g[q]]

(* Every handler that changes one of these fields writes the row through   *)
(* in the same synchronous step; `changed` maps the ids it touched to      *)
(* their new state.                                                        *)
WriteThrough(changed) ==
    /\ panels' = Over(changed, panels)
    /\ db' = Over([q \in DOMAIN changed |-> PanelToRow(changed[q])], db)

Forget(S) ==
    /\ panels' = [q \in DOMAIN panels \ S |-> panels[q]]
    /\ db' = [q \in DOMAIN db \ S |-> db[q]]
    /\ stamped' = stamped \ S

----------------------------------------------------------------------------
(* One panel's transitions, shared by the handlers.                        *)

Forced(P, status) ==
    IF P.status = status THEN P
    ELSE [P EXCEPT !.status = status, !.status_changed_at = now,
                   !.last_event_at = IF status = "live" THEN now ELSE @]

Ended(P, provenance) ==
    IF P.ended # "no" THEN P ELSE [P EXCEPT !.ended = provenance]

(* isOwnerProcessLive: only a session has a process of its own.            *)
IsOwnerProcessLive(p) == p \in Parents /\ p \in procLive

IsLiveActivity(p, ts) ==
    \/ IsOwnerProcessLive(p) /\ now - ts < GraceSeconds
    \/ now - ts < IdleSeconds

(* settledState: where the tick would have put a panel by now, back-dated  *)
(* to the moment it would have got there.                                  *)
SettledState(lastEventAt) ==
    LET doneAt == lastEventAt + IdleSeconds
        miniAt == doneAt + MiniSeconds
    IN IF now >= miniAt THEN [status |-> "mini", changed_at |-> miniAt]
                        ELSE [status |-> "done", changed_at |-> doneAt]

(* A record's timestamp as apply() uses it, never later than the clock.  A *)
(* record without a timestamp behaves as one written in the future.        *)
EventTsUnclamped(r) == TsOf[r]                                  \* mutant
EventTs(r) == Earlier(TsOf[r], now)

(* ensurePanel, for an id the store does not hold.                         *)
NewPanel(p, ts) ==
    LET settled == SettledState(ts)
        fresh == IsLiveActivity(p, ts)
    IN [status |-> IF p \in pendingStartMini THEN "mini"
                   ELSE IF fresh THEN "live" ELSE settled.status,
        last_event_at |-> ts,
        status_changed_at |-> IF fresh THEN ts ELSE settled.changed_at,
        binned |-> FALSE, awaiting |-> FALSE, ended |-> "no",
        start_minimized |-> p \in pendingStartMini, events |-> <<>>]

HasEvent(P, r) == \E i \in 1..Len(P.events) : P.events[i] = r

TaggedMeta(r) == ClassOf[r] \in {"meta", "meta_text"}
IsCommandArtifact(r) == ClassOf[r] = "artifact"

Appended(events, r) ==
    LET grown == Append(events, r)
    IN IF Len(grown) > EventsCap THEN SubSeq(grown, Evict + 1, Len(grown)) ELSE grown

(* A supersede is a guess: strictly newer real content disproves it.       *)
SelfHealsOnTie(P, r, ts) ==                                     \* mutant
    /\ P.ended = "hook_session_start_supersede"
    /\ ~TaggedMeta(r) /\ ~IsCommandArtifact(r)
    /\ ts >= P.last_event_at
SelfHeals(P, r, ts) ==
    /\ P.ended = "hook_session_start_supersede"
    /\ ~TaggedMeta(r) /\ ~IsCommandArtifact(r)
    /\ ts > P.last_event_at

(* Whether the record may change the panel's status at all.                *)
StirsEnded(P, r) ==                                             \* mutant
    ~TaggedMeta(r) /\ ~(P.start_minimized /\ IsCommandArtifact(r))
StirsOnArtifact(P, r) == P.ended = "no" /\ ~TaggedMeta(r)        \* mutant
Stirs(P, r) ==
    /\ P.ended = "no"
    /\ ~TaggedMeta(r)
    /\ ~(P.start_minimized /\ IsCommandArtifact(r))

(* The status part of apply(): promote on live activity, settle a stale    *)
(* record by age unless the panel is already live.                         *)
Stirred(P, p, ts) ==
    LET Q == [P EXCEPT !.start_minimized = FALSE]
        settled == SettledState(P.last_event_at)
    IN IF IsLiveActivity(p, ts)
         THEN IF P.status = "live" THEN Q
              ELSE [Q EXCEPT !.status = "live", !.status_changed_at = P.last_event_at]
         ELSE IF P.status = "live" THEN Q
              ELSE [Q EXCEPT !.status = settled.status,
                             !.status_changed_at = settled.changed_at]

(* Activity never moves back.                                              *)
BumpedBack(P, ts) == [P EXCEPT !.last_event_at = ts]            \* mutant
Bumped(P, ts) == [P EXCEPT !.last_event_at = Later(@, ts)]

(* The record enters the list; awaiting_input clears; a wrong supersede    *)
(* guess is withdrawn.                                                     *)
Listed(P, r) ==
    [(IF ClassOf[r] = "meta" THEN P ELSE Bumped(P, EventTs(r)))
        EXCEPT !.events = Appended(@, r),
               !.awaiting = FALSE,
               !.ended = IF SelfHeals(P, r, EventTs(r)) THEN "no" ELSE @]

Settled(P, r) == IF Stirs(P, r) THEN Stirred(P, PanelOf[r], EventTs(r)) ELSE P

(* The whole of apply() for a record the panel has not listed yet: usage   *)
(* only counts as activity; a finished checklist ends a subagent.          *)
Applied(P, r) ==
    IF ClassOf[r] = "usage" THEN Bumped(P, EventTs(r))
    ELSE IF ClassOf[r] = "checklist" /\ PanelOf[r] \in Subagents
           THEN Ended(Settled(Listed(P, r), r), "progress_complete")
           ELSE Settled(Listed(P, r), r)

----------------------------------------------------------------------------
(* Transcript records: apply(), called by Monitor.ingest for every record  *)
(* the watcher parses, in live tailing, at boot, on reopen and on rebuild. *)

(* Whether the outside world may act, as the bounds have it.               *)
Outside(kind) == kind \in OutsideKinds /\ now <= QuietFrom

Ingest(r) ==
    LET p == PanelOf[r]
        P == IF Known(p) THEN panels[p] ELSE NewPanel(p, EventTs(r))
    IN /\ Outside("ingest")
       /\ ~HasEvent(P, r)
       /\ WriteThrough([q \in {p} |-> Applied(P, r)])
       /\ pendingStartMini' = pendingStartMini \ {p}
       /\ UNCHANGED <<now, miniTimers, procLive, stamped, ticking>>

----------------------------------------------------------------------------
(* The lifecycle tick.                                                     *)

GoesIdleUngraced(p) ==                                          \* mutant
    /\ panels[p].status = "live"
    /\ now - panels[p].last_event_at >= IdleSeconds
    /\ ~IsOwnerProcessLive(p)
GoesIdle(p) ==
    LET P == panels[p]
        gap == now - P.last_event_at
    IN /\ P.status = "live"
       /\ gap >= IdleSeconds
       /\ ~IsOwnerProcessLive(p) \/ gap >= GraceSeconds

GoesMini(p) ==
    panels[p].status = "done" /\ now - panels[p].status_changed_at >= MiniSeconds

GoesAwayOverIdle(p) ==                                          \* mutant
    /\ panels[p].status = "mini" /\ panels[p].ended # "no"
    /\ now - panels[p].status_changed_at >= RemoveAfterSeconds
    /\ \A c \in SubagentsOf(p) : panels[c].status # "live"
GoesAwayIfSession(p) ==                                         \* mutant
    /\ panels[p].status = "mini" /\ panels[p].ended # "no" /\ p \in Parents
    /\ now - panels[p].status_changed_at >= RemoveAfterSeconds
    /\ UnendedSubagentsOf(p) = {}
GoesAway(p) ==
    /\ panels[p].status = "mini" /\ panels[p].ended # "no"
    /\ now - panels[p].status_changed_at >= RemoveAfterSeconds
    /\ UnendedSubagentsOf(p) = {}

Aged(P, dwell, from, status) ==
    [P EXCEPT !.status = status, !.status_changed_at = Earlier(now, from + dwell)]

TickedPanel(p) ==
    LET P == panels[p]
    IN IF GoesIdle(p) THEN Aged(P, IdleSeconds, P.last_event_at, "done")
                      ELSE Aged(P, MiniSeconds, P.status_changed_at, "mini")

(* tick(): binned panels are frozen; the others take at most one step.     *)
(* The rows of demoted panels are written, the rows of reaped ones go.     *)
Tick ==
    LET running == {p \in DOMAIN panels : ~panels[p].binned}
        demoted == {p \in running : GoesIdle(p) \/ GoesMini(p)}
        reaped == {p \in running : GoesAway(p)}
        aged == [p \in demoted |-> TickedPanel(p)]
    IN /\ ticking
       /\ panels' = [p \in DOMAIN panels \ reaped |-> IF p \in demoted THEN aged[p]
                                                      ELSE panels[p]]
       /\ db' = [p \in (DOMAIN db \cup demoted) \ reaped |->
                    IF p \in demoted THEN PanelToRow(aged[p]) ELSE db[p]]
       /\ stamped' = stamped \ reaped
       /\ UNCHANGED <<now, pendingStartMini, miniTimers, procLive, ticking>>

----------------------------------------------------------------------------
(* The user's commands (trpc.ts).                                          *)

ForceStatus(p, status) ==
    /\ Outside("force") /\ Known(p) /\ panels[p].status # status
    /\ WriteThrough([q \in {p} |-> Forced(panels[p], status)])
    /\ UNCHANGED <<now, pendingStartMini, miniTimers, procLive, stamped, ticking>>

Bin(p) ==
    /\ Outside("bin") /\ Known(p) /\ ~panels[p].binned
    /\ WriteThrough([q \in {p} |-> [panels[p] EXCEPT !.binned = TRUE]])
    /\ UNCHANGED <<now, pendingStartMini, miniTimers, procLive, stamped, ticking>>

Unbin(p) ==
    /\ Outside("bin") /\ Known(p) /\ panels[p].binned
    /\ WriteThrough([q \in {p} |-> [panels[p] EXCEPT !.binned = FALSE,
                                                     !.status_changed_at = now]])
    /\ UNCHANGED <<now, pendingStartMini, miniTimers, procLive, stamped, ticking>>

(* bin.purge: permanent removal of one panel.                              *)
Remove(p) ==
    /\ Outside("remove") /\ Known(p)
    /\ Forget({p})
    /\ UNCHANGED <<now, pendingStartMini, miniTimers, procLive, ticking>>

(* rebuildPanel's teardown of a session and all its subagents; the re-read *)
(* that follows is Ingest.                                                 *)
TearDown(s) ==
    /\ Outside("teardown") /\ Known(s)
    /\ Forget({s} \cup SubagentsOf(s))
    /\ UNCHANGED <<now, pendingStartMini, miniTimers, procLive, ticking>>

----------------------------------------------------------------------------
(* Hook records.  `ts` is the record's own time: records are read late, or *)
(* again, because every sidecar file is replayed when the server starts.   *)

Fresh(ts) == now - ts < Freshness

Stop(s, ts) ==
    /\ Outside("stop") /\ Fresh(ts)
    /\ Known(s) /\ panels[s].status # "done"
    /\ WriteThrough([q \in {s} |-> Forced(panels[s], "done")])
    /\ UNCHANGED <<now, pendingStartMini, miniTimers, procLive, stamped, ticking>>

(* forceStatus("done") when the record is fresh, then markEnded.           *)
Closed(p, ts, provenance) ==
    Ended(IF Fresh(ts) THEN Forced(panels[p], "done") ELSE panels[p], provenance)

SubagentStop(s, ts) ==
    /\ Outside("subagent_stop") /\ UnendedSubagentsOf(s) # {}
    /\ WriteThrough([q \in UnendedSubagentsOf(s) |-> Closed(q, ts, "hook_subagent_stop")])
    /\ UNCHANGED <<now, pendingStartMini, miniTimers, procLive, stamped, ticking>>

SessionEnd(s, ts) ==
    LET family == ({s} \cap DOMAIN panels) \cup UnendedSubagentsOf(s)
    IN /\ Outside("session_end") /\ family # {}
       /\ WriteThrough([q \in family |-> Closed(q, ts, "hook_session_end")])
       /\ UNCHANGED <<now, pendingStartMini, miniTimers, procLive, stamped, ticking>>

Notification(s) ==
    /\ Outside("notification") /\ Known(s) /\ ~panels[s].awaiting
    /\ WriteThrough([q \in {s} |-> [panels[s] EXCEPT !.awaiting = TRUE]])
    /\ UNCHANGED <<now, pendingStartMini, miniTimers, procLive, stamped, ticking>>

(* session_pid names the terminal of a session; its other half is the      *)
(* process tracker's.                                                      *)
SessionPid(s) ==
    /\ Outside("session_pid") /\ PaneOf[s] # NoPane /\ s \notin stamped
    /\ stamped' = stamped \cup {s}
    /\ UNCHANGED <<now, panels, db, pendingStartMini, miniTimers, procLive, ticking>>

(* The sessions a new one may have replaced.                               *)
OpenOthers(s) ==
    {p \in (DOMAIN panels \cap Parents) \ {s} :
        panels[p].ended = "no" /\ ~panels[p].binned}

MostRecent(S) == {p \in S : \A q \in S : panels[q].last_event_at <= panels[p].last_event_at}

(* findPanelByItermGuid: the pane that hosted it now hosts s.              *)
PaneOccupants(s) ==
    {p \in OpenOthers(s) \cap stamped : PaneOf[p] = PaneOf[s] /\ PaneOf[s] # NoPane}

(* findSupersedablePanel: same directory, quiet for a moment but not for   *)
(* long, and no process of its own.                                        *)
Supersedable(s, ts) ==
    {p \in OpenOthers(s) :
        /\ ProjectOf[p] = ProjectOf[s]
        /\ panels[p].last_event_at + SupersedeWithin >= ts
        /\ panels[p].last_event_at + SupersedeMinIdle <= ts
        /\ p \notin procLive}

Predecessors(s, ts) ==
    IF PaneOccupants(s) # {} THEN MostRecent(PaneOccupants(s)) ELSE MostRecent(Supersedable(s, ts))

(* armStartMinimized: a session born of /clear waits in the dock, unless   *)
(* something real already happened on it.                                  *)
Untouched(P) ==
    \A i \in 1..Len(P.events) : TaggedMeta(P.events[i]) \/ IsCommandArtifact(P.events[i])
ArmableAlways(s) == Known(s) /\ panels[s].ended = "no"           \* mutant
Armable(s) == Known(s) /\ panels[s].ended = "no" /\ Untouched(panels[s])
ArmedAnyway(s) == {s}                                           \* mutant
ArmedUnborn(s) == IF Known(s) THEN {} ELSE {s}
Armed(s) == [Forced(panels[s], "mini") EXCEPT !.start_minimized = TRUE]

(* applySessionStartSupersede, for a record whose source is `clear` or     *)
(* `compact`: `auto` is prefs.workspace.autoMinimizeOnClear, `victims` is  *)
(* empty or holds the one predecessor found.                               *)
Supersede(s, source, auto, victims) ==
    LET arms == source = "clear" /\ auto
        armed == IF arms /\ Armable(s) THEN {s} ELSE {}
        retired == victims \cup UNION {UnendedSubagentsOf(v) : v \in victims}
        Retired(q) == Ended(Forced(panels[q], "done"), "hook_session_start_supersede")
    IN /\ WriteThrough([q \in armed \cup retired |-> IF q \in armed THEN Armed(q)
                                                                   ELSE Retired(q)])
       /\ pendingStartMini' = pendingStartMini \cup (IF arms THEN ArmedUnborn(s) ELSE {})
       /\ miniTimers' = IF auto THEN miniTimers \cup
                             {[panel |-> q, due |-> now + SupersedeMiniDelay] : q \in retired}
                           ELSE miniTimers
       /\ UNCHANGED <<now, procLive, stamped, ticking>>

SessionStart(s, source, auto, ts) ==
    /\ Outside("session_start")
    /\ \/ \E v \in Predecessors(s, ts) : Supersede(s, source, auto, {v})
       \/ Predecessors(s, ts) = {} /\ Supersede(s, source, auto, {})

(* The timeout of scheduleSupersedeMini; `pinned` is the user's intention  *)
(* at that moment.                                                         *)
MiniTimerFires(timer, pinned) ==
    LET p == timer.panel
        docked == IF Known(p) /\ panels[p].status = "done" /\ ~pinned THEN {p} ELSE {}
    IN /\ timer \in miniTimers /\ now >= timer.due
       /\ miniTimers' = miniTimers \ {timer}
       /\ WriteThrough([q \in {p} \cap docked |-> Forced(panels[q], "mini")])
       /\ UNCHANGED <<now, pendingStartMini, procLive, stamped, ticking>>

----------------------------------------------------------------------------
(* Stopping and starting the server.                                       *)

(* The process dies and comes back: everything that is not a row is lost,  *)
(* the terminals and the view of the processes included, and hydrate()     *)
(* reloads the rows touched within the window, or exempted by the user's   *)
(* intentions (`kept`).  The hook records are read again before the        *)
(* tracker has looked at a process.                                        *)
Restart(kept) ==
    LET loaded == {p \in DOMAIN db : p \in kept \/ db[p].last_event_at + HydrateWindow >= now}
    IN /\ Outside("restart")
       /\ panels' = [p \in loaded |-> PanelRowToPanel(db[p])]
       /\ pendingStartMini' = {} /\ miniTimers' = {} /\ ticking' = FALSE
       /\ procLive' = {} /\ stamped' = {}
       /\ UNCHANGED <<now, db>>

(* The end of startWatching: endStaleSubagents(idleSeconds), then the      *)
(* periodic tick starts.                                                   *)
FinishBoot ==
    LET stale == {p \in DOMAIN panels \cap Subagents :
                     panels[p].ended = "no" /\ now - panels[p].last_event_at > IdleSeconds}
    IN /\ ~ticking
       /\ ticking' = TRUE
       /\ WriteThrough([q \in stale |-> Ended(panels[q], "bootstrap_stale")])
       /\ UNCHANGED <<now, pendingStartMini, miniTimers, procLive, stamped>>

(* The process tracker's view of a session's `claude` process.             *)
ProcessChange(s) ==
    /\ Outside("process")
    /\ procLive' = IF s \in procLive THEN procLive \ {s} ELSE procLive \cup {s}
    /\ UNCHANGED <<now, panels, db, pendingStartMini, miniTimers, stamped, ticking>>

AdvanceTime ==
    /\ now < MaxTime
    /\ now' = now + 1
    /\ UNCHANGED <<panels, db, pendingStartMini, miniTimers, procLive, stamped, ticking>>

----------------------------------------------------------------------------
Init ==
    /\ now = 0
    /\ panels = <<>> /\ db = <<>>
    /\ pendingStartMini = {} /\ miniTimers = {}
    /\ procLive = {} /\ stamped = {}
    /\ ticking = FALSE

HookStep(ts) ==
    \E s \in Parents :
        \/ Stop(s, ts)
        \/ SubagentStop(s, ts)
        \/ SessionEnd(s, ts)
        \/ \E source \in {"clear", "compact"}, auto \in BOOLEAN :
             SessionStart(s, source, auto, ts)

UserStep ==
    \E p \in PanelIds :
        \/ \E status \in Statuses : ForceStatus(p, status)
        \/ Bin(p)
        \/ Unbin(p)
        \/ Remove(p)
        \/ p \in Parents /\ TearDown(p)

Next ==
    \/ \E r \in Records : Ingest(r)
    \/ Tick
    \/ UserStep
    \/ \E ts \in 0..now : HookStep(ts)
    \/ \E s \in Parents : Notification(s) \/ SessionPid(s)
    \/ \E timer \in miniTimers, pinned \in BOOLEAN : MiniTimerFires(timer, pinned)
    \/ \E kept \in SUBSET DOMAIN db : Restart(kept)
    \/ FinishBoot
    \/ \E s \in Parents : ProcessChange(s)
    \/ AdvanceTime

Spec == Init /\ [][Next]_vars

(* The interval timer keeps ticking, startWatching returns, time passes.   *)
(* Nothing is assumed of the outside world.                                *)
Fairness == WF_vars(Tick) /\ WF_vars(FinishBoot) /\ WF_vars(AdvanceTime)
FairSpec == Spec /\ Fairness

----------------------------------------------------------------------------
(* Properties.                                                             *)

(* Every variable has its type, and what apply() pushes never makes an     *)
(* event list outgrow MAX_EVENTS_PER_PANEL.                                *)
TypeOK ==
    /\ now \in Nat
    /\ DOMAIN panels \subseteq PanelIds
    /\ \A p \in DOMAIN panels : panels[p] \in Panel /\ Len(panels[p].events) <= EventsCap
    /\ DOMAIN db \subseteq PanelIds
    /\ \A p \in DOMAIN db : db[p] \in Row
    /\ pendingStartMini \subseteq Parents
    /\ miniTimers \subseteq Timer
    /\ procLive \subseteq Parents /\ stamped \subseteq Parents
    /\ ticking \in BOOLEAN

(* No panel's last activity is ahead of the clock, whatever timestamps the *)
(* transcripts carry, and a status stamp runs ahead of the clock by less   *)
(* than one idle window of the last activity.                              *)
StampsBounded ==
    \A p \in DOMAIN panels :
        /\ panels[p].last_event_at <= now
        /\ \/ panels[p].status_changed_at <= now
           \/ panels[p].status_changed_at <= panels[p].last_event_at + IdleSeconds

(* A session waiting in the dock since its /clear holds no real input: of  *)
(* the records read since the server started, and still in its list, all   *)
(* are meta records and command artifacts, in whichever order hook and     *)
(* transcript came.  (A restart empties the list: the hook, read again,    *)
(* then docks even a session that was used, until one of its records is    *)
(* read again and it leaves the dock.  Once a session has ended, late      *)
(* records are kept for audit without waking it.)                          *)
DockedMeansUntouched ==
    \A p \in DOMAIN panels :
        panels[p].start_minimized /\ panels[p].ended = "no" => Untouched(panels[p])

(* A "born minimized" order is outstanding only for a session that has no  *)
(* panel: the hook and the transcript race for it, and neither order       *)
(* leaves an order behind to catch the session a second time.              *)
NoStaleArming == pendingStartMini \cap DOMAIN panels = {}

(* An end is final: no activity, tick, command, timer or restart undoes    *)
(* one, save that a supersede is withdrawn by strictly newer activity.     *)
EndedIsFinal ==
    [][\A p \in DOMAIN panels \cap DOMAIN panels' :
         panels[p].ended # "no" /\ panels'[p].ended # panels[p].ended =>
           /\ panels[p].ended = "hook_session_start_supersede"
           /\ panels'[p].last_event_at > panels[p].last_event_at]_vars

(* The death rattle of a closed session (late records of any class) never  *)
(* brings its panel back to life: only the user can.                       *)
NoResurrection ==
    [][\A p \in DOMAIN panels \cap DOMAIN panels' :
         /\ panels[p].ended # "no" /\ panels'[p].ended = panels[p].ended
         /\ panels[p].status # "live" /\ panels'[p].status = "live"
         => ForceStatus(p, "live")]_vars

(* Command noise and meta records leave a session born of /clear in the    *)
(* dock, whether its hook or its transcript came first.                    *)
NoiseNeverUndocks ==
    [][\A r \in Records :
         Ingest(r) /\ (TaggedMeta(r) \/ IsCommandArtifact(r)) =>
           LET p == PanelOf[r]
           IN /\ p \in pendingStartMini => panels'[p].status = "mini"
              /\ Known(p) /\ panels[p].start_minimized /\ panels[p].ended = "no"
                   => panels'[p].status = panels[p].status]_vars

(* The tick never removes a session from over a subagent of its that has   *)
(* not ended, docked, idle or binned as that subagent may be.              *)
ReapLeavesNoOrphan ==
    [][Tick => \A p \in DOMAIN panels \ DOMAIN panels' :
         \A c \in DOMAIN panels' \cap Subagents :
           ParentOf[c] = p => panels'[c].ended # "no"]_vars

(* A panel's last activity never moves back, out of order as its records   *)
(* may arrive and often as the server may restart; so history read again   *)
(* is never strictly newer than what the panel already knows, which is     *)
(* what self-healing relies on.                                            *)
ActivityNeverRewinds ==
    [][\A p \in DOMAIN panels \cap DOMAIN panels' :
         panels'[p].last_event_at >= panels[p].last_event_at]_vars

(* When the outside world falls silent, every panel outside the bin ends   *)
(* up in the dock, even one whose process stays alive.                     *)
QuietPanelsDock == <>[](\A p \in DOMAIN panels : panels[p].binned \/ panels[p].status = "mini")

(* When the outside world falls silent, every panel that has ended is      *)
(* removed, unless it is in the bin or waits for a subagent of its own.    *)
QuietEndedPanelsGo ==
    <>[](\A p \in DOMAIN panels :
           panels[p].ended = "no" \/ panels[p].binned \/ UnendedSubagentsOf(p) # {})
=============================================================================
