---------------------------- MODULE ProcessTracker ----------------------------
(***************************************************************************)
(* The process table: server/src/processes/index.ts (the tracker: ticks,   *)
(* port sweeps, hook records), processes/reconciler.ts (what one tick does *)
(* to the rows), the processes.subscribe generator of server/src/trpc.ts   *)
(* and the reducer of client/src/useProcesses.ts.                          *)
(*                                                                         *)
(* A tick samples `ps`, folds the sample into the rows, awaits the themes  *)
(* and only then tells the clients.  Meanwhile processes start, fork,      *)
(* exit, are reparented and have their pid taken over; Claude sessions     *)
(* begin, end and are cleared, and the hook records saying so arrive late. *)
(*                                                                         *)
(* A process is a pid and the number of its life.  Labels (runtime,        *)
(* framework, theme, account, terminal, command) are left out, and of the  *)
(* ports only whether there are any.  A kill is a process that exits.      *)
(***************************************************************************)
EXTENDS Integers, Sequences, FiniteSets

CONSTANTS
    Pids,
    Sessions,
    Lives,          \* bound of the model: pid -> how often it is given out
    Starters,       \* process -> the pids that may start it
    Claudes,        \* the processes whose image is `claude`
    Backgrounds,    \* those a run_in_background Bash call, told by a hook, starts
    Brief,          \* those that never turn SIGNAL_MIN_UPTIME_S seconds old
    Binders,        \* those that may come to listen on a port
    Near,           \* process -> the sessions whose directory holds its cwd
    NoPid,          \* launchd: whoever adopts an orphan
    NoSession

Ids == {id \in Pids \X (1..3) : id[2] <= Lives[id[1]]}

ASSUME LivesAssumption == Lives \in [Pids -> 1..3]
ASSUME ClaudesAssumption == Claudes \cup Backgrounds \cup Brief \cup Binders \subseteq Ids
ASSUME StartersAssumption == Starters \in [Ids -> SUBSET (Pids \cup {NoPid})]
ASSUME NearAssumption == Near \in [Ids -> SUBSET Sessions]
ASSUME NoneAssumption == NoPid \notin Pids /\ NoSession \notin Sessions

VARIABLES
    proc,           \* pid -> the process that has it now, or had it last
    begun,          \* sessions that ever began
    hooks,          \* hook records written and not yet read
    registered,     \* Reconciler.sessions, in the order of the Map
    rows,           \* Reconciler.rows
    broadcasted,    \* Reconciler.broadcasted
    samples,        \* ticks that have their `ps` output
    batches,        \* ticks that await the themes: what they will emit
    skipped,        \* the last sample missed a running process
    sweep,          \* the port sweep that has its `lsof` output
    client          \* the subscribed client, the rows it shows, and of these
                    \* the ones the tracker has announced by an upsert

world == <<proc, begun>>
table == <<rows, broadcasted>>
vars == <<world, hooks, registered, table, samples, batches, skipped, sweep, client>>

Proc == [life : 0..3, up : BOOLEAN, parent : Pids \cup {NoPid}, old : BOOLEAN,
         binds : BOOLEAN, session : Sessions \cup {NoSession}]
Record == [kind : {"session_pid", "session_end"}, session : Sessions, pid : Pids]
Row == [session : Sessions \cup {NoSession}, project : BOOLEAN,
        provenance : {"hooked", "observed", "heuristic", "discovered"},
        ancestors : Seq(Pids), old : BOOLEAN, ports : BOOLEAN, missing : {0, 1}]
NoRow == [missing |-> 2]
Line == [life : 0..3, parent : Pids \cup {NoPid}, old : BOOLEAN]
Sample == [lines : UNION {[P -> Line] : P \in SUBSET Pids}, partial : BOOLEAN]
Batch == [upserts : SUBSET Ids, deletes : SUBSET Ids]
Asleep == [listening |-> {NoPid}]
NoClient == [on |-> FALSE, shown |-> {}, told |-> {}]

Tracked == {id \in Ids : rows[id] # NoRow}
Running(id) == proc[id[1]].up /\ proc[id[1]].life = id[2]

-----------------------------------------------------------------------------
(* The operators of a tick *)

\* `ps` read from p's parent upwards, to the first pid the sample has no line for
Ancestors(S, p) ==
    LET climb[q \in Pids \cup {NoPid}, n \in 0..Cardinality(Pids)] ==
            IF q = NoPid \/ n = 0 THEN <<>>
            ELSE IF q \in DOMAIN S.lines THEN <<q>> \o climb[S.lines[q].parent, n - 1] ELSE <<q>>
    IN  climb[S.lines[p].parent, Cardinality(Pids)]

\* The session registered last for a pid of the set
LastOf(pids) ==
    LET hits == {i \in DOMAIN registered : registered[i].pid \in pids}
    IN  IF hits = {} THEN NoSession
        ELSE registered[CHOOSE i \in hits : \A j \in hits : j <= i].session

\* sessionOf: the walk down from the session roots, a later session overriding
InTree(S, p) ==
    LET up == Ancestors(S, p) IN LastOf({p} \cup {up[i] : i \in DOMAIN up})

\* The nearest remembered ancestor that is a session's root now
InLineage(row) ==
    LET hits == {i \in DOMAIN row.ancestors : LastOf({row.ancestors[i]}) # NoSession}
    IN  IF hits = {} THEN NoSession
        ELSE LastOf({row.ancestors[CHOOSE i \in hits : \A j \in hits : i <= j]})

Attributed(row, s, how) ==
    IF row.session # NoSession \/ s = NoSession THEN row
    ELSE [row EXCEPT !.session = s, !.provenance = IF @ = "discovered" THEN how ELSE @]

\* The row takes a project from its session, if that one is registered
WithProject(row) ==
    IF \E i \in DOMAIN registered : registered[i].session = row.session
    THEN [row EXCEPT !.project = TRUE] ELSE row

\* The process tree as it is, then as it was when the row was new
ClaimedByTreeOnly(row, S, p) == Attributed(row, InTree(S, p), "observed")      \* mutant

Claimed(row, S, p) ==
    Attributed(Attributed(row, InTree(S, p), "observed"), InLineage(row), "observed")

ByDirectory(row, id) ==
    LET matches == {registered[i].session : i \in DOMAIN registered} \cap Near[id]
    IN  IF row.session # NoSession \/ row.project \/ matches = {} THEN row
        ELSE IF Cardinality(matches) = 1
             THEN [Attributed(row, CHOOSE s \in matches : TRUE, "heuristic") EXCEPT !.project = TRUE]
             ELSE [row EXCEPT !.project = TRUE,
                              !.provenance = IF @ = "discovered" THEN "heuristic" ELSE @]

WithIntent(row, id) ==
    IF row.session # NoSession /\ row.provenance = "observed" /\ id \in Backgrounds
    THEN [row EXCEPT !.provenance = "hooked"] ELSE row

createRow(S, p) ==
    LET s == InTree(S, p)
    IN  [session |-> s, project |-> FALSE,
         provenance |-> IF s = NoSession THEN "discovered" ELSE "observed",
         ancestors |-> Ancestors(S, p), old |-> FALSE, ports |-> FALSE, missing |-> 0]

\* What a tick makes of the row of a process its sample shows
Refreshed(S, p, cwds) ==
    LET id == <<p, S.lines[p].life>>
        row == IF rows[id] = NoRow THEN createRow(S, p) ELSE rows[id]
        placed == WithProject(Claimed(row, S, p))
    IN  [WithIntent(IF cwds THEN ByDirectory(placed, id) ELSE placed, id)
            EXCEPT !.old = S.lines[p].old, !.missing = 0]

\* Of the rows a sample misses, those it finishes: missed for the second time
GoneAtOnce(missed) == missed                                   \* mutant
GoneNever(missed) == {}                                         \* mutant
Gone(missed) == {id \in missed : rows[id].missing = 1}

qualifiesForBroadcast(row, id) ==
    \/ id \in Claudes
    \/ row.ports
    \/ row.provenance # "discovered" /\ (row.old \/ row.provenance = "hooked")

getQualifyingRows == {id \in Tracked : qualifiesForBroadcast(rows[id], id)}
liveSessionIds == {rows[id].session : id \in getQualifyingRows} \ {NoSession}

-----------------------------------------------------------------------------
(* The machine *)

Unused == [life |-> 0, up |-> FALSE, parent |-> NoPid, old |-> FALSE, binds |-> FALSE,
           session |-> NoSession]

Init ==
    /\ proc = [p \in Pids |-> Unused]
    /\ begun = {}
    /\ hooks = <<>>
    /\ registered = <<>>
    /\ rows = [id \in Ids |-> NoRow]
    /\ broadcasted = {}
    /\ samples = {}
    /\ batches = {}
    /\ skipped = FALSE
    /\ sweep = Asleep
    /\ client = NoClient

NoTick == UNCHANGED <<registered, table, samples, batches, skipped, sweep, client>>

\* The pid is given to a new process
Start(p) ==
    /\ ~proc[p].up /\ proc[p].life < Lives[p]
    /\ \E q \in {q \in Pids : proc[q].up} \cup {NoPid} :
          /\ q \in Starters[<<p, proc[p].life + 1>>]
          /\ proc' = [proc EXCEPT ![p] = [Unused EXCEPT !.life = proc[p].life + 1, !.up = TRUE, !.parent = q]]
    /\ UNCHANGED <<begun, hooks>> /\ NoTick

\* It turns SIGNAL_MIN_UPTIME_S seconds old (a claude process is shown at any
\* age), or listens on a port
Age(p) ==
    /\ proc[p].up /\ ~proc[p].old /\ <<p, proc[p].life>> \notin Claudes \cup Brief
    /\ proc' = [proc EXCEPT ![p].old = TRUE]
    /\ UNCHANGED <<begun, hooks>> /\ NoTick

Bind(p) ==
    /\ proc[p].up /\ ~proc[p].binds /\ <<p, proc[p].life>> \in Binders
    /\ proc' = [proc EXCEPT ![p].binds = TRUE]
    /\ UNCHANGED <<begun, hooks>> /\ NoTick

\* It exits, killed or by itself; its children are adopted.  A session in it
\* that ends in order says so; one whose process dies does not.
Exit(p) ==
    /\ proc[p].up
    /\ proc' = [q \in Pids |->
          IF q = p THEN [Unused EXCEPT !.life = proc[p].life]
          ELSE IF proc[q].parent = p THEN [proc[q] EXCEPT !.parent = NoPid] ELSE proc[q]]
    /\ \/ hooks' = hooks
       \/ /\ proc[p].session # NoSession
          /\ hooks' = Append(hooks, [kind |-> "session_end", session |-> proc[p].session, pid |-> p])
    /\ UNCHANGED begun /\ NoTick

\* A session begins in a claude process.  After a /clear the process has one
\* already: that one ends, and the new one reports the same pid.
BeginSession(p, s) ==
    /\ proc[p].up /\ <<p, proc[p].life>> \in Claudes /\ s \notin begun
    /\ proc' = [proc EXCEPT ![p].session = s]
    /\ begun' = begun \cup {s}
    /\ LET pid == [kind |-> "session_pid", session |-> s, pid |-> p]
           end == [kind |-> "session_end", session |-> proc[p].session, pid |-> p]
       IN  hooks' = hooks \o (IF proc[p].session = NoSession THEN <<pid>> ELSE <<end, pid>>)
    /\ NoTick

handleHookRecord ==
    /\ hooks # <<>>
    /\ LET rec == Head(hooks)
           at == {i \in DOMAIN registered : registered[i].session = rec.session}
           info == [session |-> rec.session, pid |-> rec.pid]
           other(i) == i.session # rec.session
       IN  registered' = IF rec.kind = "session_end" THEN SelectSeq(registered, other)
                         ELSE IF at = {} THEN Append(registered, info)
                         ELSE [registered EXCEPT ![CHOOSE i \in at : TRUE] = info]
    /\ hooks' = Tail(hooks)
    /\ UNCHANGED <<world, table, samples, batches, skipped, sweep, client>>

\* tickOnce up to the samples; at most one tick at a time.  Of two samples in a
\* row at most one misses a running process.  When `ps` fails tickOnce gives up:
\* a tick that does not happen.
TakeSample ==
    /\ LET up == {p \in Pids : proc[p].up}
           line(p) == [life |-> proc[p].life, parent |-> proc[p].parent, old |-> proc[p].old]
           sample(seen) == [lines |-> [p \in seen |-> line(p)], partial |-> seen # up]
       IN  \E left \in {{}} \cup {{p} : p \in IF skipped THEN {} ELSE up} :
              samples' = samples \cup {sample(up \ left)}
    /\ UNCHANGED <<world, hooks, registered, table, batches, skipped, sweep, client>>

BeginTickUnguarded == TakeSample                                \* mutant
BeginTick == samples = {} /\ batches = {} /\ TakeSample

\* Reconciler.tick; cwds: whether `lsof -d cwd` answered
Reconcile(S, cwds) ==
    LET present == {<<p, S.lines[p].life>> : p \in DOMAIN S.lines}
        recycled == {id \in Tracked : id \notin present /\ id[1] \in DOMAIN S.lines}
        missed == Tracked \ (present \cup recycled)
        gone == Gone(missed)
        upserts == {id \in present : qualifiesForBroadcast(rows'[id], id)}
    IN  /\ rows' = [id \in Ids |->
                  IF id \in present THEN Refreshed(S, id[1], cwds)
                  ELSE IF id \in missed \ gone THEN [rows[id] EXCEPT !.missing = 1]
                  ELSE NoRow]
        /\ broadcasted' = (broadcasted \cup upserts) \ gone
        /\ samples' = samples \ {S}
        /\ batches' = batches \cup {[upserts |-> upserts, deletes |-> gone \cap broadcasted]}
        /\ skipped' = S.partial
        /\ UNCHANGED <<world, hooks, registered, sweep, client>>

\* The themes are in: upserts, then deletes, to whoever is subscribed by now
Emit(B) ==
    /\ batches' = batches \ {B}
    /\ client' = IF ~client.on THEN client
                 ELSE [on |-> TRUE, shown |-> (client.shown \cup B.upserts) \ B.deletes,
                       told |-> (client.told \cup B.upserts) \ B.deletes]
    /\ UNCHANGED <<world, hooks, registered, table, samples, skipped, sweep>>

\* maybeSweepPorts up to the `lsof` output; a sweep whose `lsof` fails is null, not
\* "nothing listens", and changes nothing: a sweep that does not happen
BeginSweep ==
    /\ client.on /\ sweep = Asleep
    /\ sweep' = [listening |-> {p \in Pids : proc[p].up /\ proc[p].binds}]
    /\ UNCHANGED <<world, hooks, registered, table, samples, batches, skipped, client>>

\* A row has the ports of its pid and of the tracked rows it was an ancestor of
ApplySweep ==
    /\ sweep # Asleep
    /\ LET lent(id) == {d[1] : d \in {d \in Tracked :
                           \E i \in DOMAIN rows[d].ancestors : rows[d].ancestors[i] = id[1]}}
       IN  rows' = [id \in Ids |->
              IF rows[id] = NoRow THEN NoRow
              ELSE [rows[id] EXCEPT !.ports = ({id[1]} \cup lent(id)) \cap sweep.listening # {}]]
    /\ sweep' = Asleep
    /\ UNCHANGED <<world, hooks, registered, broadcasted, samples, batches, skipped, client>>

\* processes.subscribe: listeners first, then the snapshot
Subscribe ==
    /\ ~client.on
    /\ client' = [on |-> TRUE, shown |-> getQualifyingRows,
                   told |-> getQualifyingRows \cap broadcasted]
    /\ UNCHANGED <<world, hooks, registered, table, samples, batches, skipped, sweep>>

Unsubscribe ==
    /\ client.on
    /\ client' = NoClient
    /\ UNCHANGED <<world, hooks, registered, table, samples, batches, skipped, sweep>>

Next ==
    \/ \E p \in Pids : Start(p) \/ Age(p) \/ Bind(p) \/ Exit(p)
    \/ \E p \in Pids, s \in Sessions : BeginSession(p, s)
    \/ handleHookRecord
    \/ BeginTick
    \/ \E S \in samples, cwds \in BOOLEAN : Reconcile(S, cwds)
    \/ \E B \in batches : Emit(B)
    \/ BeginSweep \/ ApplySweep
    \/ Subscribe \/ Unsubscribe

Spec == Init /\ [][Next]_vars

\* The timer ticks for ever, the hook files are polled, `ps` does not fail for
\* ever, and a tick that began runs to its end.  Processes, users and clients owe nothing.
FairSpec ==
    /\ Spec
    /\ WF_vars(BeginTick)
    /\ WF_vars(handleHookRecord)
    /\ WF_samples(samples # {} /\ samples' = {})      \* a Reconcile, which nothing else is
    /\ WF_vars(\E B \in batches : Emit(B))

-----------------------------------------------------------------------------
(* Correctness *)

\* The variables hold what the code's collections can hold.
TypeOK ==
    /\ proc \in [Pids -> Proc] /\ begun \subseteq Sessions
    /\ hooks \in Seq(Record) /\ registered \in Seq([session : Sessions, pid : Pids])
    /\ \A id \in Ids : rows[id] \in Row \cup {NoRow}
    /\ broadcasted \subseteq Ids
    /\ samples \subseteq Sample /\ batches \subseteq Batch /\ skipped \in BOOLEAN
    /\ sweep = Asleep \/ sweep.listening \subseteq Pids
    /\ client.on \in BOOLEAN /\ client.told \subseteq client.shown /\ client.shown \subseteq Ids

\* A session once seen live through its claude process stays live while that
\* process runs, whatever one `ps` sample misses and whichever hook records
\* arrive: SessionStore does not retire a working session (reconciler.ts,
\* "two-tick absence", and qualifiesForBroadcast).
LiveStaysLive ==
    [][\A id \in Claudes :
          (rows[id] # NoRow /\ rows[id].session # NoSession /\ Running(id)) =>
              rows[id].session \in liveSessionIds' \/ ~Running(id)']_vars

\* What a client shows, of what was ever announced, the tracker tracks, or the
\* delete is on its way, or the pid has passed to another process: ticks never
\* overlap, so no upsert is emitted after the delete of the same row, and a
\* snapshot loses nothing (index.ts tickOnce, trpc.ts subscribe).
NoGhostRows ==
    \A id \in client.told :
        \/ id \in Tracked
        \/ \E B \in batches : id \in B.deletes
        \/ proc[id[1]].life > id[2]

\* A session none of whose processes runs drops out of the live set: a `lost`
\* row is dropped, and nothing keeps a row of a dead process for ever
\* (liveSessionIds, "drops out within ~2 sweeps").
DeadSessionsDropOut ==
    \A s \in Sessions :
        []<>(s \notin liveSessionIds \/ \E id \in Tracked : rows[id].session = s /\ Running(id))

\* A process that was seen under a pid which later turns out to be a session's
\* gets a session, though it has long been adopted by another parent
\* (reconciler.ts, original_ancestors).
OrphansAreFound ==
    \A id \in Ids :
        LET row == rows[id]
            found == row # NoRow /\ InLineage(row) # NoSession
        IN  Running(id) /\ found ~> ~Running(id) \/ ~found \/ row.session # NoSession

\* After a /clear the process of the cleared session belongs to the new one:
\* "the true predecessor's pid re-attributes to the new session id"
\* (docs/assertions.md, session.ts findSupersedablePanel).
PidFollowsTheSession ==
    \A p \in Pids, s \in Sessions :
        (proc[p].up /\ LastOf({p}) = s /\ proc[p].session = s)
        ~> (\/ ~proc[p].up \/ proc[p].session # s \/ LastOf({p}) # s
            \/ LET row == rows[<<p, proc[p].life>>] IN row # NoRow /\ row.session = s)
=============================================================================
