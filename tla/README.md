# Brainhouse in TLA+

Brainhouse watches Claude Code sessions: a Node server tails the transcripts and
the hook sidecar files that the sessions write, keeps one *panel* per session and
per subagent, and streams every change of a panel to browsers. This directory
holds TLA+ models of the parts whose correctness depends on order and timing, TLC
runs of small instances, and TLAPS proofs of safety properties for every value
of the constants. Paths are relative to the repository's root; `session.ts` and
the like are under `server/src/` unless another directory is named.

## 1. The system

### 1.1 Components

| Component | State it keeps | Operations | Module |
| --- | --- | --- | --- |
| Panel lifecycle: `SessionStore` (`session.ts`), handlers in `monitor.ts` | `panels`, `pendingStartMini`, supersede timers; rows in the panels table | `apply` for each record, `tick`, `forceStatus`, `bin`/`unbin`/`remove`, `markEnded`, `armStartMinimized`, `findSupersedablePanel`, `hydrate`, `endStaleSubagents`; one handler per hook record | `PanelLifecycle` |
| Delta stream: the store's emitter, `deltas` in `trpc.ts`, `client/src/useDeltaStream.ts` | listeners; messages under way; the client's panels and removal timeouts | every emission, `snapshot`, subscribe, reconnect, `reducer`, `commit_remove` | `DeltaStream` |
| Hook sidecar tail: `hookEvents.ts`, written by `hooks/dispatcher.mjs` | byte offsets (memory only), drains under way | `start` (replay, then watch), `drain` | `HookTail` |
| Transcript tail: `watcher.ts`, `watchBackend.ts`, root swap and rebuild in `monitor.ts` | offsets in memory and in SQLite, a promise chain, deferred files | bootstrap walk, tail, `rereadFromStart`, reconcile scan, `stop` | `TranscriptTail` |
| Background indexer: `indexer.ts` | the deferred queue | drain one file per turn | `TranscriptTail` |
| Spawn gate: `processes/spawnQueue.ts` | permit counter, parked callers, retry counters | `serializeSpawn`, `execWithRetry` | `SpawnGate` |
| Process tracker and reconciler: `processes/`, its subscription in `trpc.ts`, `client/src/useProcesses.ts` | rows per process, registered sessions, miss counts, what was broadcast | tick (sample, reconcile, emit), port sweep, hook records, subscribe | `ProcessTracker` |
| Alert queue: `alertQueue.ts`, polled by `menubar/Sources/Alerts.swift` | grace timers, queued alerts, ids; the helper's cursor | await, answer, fire, list, expire, poll | `AlertQueue` |
| Names: title code in `session.ts`, `titler.ts` | title, rename flag, suppression; the titler's timers, cooldowns and requests | prompts, custom and ai titles, `/clear` suppression, evaluate, propose | `PanelTitle` |
| Full-text search: `search/service.ts`, `worker.ts`, `ingest.ts` | pending calls; the worker's hot and cold queues; rows and docs in its database | calls, scans, prune, chunked steps, respawn | `SearchWorker` |
| Parser: `parser.ts` | none | JSON record to events | |
| SQLite store: `store.ts` | panels, offsets, events, summaries, flags | upserts, queries, retention | |
| Preferences: `prefs.ts` | one JSON file, cache | get, update | |
| Client layout: `client/src/lib/` | dismissed panels, slots, order | dismissal, slot allocation, ordering | |
| Presentation, launcher, hook scripts, HTTP routes, one-shot pure functions | | | |

### 1.2 How they interact

Transcript files reach `Monitor.ingest` through the transcript tail, and `ingest`
calls `SessionStore.apply`. Hook records reach `Monitor.applyHookEvent` through the
hook tail, which calls `forceStatus`, `markEnded`, `setAwaiting` and the supersede
logic of the same store. An interval timer calls `tick`. The user's commands come
as tRPC mutations. The store emits *deltas* synchronously from inside these calls;
each `deltas` subscription forwards them to one browser, whose reducer folds them
into what it shows. The same hook records go to the process tracker, which tells
the store which sessions still have a process, and runs its `ps`, `lsof` and `git`
children through the spawn gate. A panel that begins to await input starts a grace
timer of the alert queue, and the menu bar helper polls what came of it. Every
ingested record may make the titler ask a model for a name. The transcript tail
also tells the search worker, on another thread, which files grew.
At start the store hydrates from SQLite, the hook files are replayed, the
transcripts are walked, stale subagents are ended, and only then does the tick
start (`monitor.ts:257-282`).

### 1.3 What is hard

* JavaScript runs one callback at a time, so a *synchronous* handler is atomic.
  Whatever lies around an `await` is not: drains of one file overlap, reads of one
  transcript run on a chain and beside it, spawns queue for permits and are
  overtaken, a subscription reads a snapshot long before its listener is attached,
  a process sample is old when it is reconciled, a proposal answers a question about
  a title that has changed since, a directory walk lists what is no longer so.
* Nothing orders the two sources of truth. The transcript of a session and its
  hook records arrive in any order, late, and, after every restart, again. Panels
  are created, docked, named, ended and revived from both.
* Decisions rest on guesses and stamps: `/clear` picks the session it replaces by
  directory and idleness, self-healing withdraws the guess on newer activity, a
  process belongs to a session by its ancestors, its directory or a hook.
* The server may die between any two handlers, and so may the search worker; only
  rows and files survive.
* Caps exist at four places of the event history (server list, snapshot, reseed,
  client window), and each drops in chunks.

### 1.4 What makes each component correct

* **Panels**: activity is monotone and never ahead of the clock, across restarts
  too; an end is final unless a supersede is disproved; no noise revives a closed or
  docked panel; no running subagent is orphaned; quiet panels dock and ended ones
  leave.
* **Delta stream**: but for what was fired before its listener was attached, a client
  agrees with the server on status, shows no panel the server has forgotten, and
  holds a contiguous tail of each transcript.
* **Hook tail**: no record skipped or overtaken, each handed over in the end if
  changes go on being heard.
* **Transcript tail**: in one life of the server, across root swaps and rebuilds, no
  line skipped or overtaken, and none twice unless the code asked for it; across
  lives, every line read in the end and old files indexed.
* **Spawn gate**: never more children than permits, no permit idle while a caller
  waits, every call returns, and runs as often as it may.
* **Process tracker**: a working session counts as live whatever one sample misses,
  a dead one does not for ever, an orphan finds its session, a browser shows no
  process that is gone.
* **Alert queue**: one banner per wait, and one for every wait that lasts.
* **Names**: a `/rename` stands; the name of a cleared session stays away; the model
  is asked at the configured pace, and is asked.
* **Search**: no line indexed twice or half, no call hangs, the index catches up.

The hazards behind these are listed, each at its line, in `PROJECT.json`.

## 2. The modules

| Module | What it is |
| --- | --- |
| `PanelLifecycle` | the store, its tick, the hook handlers, the user's commands, restarts |
| `MCPanel`, `MCFamily`, `MCSupersede` | instances: one session; a session and its subagent; two sessions and a subagent |
| `DeltaStream`, `MCDeltaStream` | server emitter, subscription, client reducer; its instance |
| `HookTail`, `MCHookTail` | the sidecar tail; its instance |
| `TranscriptTail`, `MCTail` | the transcript tail with indexer, root swap, rebuild and restarts; its instance |
| `SpawnGate`, `MCSpawnGate` | the semaphore with retries; its instance |
| `SpawnPromise` | what the gate promises, without queue or wake-ups: the abstract specification `SpawnGate` refines |
| `ProcessTracker`, `MCProcesses`, `MCClear` | the machine's processes, the tracker, a browser; an instance with reuse of a pid, one with `/clear` |
| `AlertQueue`, `MCAlerts` | grace timers, queue, the polling helper; its instance |
| `PanelTitle`, `MCTitle` | the name of a session from transcript, hooks and titler; its instance |
| `SearchWorker`, `MCSearch` | the search service, its worker thread and its index; its instance |
| `PanelLifecycleProofs`, `DeltaStreamProofs`, `TranscriptTailProofs`, `HooksAndTrackerProofs`, `SpawnGateProofs`, `AlertQueueProofs`, `PanelTitleProofs`, `SearchWorkerProofs` | the proofs |

Operators marked `\* mutant` beside a definition are the same definition with a
plausible bug. No specification uses them; `PROJECT.json` pairs each with the
property that exposes it.

### 2.1 `PanelLifecycle`

`panels` is the map of the same name in `SessionStore`; `db` is the panels table.
A panel keeps the fields that decide its life: `status`, `last_event_at`,
`status_changed_at`, `binned`, `awaiting`, `ended` (with its provenance),
`start_minimized` and the uuids in its event list. `pendingStartMini` is the set of
sessions the `/clear` hook announced before their first record; `miniTimers` holds
the five-second timeouts of `scheduleSupersedeMini`; `procLive` is what the process
tracker would answer, and is empty after a restart until the tracker has looked;
`stamped` are the sessions whose panel knows its terminal (`PaneOf`), which the
`session_pid` record tells and a restart forgets; `ticking` says that `startWatching`
has come to its end.

| Action | Code |
| --- | --- |
| `Ingest(r)` | `apply()` whole (`session.ts:394-526`): creation with the settled state, dedupe by uuid, the cap, awaiting, self-healing, promotion and settling, the finished checklist of a subagent |
| `Tick` | `tick()` (`session.ts:572-633`), all panels in one step |
| `ForceStatus`, `Bin`, `Unbin`, `Remove` | the mutations of `trpc.ts` and what they call |
| `TearDown` | the synchronous teardown of `rebuildPanel`; the read that follows is `Ingest` |
| `Stop`, `SubagentStop`, `SessionEnd`, `Notification`, `SessionStart`, `SessionPid` | `applyHookEvent` (`monitor.ts:471-587`); a record carries its own time, which may be old |
| `MiniTimerFires` | `monitor.ts:451-466` |
| `Restart(kept)`, `FinishBoot` | the death of the process and `hydrate()`; the boot sweep and the start of the tick |
| `ProcessChange` | the tracker's answer changes |

A record is abstracted to its panel, its timestamp and its class, which is what
`apply` tells apart: ordinary text, a finished checklist, a command artifact, a
meta-tagged text, a record of kind `meta`, and a `resource_usage` side record.

Of a row, the columns of these fields. Left out: titles (in `PanelTitle`; the name and
agent type that `applyParentTaskTitle` gives a subagent are not even saved by it,
`session.ts:1216-1232`), tokens, working directory, themes, summaries; a session
that moves to another terminal (`PaneOf` is a constant); the
reopening of an old panel; `setTimings`; the breadcrumb of an automatic title
(it is in `DeltaStream`). The `await` in `rebuildPanel` between listing the
subagents and tearing them down (`monitor.ts:836`) is not modelled: `TearDown` is
one step. Neither is the one in `restorePanel` (`monitor.ts:681`).

### 2.2 `DeltaStream`

The server side keeps of a panel its status, bin flag and event list, plus `aged`,
the panels outside the UI window. Each handler says what it emits and in which
order; when it may change a status is `PanelLifecycle`'s subject, so here
`Ingest` chooses among the outcomes the source allows. The two snapshots of the
panel that `apply` may emit, before the status moves and after it, are the
values `early` and `late`. `link`, `queue`, `view` and
`timers` are the subscription, the messages under way, the reducer's panels and
the timeouts of `commit_remove`. `Disconnect` loses the queue and keeps the view;
`Reload` loses both. Handlers fire whether or not somebody listens: `missed` records
what was fired between the snapshot and the listener (`link = "greeted"`), as pairs of
a panel and what the client goes without, a status, an event or the removal. `Purge`
is `bin.purge`; `Rebuild` the teardown of `rebuildPanel`, after which the same records,
with the same numbers, are read again.

### 2.3 `HookTail`

One sidecar file as a sequence of pieces; a torn line is a head and a tail.
A call of `drain()` is a process that takes the size (`stat`), then the offset,
reads, hands over one line per step, and moves the offset. `Report` is the watch's
callback, which starts a drain without waiting for another. The watch may lose a
change (`LoseNotice`: an event without a file name, `watchBackend.ts:107`, or one the
file system dropped), and unlike the transcripts' it has no reconcile scan
(`hookEvents.ts:129-135`); a drain may fail to stat or, in the replay, to read
(`Fail`; once the watch is armed nobody catches a failed read, which is then the
death of the process). `deaf` says that either happened since a change was last
heard. Each file has its own
offset and its own records, so one file is enough. Truncation is left out:
nothing in the repository truncates or rotates a sidecar. Initial states, steps and
the specification are named `HookInit`, `HookNext`, `HookSpec`, so that the proof
module can speak of this module and of `ProcessTracker` at once.

### 2.4 `SpawnGate` and `SpawnPromise`

A step is what runs between two awaits. A finishing spawn decrements the counter
and wakes the head of the queue, which tests the gate again later: a new caller
may have taken the permit. A transient failure sends the caller to sleep and back
to the gate. The diagnostic counters are left out, and with them
`resetSpawnDiagnostics`, which only tests call.

`SpawnPromise` has neither queue nor counter: a call is idle, waiting, running or
settled, at most `Permits` run, and a call goes back to waiting fewer than `Attempts`
times. The refinement mapping `PromisedState` sends parked, woken and sleeping
callers to *waiting*; parking, waking and testing a full gate are stutters.

### 2.5 `TranscriptTail`

`lines` is what is on disk, counted in lines; `stored` is the table
`bootstrap_offsets`; `watchers` are the `TranscriptWatcher`s made in one life of the
server, each with its walk (`todo`), its offsets in memory, its promise chain, at
most one read per *side* (the walk does not run on the chain), its notices and its
deferred files. A read takes the offset (`Opened`), awaits size and bytes (`Stat`),
and moves both offsets (`Publish`); from there it hands over without a further
await (`HandOver`, one line a step, so that a death or a throw may come between).
`stored` outlives a root swap and not the process: `hydrate` empties the table at every
start (`monitor.ts:234-239`), so a life reads each transcript in its window from the
beginning, and what was handed over, cut off or rebuilt is counted per life.

| Action | Code |
| --- | --- |
| `WalkRead`, `WalkDefer`, `Arm` | the bootstrap walk, its deferral of old files, the watch and the indexer after it |
| `TakeTask`, `Stat`, `Publish`, `HandOver` | the chain and `tailJsonl` |
| `IndexOne` | the background indexer, which passes over a file it cannot read or that yields no row |
| `LoseNotice`, `Scan`, `Report` | the native watch coalesces; the reconcile scan looks for what it missed |
| `SetRoots`, `Swapped` | `Monitor.setRoots` around its await of the old watcher's `stop()` |
| `Rebuild` | `rebuildPanel`'s teardown and `rereadFromStart` |
| `Boot` | `hydrate` and a new watcher; while the server was down, files may have left the window (`old`), or the background window too (`ancient`), past which they are not even deferred |
| `Crash`, `ChainThrows`, `BootThrows`, `SwapThrows` | the faults |

Left out: the meta file of a subagent, truncation (of a file shorter than its offset
the tail reads nothing until it has outgrown it, `watcher.ts:405`), the chokidar
backend (it has no reconcile scan), several roots.

### 2.6 `ProcessTracker`

`proc` is the machine: which process has a pid, its parent, whether it listens, and
which session `claude` runs. `hooks` are records not yet read. `registered`, `rows`
and `broadcasted` are the reconciler's collections, `samples` the ticks that have
their `ps` output, `batches` those that await the themes and will then emit, `sweep`
the port sweep around its await, `client` one browser. `Reconcile(S, cwds)` is
`Reconciler.tick` whole: sessions to pids, the tree below each, lineage by the
first-seen ancestors, refresh, directories, intents, the removal of rows missed
twice. A failed `ps` is a step that does not happen; `partial` samples miss
processes, at most one in a row (the debounce in `reconciler.ts:377-391` is written
for one). `ps` output is modelled as true when taken.

Left out: labels, framework and runtime guesses, the HTTP probe, the terminal
commands, `kill` (a process that exits).

### 2.7 `AlertQueue`

`panel[p]` says whether and since which wait a session awaits input, and whether that
is ten minutes ago. `pendingTimers`, `alerts` and `nextId` are the queue's; `helper`
and `replies` the menu bar helper's cursor and the answer under way, which may be
lost or come late. The code's arrays are sets here: ids grow along them, so an id says
where its alert stands, and the helper's *last* is the greatest. `Remove` is a reap,
which disposes of the panel's alerts; `Purge` the user's `bin.purge`, which emits past
`Monitor.broadcast` (`trpc.ts:244-248`) and does not. `banners` and `repeated` record
what was shown. Bounds: two waits,
one stop, one restart of each side; three preference settings.
Assumed: a notification is repeated only while its wait is younger than the ten
minutes after which an alert expires.

### 2.8 `PanelTitle`

One panel; `file` and `log` are its transcript and hook records, `read` and `heard`
how far this life has read them. A restart keeps the panel's row and reads both
again, hooks first (`boot`). `Rebuild` forgets the row and the titler's state and reads
the transcript alone. `Bin` is the user's: it emits past `Monitor.broadcast`
(`trpc.ts:103-107`), so the titler is not told and keeps its timer, cooldown and
request. `state` is the titler's `PanelState`; `calls` are
requests under way. Assumed: a record is read as it is written, except hooks, which
may come late; the user renames only after a prompt; inherited records, the
custom-title `Old` and the ai-title `OldAi`, which may be the same name or two, may come
at any time. Left out: subagents' titles, a reap or purge of the panel, the event cap,
what the model is asked and how its child process runs.

### 2.9 `SearchWorker`

Two threads that share messages only. `pending` is the service's map, `inbox` and
`outbox` what is under way; `hot`, `cold`, `building`, `requests` and `asleep` are the
worker's; `scans` are the directory walks under way, any of which may outlive a
change of roots; `rows` is the database and `open` the transaction of `Ingester.step`.
Lines are numbered in the order they were ever written, so a rewritten file shows.
A step takes the size (`Begin`), reads (`ReadLines`) and commits; the file belongs to
other processes and may change between any two of these. `Wedged` is the read that
finds less than the size promised and never ends. `Crash` is the worker's death at any
moment, in a transaction too; `Rollback` a step that throws, or that finds the file
gone. A file is rewritten by emptying it first.

Left out: what a line indexes to, query parsing and ranking, the transcript reader,
the HTTP routes, the rebuild of an old schema, a death in the middle of a prune
(each file goes in a transaction of its own).

## 3. The runs

Each property is stated in its module with a comment.

| Run | Instance | Question |
| --- | --- | --- |
| `panel` | one session; records of the classes text, artifact, usage and meta; every outside event; clock to 4 | `StampsBounded`, `DockedMeansUntouched`, `NoStaleArming`, `NoResurrection`, `NoiseNeverUndocks`, `ActivityNeverRewinds` |
| `supersede` | two sessions of one directory that may share a terminal, a subagent, `/clear` in either, read late or again after a restart | `EndedIsFinal` |
| `family` | a session and a subagent, world silent after 1 | `ReapLeavesNoOrphan`, `QuietPanelsDock`, `QuietEndedPanelsGo` |
| `gate` | five callers, two permits, two attempts | `NoSleepingPermit`, `EveryCallSettles`, `KeepsThePromise` (the refinement) |
| `hooks` | two overlapping drains, four pieces, one restart, lost changes, failed drains | `NothingSkipped`, `NoLineOvertakes`, `EveryHeardLineArrives` |
| `stream` | one panel, three events, one lost connection or reload, one loss before the listener | `ViewInStep`, `HistoryIsATail`, `RemovalsReachTheClient` |
| `tail` | one file, two lines, two watchers, one rebuild, one fault | `NoSilentSkip`, `OncePerLine`, `RebuildIsComplete`, `NoLineOvertakes`, `WrittenLinesArrive`, `OldFilesAreIndexed` |
| `processes` | one session; a pid with two lives, a background child of the first | `NoGhostRows`, `LiveStaysLive`, `DeadSessionsDropOut`, `OrphansAreFound` |
| `alerts` | one panel, two waits, a stop, a restart of either side, three settings | `OneBannerPerWait`, `ArmedWaitsAreShown` |
| `title` | one panel, three records, two inherited names, two hook records, one proposal, one restart or rebuild | `RenameSurvives`, `InheritedNameStaysOut`, `RecheckIsSpaced`, `DueRecheckIsMade` |
| `search` | one file, two lines, rewritten at any moment, one root that comes and goes, one call, two scans at a time, one fault | `DocsMatchTheOffset`, `EveryCallSettles`, `IndexCatchesUp` |
| `process_clear` | one pid, two sessions, a `/clear` | `PidFollowsTheSession` |

All properties hold but the last, which the code violates (3.3). The runs have
between 60 thousand states (`gate`) and 1.6 million (`title`) and take from half a
minute to three and a half.

### 3.1 Bounds

* **Lifecycle timings.** Every timing is one second except the grace window and
  the hydrate window, two: the code uses timings in comparisons with differences of
  stamps, so what matters is which of two windows closes first. `MaxTime` is long
  enough for a panel to be born, idle, dock, leave, and to be born again.
  A record's stamp may be ahead of the clock.
* **`OutsideKinds` and `QuietFrom`.** The lifecycle runs divide the outside events
  among themselves; `panel` has all of them. `QuietFrom` stops the outside world,
  which is what the two liveness properties are about. After it only the tick, boot,
  timers and the clock move. `supersede` has the records, the `/clear` and
  `session_pid` hooks and the restart, which are what an end is made and unmade of.
* **Records.** `EventsCap` is 2, so the three records that are listed in `panel`
  overflow the cap, and an evicted record can be listed again.
* **Spawn gate.** Five callers and two permits let three park, a woken caller be
  overtaken and parked again, and a retry meet a full gate.
* **Hook tail.** Two drains suffice for overlap: each races only with the shared
  offset. Four pieces put whole lines on both sides of a torn one.
* **Delta stream.** A delta names one panel and the reducer touches no other, and
  the snapshot treats panels separately, so one panel shows what can go wrong.
  Three events overflow the server's list, the snapshot, the reseed and the live
  window. `MaxQueue` is the longest backlog considered; one outage and one fade at
  a time (`MaxFades`): with two the timeout of the first may end the second early,
  see 3.3. `MaxMissed`: once that much was missed before the listener, the handlers
  wait until it is attached; one loss is enough to lose any of the three.
* **Transcript tail.** Files share nothing but the chain and the indexer, which are
  in the model. Two lines tell a skipped line from an overtaken one; two watchers are
  what a swap has; one task on a chain while a read is under way is enough to
  overlap a rebuild; one fault, anywhere. A death needs no more than one, since
  the next life starts from nothing but the disk and the summaries.
* **Processes.** `c` is a `claude` process whose pid is given out a second time, to a
  process that may age and bind a port; `d` is a background child of `c`, told by
  its hook record, too young to be shown. In `process_clear` nothing is needed but one
  pid and two sessions.
* **Alerts.** Two waits are what a stale timer, a stale alert and a stale cursor need.
* **Names.** `RecheckTurns` is 2, so three records hold a recheck that is not due and
  one that is; two hooks are `/clear` and a stop.
* **Search.** One file and two lines let a file grow, shrink and grow again during a
  step, between its stat and its read too; two walks overlap; one message under way
  keeps the order of messages (more
  only delay them); one root is there or not.

### 3.2 Fairness

* `PanelLifecycle`: the interval timer keeps ticking (`monitor.ts:355-360`),
  `startWatching` comes to its end, time passes. Nothing is assumed of the
  sessions, the hooks or the user; the supersede timeouts are not needed.
* `SpawnGate`: a resolved promise or an expired sleep runs on; a child exits or is
  killed by its timeout. No caller is obliged to call.
* `HookTail`: promises resolve and the armed watch reports what it saw and did not
  lose. Nobody is obliged to write, and nothing keeps changes from being lost or
  drains from failing: `EveryHeardLineArrives` has it as its hypothesis that again and
  again a change is heard and its drain has not failed (`[]<>~deaf`). Without it a
  line that nobody hears of waits for the next start.
* `DeltaStream`: the client subscribes again, messages under way arrive, browser
  timeouts expire. Nothing is assumed of the server's handlers.
* `TranscriptTail`: a supervisor starts the server again, promises resolve, the
  walk and the indexer go on, and the reconcile scan or the watch reports (strongly:
  a scan may be overtaken by writes). No notice of the watch is assumed.
* `ProcessTracker`: the interval ticks, hook records are read, a tick that began runs
  to its end. Sweeps, clients and processes owe nothing.
* `AlertQueue`: timers fire, the helper polls, and of infinitely many answers one is
  not lost (strong fairness of `Deliver`).
* `PanelTitle`: debounce timers fire; the model owes no answer.
* `SearchWorker`: messages and exit events arrive, the respawn and the rescan
  timers fire, walks end, the loop turns. No touch is assumed. `EveryCallSettles` and
  `IndexCatchesUp` have it as their hypothesis that the worker is not stuck for ever in
  a read (`[]<>~Wedged`), which only another process can see to.

`CHECK_DEADLOCK FALSE` stands only where the system may stop: all calls settled,
all lines written and read, the stream drained, every bound used up.

### 3.3 What the work found

One disagreement has a run of its own, `process_clear` (`PROJECT.json`,
"findings"): after `/clear` the row of the `claude` process stays with the cleared
session, because the reconciler assigns a session only to rows that have none
(`processes/reconciler.ts:242`), while `docs/assertions.md:483-484` and
`session.ts:823-825` count on the pid following the new session.

The others were met in the models, most as counterexamples TLC found to properties
that were then restricted or dropped, some by reading the code for what a property
must except. The first ten are the most consequential.

* **A restart brings the inherited name back.** At boot every `session_start` record
  is replayed; `armClearTitleSuppression` takes the hydrated title for the
  inherited one, and the inherited `custom-title`, read again, counts as a rename
  (`session.ts:1380-1382`, `docs/assertions.md:376-379`). `InheritedNameStaysOut` is
  therefore stated for one life of the server and of the panel: nor does a rebuild hear
  the hook again.
* **Replayed `session_start` records flip statuses**:
  `applySessionStartSupersede` (`monitor.ts:396-449`) has no freshness gate, against
  `docs/assertions.md:774`.
* **A restart may retire a session that lives.** At every start all sidecar files are
  replayed, side by side, before the tracker has looked at any process
  (`monitor.ts:265-266`). A `/clear` read again then takes as its predecessor a quiet
  session of the same directory whose process runs, which the live test
  (`session.ts:823-828`, `monitor.test.ts:516`) is there to prevent; and if the pane's
  present session was stamped by its `session_pid` record first, an older `/clear` of
  the same pane ends it, since `findPanelByItermGuid` does not compare times
  ("predecessor by identity", `monitor.ts:421-424`). `EndedIsFinal` says how such a
  guess is taken back.
* **A file that shrinks under the search worker stops search for good.**
  `readCompleteLines` trusts the size that `statSync` took before
  (`search/ingest.ts:72`); when the file is shorter by then, `readSync` returns nothing,
  no end and no line break are seen, and the loop (231-241) never ends, unless 64 MiB
  were wanted or the file grows again. The thread answers nothing, does not exit, and is
  not respawned: calls hang, which `search/service.ts:3-4` and the respawn prevent only
  for a worker that exits, and a query waits longer than the one step of
  `search/worker.ts:3-4`.
* **An inherited name passes for a `/rename`.** If the cleared session had the ai-title A
  and the user's title B, and A is on the new panel before the hook of the `/clear` is
  heard, the hook suppresses A (`session.ts:1370-1382`); the inherited custom-title B is
  "different" (`session.ts:1102-1112`), shows, and ends the suppression, against
  `docs/assertions.md:376-384`. `InheritedNameStaysOut` excepts this order and no other.
* **The titler rechecks what Claude Code named.** `docs/assertions.md:757-760` has it
  that `shouldFire` "never issues a brainhouse-initiated titler call" once a panel
  carries an ai-title. `shouldFire` knows no such test: it rechecks every title after 15
  prompts or the time `RECHECK_AFTER_MS` (`titler.ts:28`; `docs/assertions.md:334-335`
  says 20). `DueRecheckIsMade` and `RecheckIsSpaced` follow the code.
* **Search prunes what is there.** `prune` drops "every indexed file not in `keep`:
  deleted, or under a root that is no longer configured" (`search/ingest.ts:203-204`).
  A file that was created and indexed by a touch after the walk passed its directory
  is in neither case and is dropped, and so is one under a new root when a walk of the
  old roots ends later. The next rescan, ten minutes later at most, repairs it, which
  is why `IndexCatchesUp` holds.
* **Search says it is done while it walks.** `building` is "true until the first pass
  over every root has finished" (`search/worker.ts:33`); finishing a touched file
  while the walk is under way clears it (`worker.ts:141`), and so does the end of an
  earlier walk.
* **A wait may raise no alert.** If a session answers, waits again, and its grace
  timer fires while the earlier wait's alert is still queued, the new one is dropped
  as a repeat (`alertQueue.ts:75-78`): the monitor never tells the queue that a wait
  is over. After a server restart ids begin at 1 while the helper keeps its cursor,
  so alerts are swallowed until they catch up (`alertQueue.ts:54`,
  `menubar/Sources/Alerts.swift:60-67`), and a restart in the grace period loses the
  alert. `ArmedWaitsAreShown` names these exceptions.
* **A proposal overtakes a `/rename`** that came while it was asked for
  (`titler.ts:287-290`, against `docs/assertions.md:271`); the title markers and the
  automatic-title hook are unguarded too.

Panels and hooks:

* `unbin` refreshes `status_changed_at`, but the tick looks at `last_event_at`, so a
  restored panel is demoted by the very next tick (`session.ts:651-653` and 587-591).
* The five-second timer of a supersede docks whatever is `done` when it fires
  (`monitor.ts:451-466`), also a session that was revived in between and whose turn then
  ended; the comment promises to skip one "re-promoted to live".
* A `/clear` hook replayed after a restart docks a session that was used before it: the
  events in memory are gone, so `armStartMinimized` finds no real input
  (`session.ts:1352-1363`) until the transcript is read again. `DockedMeansUntouched`
  therefore speaks of the listed events, those read since the start and not evicted.
* The user's bin, restore and purge emit past `Monitor.broadcast` (`trpc.ts:103-107,
  236-248` against `monitor.ts:886-898`): the titler and the alert queue keep timers,
  requests and alerts of a panel that is gone.
* An idle subagent that no hook ends is never reaped (`session.ts:1440-1444` and
  608-612).
* Overlapping drains hand a line over twice (`hookEvents.ts:133,181`, against
  `watchBackend.ts:19-22`); hook overhead is then counted twice.
* `settledState` (`session.ts:966-983`) is documented as back-dating. When a stale
  record meets a panel that is not live but was active within the idle window, the
  stamp lies in the future. `StampsBounded` says by how much.
* `docs/assertions.md:617-619` lists `resource_usage` among the events that revive
  a panel; they only move its activity stamp (`session.ts:412-425`).
* `hookEvents.ts:98-99` expects a half-written line to be picked up later; the
  offset moves past it (181) and neither half parses.
* A line written between the replay and the arming of the watch
  (`hookEvents.ts:123`) waits for the next change of that file, and so does one whose
  change the watch lost: nothing scans the directory (`hookEvents.ts:129-135`).
* `hookEvents.ts:9-10` promises a tail from the last offset; offsets are in memory
  and a restart reads everything again.
* At boot hook records are replayed before the transcripts are walked: the end of a
  session whose row was not hydrated is dropped (`monitor.ts:265`).

Stream and client:

* The timeout of a bin deletes the panel the user restored within 770 ms
  (`client/src/useDeltaStream.ts:135-139,171-176`, against `session.ts:646`).
* Deltas between the snapshot and the attachment of the listener are lost. The snapshot
  is to spare a fresh subscriber a query of its own (`trpc.ts:528-529`), but the generator
  yields it first and attaches the listener when it is resumed (531), so the two do not
  meet. The three properties of the stream except exactly what `missed` holds.
* Any `panel_upsert` re-adds a binned panel to the client, which `bin` had removed
  (`session.ts:635-644`).
* `docs/assertions.md:766-768`: leaving the dock resends the transcript.
  `forceStatus` and `unbin` do so; the promotion in `apply` (`session.ts:481-486`)
  does not.
* After a rebuild the client keeps the old transcript under the one read again, shows
  its records twice, and the removal timeout then takes the panel away
  (`monitor.ts:867-870`). `HistoryIsATail` excepts a panel on its way out.
* `dismissAll` (`client/src/lib/hiddenPanels.ts`) does not store `user_kept: false` as
  `dismiss` does, so a kept panel it dismissed is back after a reload; intentions that arrive
  after the snapshot overwrite the stamps of panels minimised at first sight (68-76);
  an action before they arrive discards all of them.

Transcripts:

* Two overlapping swaps, or a swap during the start, leave a watcher that nobody
  stops: lines come twice, and the indexer takes the current watcher's queue.
  `OncePerLine` excepts them.
* A tail that was queued before a rebuild hands over lines of the new panel out of
  order or twice, and usage records are counted twice, since the uuid test does not
  cover them (`session.ts:412`).
* A throw in the walk of a new watcher leaves no watch at all (`Unwatched`).

Names and processes:

* At boot the stop hooks are replayed before the transcripts (`monitor.ts:523`), so the
  titler's baseline is zero turns, and every long session is asked about at once,
  against `titler.ts:271-272`. `RecheckIsSpaced` counts within one life.
* An evaluation dropped because a request or a cooldown is under way is not scheduled
  again; disposing of a panel forgets that a request is under way.
* A reused pid drops the old row without a `process_delete`
  (`processes/reconciler.ts:217-223`, against
  `docs/superpowers/specs/2026-06-04-process-tracking-design.md:113,131`), and a row
  shown by a snapshot only because of its ports goes without one.
* `kill` sends its SIGKILL three seconds later to the bare pid
  (`processes/index.ts:273-279`). A stale `session_pid` record and a recycled pid keep
  a dead session live. A probe under way when its port closes stores its answer
  afterwards (`httpProbe.ts:35-55`).
* `resetSpawnDiagnostics` zeroes the permit counter with spawns running
  (`spawnQueue.ts:79-89`); only tests call it.
* A rewritten transcript whose new size is not below the stored offset keeps its old
  documents in the index (`search/ingest.ts:93`); `IndexCatchesUp` excepts it
  (`Regrown`).
* Concurrent preference updates share one temporary file (`prefs.ts`), and
  `liveProcessGraceSeconds` is missing from the comparison that applies changed
  timings (`trpc.ts:269`).

## 4. The proofs

Each proof module extends its component and proves, for every value of the
constants that meets the named assumptions, an inductive invariant and from it the
properties the runs check.

* **`PanelLifecycleProofs`**: `TypeCorrect`,
  `StampsCorrect`, `DockCorrect`, `ArmingCorrect`, and the action properties
  `EndsAreFinal`, `ClosedStaysDown`, `NoiseStaysDocked`, `ActivityOnlyGrows`, `ReapIsSafe`.
  The invariant is `IInv == DataInv /\ ControlInv /\ NoStaleArming`. `DataInv`
  says what is true of one panel (`Good`) and of one *row* (`GoodRow`): the rows
  are in it because a restart makes panels of them again, and forgotten or
  unhydrated panels leave rows behind. `Follows(P, Q)` is what one step may do to a
  surviving panel; every transition operator (`Forced`, `Ended`, `Applied`, `Aged`,
  `Armed`, ...) has a lemma saying that it keeps `Good` and follows, and
  `WriteThroughKeeps` lifts these to the handlers. `ActivityOnlyGrows` holds
  across restarts because it is part of the invariant that the lifecycle columns of
  every known panel's row say what memory says (`WrittenThrough`, a conjunct here: it
  speaks of the columns modelled, and of the handlers modelled).
  `NoiseStaysDocked` follows the record through `Applied`: nothing that is not real
  input reaches the promotion.
* **`SpawnGateProofs`**: `TypeCorrect`, `GateCorrect`, `NoLostWakeUp`, and
  `PromiseKept`, the refinement. The bound on children needs that the counter *is*
  their number; that permits do not sleep needs that the queue holds exactly the
  parked, each once, because a wake-up changes the phase of the head of the queue
  and of nobody else. For `PromiseKept` the initial states map to initial states,
  and every step maps to a step of `SpawnPromise` or to a stutter; that a passed
  gate is a permitted start there is where the counter is needed again.
* **`HooksAndTrackerProofs`**, of `HookTail`: `HookTypeCorrect`, `NothingIsLost`,
  `FirstArrivalsInOrder`. The offset alone is not inductive: a reading drain will set
  it to its own size later. The strengthening `ReadSoFar` says of every reading drain
  that all whole lines up to its position have been handed over.
  Of `ProcessTracker`, which hears the records: `NoGhosts`, `WorkingSessionsStay`. All
  of it rests on one tick at a time (`OneTick`): while an emission waits for the themes
  no row changes, so what it shows is still tracked, and what a sample says of a pid
  lies between what the rows know and what the machine does (`Known`, `Sampled`). A
  tracked process was there before the sample was taken, so a sample that lacks it
  is partial, and the last one was not (`MissedOnce`). A told row that is forgotten
  was announced, and is in the deletes, or its pid shows a later life, and no
  sample under way shows the earlier one (`Announced`). `TypeOK` of this module is
  not proved: the ancestors of a process are computed by recursion.
* **`DeltaStreamProofs`**: `StaysInStep`, `TailOfHistory`, `TypeCorrect`, for any
  handlers at any time, those between the snapshot and the listener included. The
  invariant is over the queue: the last message that says a status of a panel says the
  server's; the removal of a forgotten panel stands behind everything that shows it;
  the events under way continue what the client holds and end where the server does.
  Each of these is claimed of a panel only as far as `missed` holds nothing against it:
  what was fired at nobody is accounted for there and only there.
* **`AlertQueueProofs`**: `TypeCorrect`, `OneBanner`. Three things keep a wait from
  being announced again, and none of them knows of waits: a queued alert keeps another
  from being fired, the cursor keeps it from being sent again, and the first answer
  to a restarted helper is not shown. `QueuedOrUnspoken` ties them together: the alert of
  a young wait is queued, or nobody has been told of the wait, so what is fired is news.
  `BehindTheCursor` then says that what is queued of an announced wait is behind the
  cursor, or behind the answer that is to seed it.
* **`PanelTitleProofs`**: `TypeCorrect`, `RenameStands`, `InheritedNameIsSuppressed`,
  `RechecksAreSpaced`. A suppression is armed by the hook of a `/clear`, which is heard
  before the transcript is read again, and is spent by the first prompt at the
  latest; so a rename, which comes after a prompt, is never mistaken for an
  inherited name. `InheritedNameIsSuppressed` has to follow the two inherited names apart: the
  suppression holds the one that was heard, so the other gets past it in one order
  only. `TitlesAssumption` says that who gave a name is told from the name;
  in the code a title is a string and the properties would have nothing to tell apart.
* **`TranscriptTailProofs`**: `TypeCorrect`, `NothingSkippedSilently`,
  `LinesInOrder`. A line is accounted for once it was handed over, is in the hands
  of a read, or was cut off by a throw; a death takes the offsets with it, so the
  invariant begins anew at `Boot`. Offsets are copied (into a
  watcher at its start, into a read when it opens, back to both when it publishes),
  so the invariant says of every place an offset can be that no unaccounted line
  lies below it, and that accounts never shrink.
  `RebuildsComplete`: below every offset each line of a rebuilt file was handed over
  again, was cut off, or is promised by a reread that is queued or a read that is
  under way (`StoredRecouped`, `ReadsRecouped`). `LinesOnce`: unless two starts or swaps
  overlap, watchers other than the current one rest, a swap waits for the old one, and
  the current watcher's chain, walk and offsets agree so that the lines handed over
  are those below its offset (`Tidy`).
* **`SearchWorkerProofs`**: `TypeCorrect`, `IndexIsSound`, for files that change at
  any moment of a step. What the property says of
  committed rows is carried through a transaction by the same statement of the open
  one (`RowsSound`, `OpenSound`), and needs that no document is numbered beyond the
  lines that the offset and the rewrites of its file account for.

Assumptions: ids of sessions and subagents are disjoint and a subagent has a
session; records have a panel, a class and a natural timestamp; timings are
naturals, and idle, mini, remove and grace windows are not zero; the cap holds at
least one event and a chunk is no larger than the cap; at least one permit and
one attempt; finitely many callers; some drain exists; the names of the user, of the
cleared session, of the titler and the placeholder differ.
The bounds of the models
are arbitrary naturals in the proofs. TLC evaluates each assumption in the runs.

Every invariant and every action property of the runs that pass is proved. Only
model-checked: the liveness properties (liveness under fairness and `ENABLED` are out
of the prover's reach), and what a recursive definition computes on every input (the
library's induction theorems take an operator parameter that no installed prover
instantiates); in these modules that is the ancestors of a process.

## 5. Not modelled, and what comes next

* **Parser** (`parser.ts`), **presentation** (`client/src/components/`,
  `App.tsx`, transforms, themes): functions of their input without state that
  survives a call, or rendering. They are most of the source. What the lifecycle
  needs of the parser is the class of a record.
* **Store** (`store.ts`): SQL statements, each atomic, called synchronously. The
  tables other models rely on (panels, offsets) are in them as variables; retention
  is a query by age.
* **Preferences, HTTP routes, onboarding, images, history, flows, debug**: one
  request, one answer. What went wrong there is in 3.3.
* **Client layout**: its rules (`lib/hiddenPanels.ts`, slots, order) are pure
  functions of browser-local state; the three flaws met are in 3.3.
* **Launcher, hook scripts**: processes that run once. The record a hook writes and
  the helper's polling are part of `HookTail`, `ProcessTracker` and `AlertQueue`.

* **Of `PanelLifecycle`**: two concurrent rebuilds, a session that changes terminals,
  the columns of a row that do not decide a panel's life.

Next, in order:

1. **`PanelPromise`**: an abstract panel (open, closed, gone) that `PanelLifecycle`
   implements, checked and proved as `SpawnPromise` is.
2. **`BootReplay`**: `HookTail`, `TranscriptTail` and `PanelLifecycle` composed in
   the order of `startWatching`, for what a restart does to ended and awaiting
   panels. Today `PanelLifecycle` replays any record at any time, which includes it.
3. **`ClientLayout`**: dismissal and slots as operators against reference
   definitions, composed with `DeltaStream`.
4. Larger instances: two files in `TranscriptTail`, two panels in `AlertQueue`.

## 6. Running

    tlc -workers 2 -config panel.cfg MCPanel
    tlapm PanelLifecycleProofs.tla

Every run, with its module, configuration and expected result, is in `PROJECT.json`.
