---------------------------- MODULE TranscriptTail ----------------------------
(***************************************************************************)
(* How transcript lines reach the monitor, server/src/watcher.ts, and what *)
(* server/src/monitor.ts does with the watcher: boot, the swap of the      *)
(* watched roots, the rebuild of a panel, and the background indexer       *)
(* (server/src/indexer.ts) for files too old to be worth a panel.          *)
(*                                                                         *)
(* A TranscriptWatcher walks the files it finds, then watches.  Its reads  *)
(* run on a promise chain, one after the other; the walk does not.  A read *)
(* takes its offset, awaits the file's size and bytes, and then, without   *)
(* a further await, moves the offset in memory and in SQLite and hands the *)
(* lines over.  The server may die inside that synchronous stretch, and a  *)
(* handler may throw there.                                                *)
(*                                                                         *)
(* Files are parent transcripts.  Offsets and sizes count lines; a line is *)
(* there when its newline is, since a read stops at the last newline.      *)
(***************************************************************************)
EXTENDS Integers, Sequences, FiniteSets

CONSTANTS
    Files,          \* transcript files
    InitialOld,     \* those that may be there from the start, too old for the window
    MaxLines,       \* bound of the model: lines per file
    MaxWatchers,    \* bound of the model: watchers made in one life of the server
    MaxChain,       \* bound of the model: tasks on a watcher's chain
    MaxFaults,      \* bound of the model: deaths of the server, handlers that throw
    MaxRebuilds     \* bound of the model: rebuilds of a panel

ASSUME FilesAssumption == InitialOld \subseteq Files
ASSUME BoundsAssumption ==
    {MaxWatchers, MaxChain, MaxFaults, MaxRebuilds} \subseteq Nat /\ MaxLines \in Nat \ {0}

VARIABLES
    lines,          \* file -> whole lines in it
    old,            \* files last written before the bootstrap window
    ancient,        \* of these, the ones too old for the background window too
    recent,         \* files written within the window of the reconcile scan
    stored,         \* bootstrap_offsets: file -> offset, 0 where there is no row
    summarized,     \* files whose session_summary row is up to date
    watchers,       \* the watchers of this life; the last is Monitor.watcher
    waiting,        \* setRoots calls awaiting a watcher's stop(): its index
    indexing,       \* what the running BackgroundIndexer has left to do
    handOver,       \* the lines a read is handing over right now
    skipped,        \* files of which the indexer got no summary, in this life
    handed,         \* file -> lines handed to Monitor.ingest in this life
    held,           \* file -> lines handed over since its panel began anew
    again,          \* files of which a line was handed over twice in this life
    interrupted,    \* file -> lines whose hand-over a throw of this life cut off
    rebuilt,        \* file -> rebuilds in this life
    overlapped,     \* a swap began while a start or another swap was under way
    faulty          \* faults so far

disk == <<lines, old, ancient, recent>>
history == <<skipped, handed, held, again, interrupted, rebuilt>>
faults == <<overlapped, faulty>>
vars == <<disk, stored, summarized, watchers, waiting, indexing, handOver, history, faults>>

Sides == {"walk", "chain"}
Tasks == [kind : {"tail", "reread"}, file : Files]
Job == [at : {"opened", "read"}, file : Files, from : Nat, size : Nat]
Idle == [at |-> "idle"]
Nothing == [watcher |-> 0]
HandOvers == [watcher : Nat \ {0}, side : Sides, file : Files, next : Nat, upTo : Nat]

Watcher == [phase : {"walking", "watching", "stopped", "dead"},
            todo : SUBSET Files, offsets : [Files -> Nat],
            chain : Seq(Tasks), job : [Sides -> Job \cup {Idle}],
            notice : SUBSET Files, deferred : SUBSET Files]

Current == Len(watchers)
(* No synchronous stretch is being run.                                    *)
Quiet == handOver = Nothing

(* Lines a hand-over has still to deliver.                                 *)
Outstanding(f) ==
    IF handOver # Nothing /\ handOver.file = f THEN handOver.next..handOver.upTo ELSE {}
CutOff == [f \in Files |-> interrupted[f] \cup Outstanding(f)]

----------------------------------------------------------------------------
(* The sessions write.  Every armed watch notices, and may lose, a change. *)

Write(f) ==
    /\ Quiet /\ lines[f] < MaxLines
    /\ lines' = [lines EXCEPT ![f] = @ + 1]
    /\ old' = old \ {f} /\ ancient' = ancient \ {f} /\ recent' = recent \cup {f}
    /\ summarized' = summarized \ {f}
    /\ watchers' = [w \in DOMAIN watchers |->
                      IF watchers[w].phase = "watching"
                        THEN [watchers[w] EXCEPT !.notice = @ \cup {f}] ELSE watchers[w]]
    /\ UNCHANGED <<stored, waiting, indexing, handOver, history, faults>>

LoseNotice(w, f) ==
    /\ Quiet /\ f \in watchers[w].notice
    /\ watchers' = [watchers EXCEPT ![w].notice = @ \ {f}]
    /\ UNCHANGED <<disk, stored, summarized, waiting, indexing, handOver, history, faults>>

(* startReconcile: every interval, what was written lately is reported     *)
(* again.  The window is four intervals long, so a written file is scanned *)
(* before it leaves the window.                                            *)
ScanNothing(w, f) == FALSE                                      \* mutant
Scan(w, f) ==
    /\ Quiet /\ watchers[w].phase = "watching"
    /\ f \in recent /\ Len(watchers[w].chain) < MaxChain
    /\ watchers' = [watchers EXCEPT ![w].chain = Append(@, [kind |-> "tail", file |-> f])]
    /\ recent' = IF w = Current THEN recent \ {f} ELSE recent
    /\ UNCHANGED <<lines, old, ancient, stored, summarized, waiting, indexing, handOver, history, faults>>

(* onEvent: a task at the end of the chain.                                *)
Report(w, f) ==
    /\ Quiet /\ f \in watchers[w].notice /\ Len(watchers[w].chain) < MaxChain
    /\ watchers' = [watchers EXCEPT ![w].notice = @ \ {f},
                                    ![w].chain = Append(@, [kind |-> "tail", file |-> f])]
    /\ UNCHANGED <<disk, stored, summarized, waiting, indexing, handOver, history, faults>>

----------------------------------------------------------------------------
(* tailJsonl, between one await and the next.                              *)

Opened(f, from) == [at |-> "opened", file |-> f, from |-> from, size |-> from]

(* The chain's next task: a tail, or rereadFromStart's reset and tail.     *)
TakeTaskStale(w) ==                                             \* mutant
    LET task == Head(watchers[w].chain)
        f == task.file
    IN /\ Quiet /\ watchers[w].chain # <<>> /\ watchers[w].job["chain"] = Idle
       /\ watchers' = [watchers EXCEPT ![w].chain = Tail(@),
                                       ![w].job["chain"] = Opened(f, watchers[w].offsets[f])]
       /\ stored' = IF task.kind = "reread" THEN [stored EXCEPT ![f] = 0] ELSE stored
       /\ UNCHANGED <<disk, summarized, waiting, indexing, handOver, history, faults>>
TakeTask(w) ==
    LET task == Head(watchers[w].chain)
        f == task.file
        from == IF task.kind = "reread" THEN 0 ELSE watchers[w].offsets[f]
    IN /\ Quiet /\ watchers[w].chain # <<>> /\ watchers[w].job["chain"] = Idle
       /\ watchers' = [watchers EXCEPT ![w].chain = Tail(@),
                                       ![w].offsets[f] = from,
                                       ![w].job["chain"] = Opened(f, from)]
       /\ stored' = IF task.kind = "reread" THEN [stored EXCEPT ![f] = 0] ELSE stored
       /\ UNCHANGED <<disk, summarized, waiting, indexing, handOver, history, faults>>

StatClaiming(w, side) ==                                        \* mutant
    LET job == watchers[w].job[side]
    IN /\ Quiet /\ job # Idle /\ job.at = "opened"
       /\ watchers' = [watchers EXCEPT ![w].job[side] =
                          IF lines[job.file] <= job.from THEN Idle
                          ELSE [job EXCEPT !.at = "read", !.size = lines[job.file]]]
       /\ stored' = [stored EXCEPT ![job.file] = lines[job.file]]
       /\ UNCHANGED <<disk, summarized, waiting, indexing, handOver, history, faults>>
Stat(w, side) ==
    LET job == watchers[w].job[side]
    IN /\ Quiet /\ job # Idle /\ job.at = "opened"
       /\ watchers' = [watchers EXCEPT ![w].job[side] =
                          IF lines[job.file] <= job.from THEN Idle
                          ELSE [job EXCEPT !.at = "read", !.size = lines[job.file]]]
       /\ UNCHANGED <<disk, stored, summarized, waiting, indexing, handOver, history, faults>>

Publish(w, side) ==
    LET job == watchers[w].job[side]
    IN /\ Quiet /\ job # Idle /\ job.at = "read"
       /\ watchers' = [watchers EXCEPT ![w].offsets[job.file] = job.size, ![w].job[side] = Idle]
       /\ stored' = [stored EXCEPT ![job.file] = job.size]
       /\ handOver' = [watcher |-> w, side |-> side, file |-> job.file,
                       next |-> job.from + 1, upTo |-> job.size]
       /\ UNCHANGED <<disk, summarized, waiting, indexing, history, faults>>

(* onEvent for the next line: Monitor.ingest.                              *)
HandOver ==
    LET f == handOver.file
        n == handOver.next
    IN /\ ~Quiet
       /\ handed' = [handed EXCEPT ![f] = @ \cup {n}]
       /\ held' = [held EXCEPT ![f] = @ \cup {n}]
       /\ again' = IF n \in handed[f] THEN again \cup {f} ELSE again
       /\ handOver' = IF n = handOver.upTo THEN Nothing ELSE [handOver EXCEPT !.next = n + 1]
       /\ UNCHANGED <<disk, stored, summarized, watchers, waiting, indexing,
                      skipped, interrupted, rebuilt, faults>>

----------------------------------------------------------------------------
(* start(): hydrate the offsets, walk, arm the watch.                      *)

NewWatcher(offsets) ==
    [phase |-> "walking", todo |-> {f \in Files : lines[f] > 0}, offsets |-> offsets,
     chain |-> <<>>, job |-> [side \in Sides |-> Idle], notice |-> {}, deferred |-> {}]

(* bootstrap(): a file with an offset, or lately written, is read; another *)
(* is left to the indexer, unless it is too old for that too or its        *)
(* summary is up to date.                                                  *)
WalkRead(w, f) ==
    /\ Quiet /\ watchers[w].phase = "walking" /\ watchers[w].job["walk"] = Idle
    /\ f \in watchers[w].todo
    /\ watchers[w].offsets[f] > 0 \/ f \notin old
    /\ watchers' = [watchers EXCEPT ![w].todo = @ \ {f},
                                    ![w].job["walk"] = Opened(f, watchers[w].offsets[f])]
    /\ UNCHANGED <<disk, stored, summarized, waiting, indexing, handOver, history, faults>>

WalkDefer(w, f) ==
    /\ Quiet /\ watchers[w].phase = "walking" /\ watchers[w].job["walk"] = Idle
    /\ f \in watchers[w].todo
    /\ watchers[w].offsets[f] = 0 /\ f \in old
    /\ watchers' = [watchers EXCEPT ![w].todo = @ \ {f},
                                    ![w].deferred = @ \cup ({f} \ (ancient \cup summarized))]
    /\ UNCHANGED <<disk, stored, summarized, waiting, indexing, handOver, history, faults>>

(* The watch is armed; startBackgroundIndexer replaces the indexer by one  *)
(* that takes the deferred files of the current watcher, whichever that is.*)
ArmIdly(w) ==                                                   \* mutant
    /\ Quiet /\ watchers[w].phase = "walking" /\ watchers[w].job["walk"] = Idle
    /\ watchers[w].todo = {}
    /\ indexing' = IF w = 1 THEN watchers[w].deferred ELSE {}
    /\ watchers' = [watchers EXCEPT ![w].phase = "watching", ![w].deferred = {}]
    /\ UNCHANGED <<disk, stored, summarized, waiting, handOver, history, faults>>
Arm(w) ==
    /\ Quiet /\ watchers[w].phase = "walking" /\ watchers[w].job["walk"] = Idle
    /\ watchers[w].todo = {}
    /\ indexing' = watchers[Current].deferred
    /\ watchers' = [watchers EXCEPT ![w].phase = "watching", ![Current].deferred = {}]
    /\ UNCHANGED <<disk, stored, summarized, waiting, handOver, history, faults>>

(* runToCompletion, one file at a time.  A file that cannot be read, is    *)
(* empty or yields no row is passed over.                                  *)
IndexOne(f) ==
    /\ Quiet /\ f \in indexing
    /\ indexing' = indexing \ {f}
    /\ \/ summarized' = summarized \cup {f} /\ UNCHANGED skipped
       \/ skipped' = skipped \cup {f} /\ UNCHANGED summarized
    /\ UNCHANGED <<disk, stored, watchers, waiting, handOver,
                   handed, held, again, interrupted, rebuilt, faults>>

----------------------------------------------------------------------------
(* setRoots: await the current watcher's stop(), then make a new one.  A   *)
(* watcher that is still walking has no watch to close, so stop() does not *)
(* stop it.                                                                *)

SetRoots ==
    LET w == Current
    IN /\ Quiet /\ watchers # <<>> /\ Len(watchers) + Len(waiting) < MaxWatchers
       /\ waiting' = Append(waiting, w)
       /\ watchers' = IF watchers[w].phase = "watching"
                        THEN [watchers EXCEPT ![w].phase = "stopped", ![w].notice = {}]
                        ELSE watchers
       /\ overlapped' = (overlapped \/ waiting # <<>> \/ watchers[w].phase = "walking")
       /\ UNCHANGED <<disk, stored, summarized, indexing, handOver, history, faulty>>

(* The chain has come to rest.                                             *)
AtRestUnwaited(w) == TRUE                                       \* mutant
AtRest(w) == watchers[w].chain = <<>> /\ watchers[w].job["chain"] = Idle

Swapped(i) ==
    /\ Quiet /\ watchers # <<>> /\ i \in DOMAIN waiting /\ AtRest(waiting[i])
    /\ waiting' = [j \in 1..(Len(waiting) - 1) |-> IF j < i THEN waiting[j] ELSE waiting[j + 1]]
    /\ watchers' = Append(watchers, NewWatcher(stored))
    /\ UNCHANGED <<disk, stored, summarized, indexing, handOver, history, faults>>

(* rebuildPanel: the panel is torn down, its purge takes the summary along,*)
(* and the transcript is queued to be read from the start.  (A rebuild     *)
(* that meets a swap waiting for the chain is left out.)                   *)
Rebuild(f) ==
    /\ Quiet /\ watchers # <<>> /\ waiting = <<>> /\ Len(watchers[Current].chain) < MaxChain
    /\ held[f] # {} /\ rebuilt[f] < MaxRebuilds
    /\ held' = [held EXCEPT ![f] = {}]
    /\ summarized' = summarized \ {f}
    /\ watchers' = [watchers EXCEPT ![Current].chain =
                       Append(@, [kind |-> "reread", file |-> f])]
    /\ rebuilt' = [rebuilt EXCEPT ![f] = @ + 1]
    /\ UNCHANGED <<disk, stored, waiting, indexing, handOver,
                   skipped, handed, again, interrupted, faults>>

----------------------------------------------------------------------------
(* Faults.                                                                 *)

(* All memory is gone, and with it what the monitor was told.              *)
Dies ==
    /\ watchers' = <<>> /\ waiting' = <<>> /\ indexing' = {} /\ handOver' = Nothing
    /\ handed' = [f \in Files |-> {}] /\ held' = [f \in Files |-> {}]
    /\ interrupted' = [f \in Files |-> {}] /\ rebuilt' = [f \in Files |-> 0]
    /\ again' = {} /\ skipped' = {} /\ overlapped' = FALSE
    /\ faulty' = faulty + 1
    /\ UNCHANGED <<disk, stored, summarized>>

Crash ==
    /\ watchers # <<>> /\ faulty < MaxFaults
    /\ Dies

(* A handler throws: the rest of the read is dropped.  The chain swallows  *)
(* the exception; the walk of the boot ends the process; that of a swap    *)
(* leaves a watcher that never watches.                                    *)
ChainThrows ==
    /\ ~Quiet /\ faulty < MaxFaults /\ handOver.side = "chain"
    /\ faulty' = faulty + 1
    /\ handOver' = Nothing /\ interrupted' = CutOff
    /\ UNCHANGED <<disk, stored, summarized, watchers, waiting, indexing,
                   skipped, handed, held, again, rebuilt, overlapped>>

BootThrows ==
    /\ ~Quiet /\ faulty < MaxFaults /\ handOver.side = "walk" /\ handOver.watcher = 1
    /\ Dies

SwapThrows ==
    /\ ~Quiet /\ faulty < MaxFaults /\ handOver.side = "walk" /\ handOver.watcher # 1
    /\ faulty' = faulty + 1
    /\ watchers' = [watchers EXCEPT ![handOver.watcher].phase = "dead"]
    /\ handOver' = Nothing /\ interrupted' = CutOff
    /\ UNCHANGED <<disk, stored, summarized, waiting, indexing,
                   skipped, handed, held, again, rebuilt, overlapped>>

BootKeeping ==                                                  \* mutant
    /\ watchers = <<>>
    /\ watchers' = <<NewWatcher(stored)>>
    /\ UNCHANGED <<disk, stored, summarized, waiting, indexing, handOver, history, faults>>
(* hydrate() empties the table of offsets before the first walk of a life; *)
(* while the server was down, files may have left the windows.             *)
Boot ==
    /\ watchers = <<>>
    /\ stored' = [f \in Files |-> 0]
    /\ watchers' = <<NewWatcher(stored')>>
    /\ \E aged \in SUBSET {f \in Files : lines[f] > 0} : old' = old \cup aged
    /\ \E aged \in SUBSET old' : ancient' = ancient \cup aged
    /\ recent' = recent \ old'
    /\ UNCHANGED <<lines, summarized, waiting, indexing, handOver, history, faults>>

----------------------------------------------------------------------------
Init ==
    /\ old \in SUBSET InitialOld /\ ancient = {} /\ recent = {}
    /\ lines = [f \in Files |-> IF f \in old THEN 1 ELSE 0]
    /\ stored = [f \in Files |-> 0] /\ summarized = {}
    /\ watchers = <<>> /\ waiting = <<>> /\ indexing = {} /\ handOver = Nothing
    /\ handed = [f \in Files |-> {}] /\ held = [f \in Files |-> {}]
    /\ again = {} /\ interrupted = [f \in Files |-> {}]
    /\ rebuilt = [f \in Files |-> 0] /\ skipped = {}
    /\ overlapped = FALSE /\ faulty = 0

ReadStep(w, side) == Stat(w, side) \/ Publish(w, side)
WalkStep(w) == \/ \E f \in Files : WalkRead(w, f) \/ WalkDefer(w, f)
               \/ Arm(w)
WatchStep(w) == \E f \in Files : Scan(w, f) \/ Report(w, f)

Next ==
    \/ \E f \in Files : Write(f)
    \/ \E w \in DOMAIN watchers :
         \/ \E f \in Files : LoseNotice(w, f)
         \/ WatchStep(w)
         \/ TakeTask(w)
         \/ \E side \in Sides : ReadStep(w, side)
         \/ WalkStep(w)
    \/ HandOver
    \/ \E f \in Files : IndexOne(f)
    \/ SetRoots
    \/ \E i \in DOMAIN waiting : Swapped(i)
    \/ \E f \in Files : Rebuild(f)
    \/ Crash
    \/ ChainThrows
    \/ BootThrows
    \/ SwapThrows
    \/ Boot

Spec == Init /\ [][Next]_vars

(* A supervisor starts the server again; promises resolve; the reconcile   *)
(* timer fires and what it or the watch saw is reported.                   *)
Live(w) == w \in DOMAIN watchers
Fairness ==
    /\ WF_vars(Boot) /\ WF_vars(HandOver)
    /\ \A w \in 1..MaxWatchers :
         /\ WF_vars(Live(w) /\ WalkStep(w))
         /\ WF_vars(Live(w) /\ TakeTask(w))
         /\ \A side \in Sides : WF_vars(Live(w) /\ ReadStep(w, side))
         /\ \A f \in Files : SF_vars(Live(w) /\ (Scan(w, f) \/ Report(w, f)))
    /\ \A f \in Files : WF_vars(IndexOne(f))
    /\ WF_vars(\E i \in DOMAIN waiting : Swapped(i))
FairSpec == Spec /\ Fairness

----------------------------------------------------------------------------
(* Properties.                                                             *)

(* Every variable keeps its type; at most one synchronous stretch runs.    *)
TypeOK ==
    /\ lines \in [Files -> 0..MaxLines] /\ old \subseteq Files
    /\ ancient \subseteq old /\ recent \subseteq Files
    /\ stored \in [Files -> Nat] /\ summarized \subseteq Files
    /\ watchers \in Seq(Watcher)
    /\ waiting \in Seq(Nat) /\ indexing \subseteq Files
    /\ handOver = Nothing \/ handOver \in HandOvers
    /\ handed \in [Files -> SUBSET Nat] /\ held \in [Files -> SUBSET Nat]
    /\ interrupted \in [Files -> SUBSET Nat]
    /\ again \subseteq Files /\ skipped \subseteq Files
    /\ rebuilt \in [Files -> 0..MaxRebuilds]
    /\ overlapped \in BOOLEAN /\ faulty \in 0..MaxFaults

Accounted(f) == handed[f] \cup interrupted[f] \cup Outstanding(f)

(* The stored offset of a file never passes a line that was not handed to  *)
(* the monitor of this life, unless a throw cut exactly that hand-over     *)
(* off: whatever walk, chain, rebuild and swap do to one file at a time.   *)
(* (A death forgets the offsets with what was handed over.)                *)
NoSilentSkip == watchers # <<>> => \A f \in Files : 1..stored[f] \subseteq Accounted(f)

(* No line reaches the monitor before all earlier lines of its file.       *)
NoLineOvertakes ==
    [][\A f \in Files : \A n \in handed'[f] \ handed[f] :
          1..(n - 1) \subseteq handed[f] \cup interrupted[f]]_vars

(* A line is handed over once in a life of the server, across swaps of the *)
(* roots, as long as no rebuild asked for it again and no swap overlapped  *)
(* another start.  (Token counts and titles are not protected by the uuid  *)
(* test.)                                                                  *)
OncePerLine == \A f \in again : rebuilt[f] > 0 \/ overlapped

(* A rebuild is complete when its read is: the panel then has every line   *)
(* up to the offset, whatever was queued or walking when it began.         *)
Rereads(w, f) ==
    \/ \E i \in DOMAIN watchers[w].chain : watchers[w].chain[i] = [kind |-> "reread", file |-> f]
    \/ \E side \in Sides : watchers[w].job[side] # Idle /\ watchers[w].job[side].file = f
RebuildIsComplete ==
    \A f \in Files :
       rebuilt[f] > 0 /\ (\A w \in DOMAIN watchers : ~Rereads(w, f)) =>
          1..stored[f] \subseteq held[f] \cup interrupted[f] \cup Outstanding(f)

(* A failed swap has left nobody watching.                                 *)
Unwatched == watchers # <<>> /\ watchers[Current].phase = "dead"

(* Every line written to a file in use reaches the monitor, although the   *)
(* watch may lose every notice and the server may die with the line in its *)
(* hands, unless a throw cut it off, a failed swap left nobody watching,   *)
(* or the server was down until the file had left the window.              *)
WrittenLinesArrive ==
    \A f \in Files : \A n \in 1..MaxLines :
       (n <= lines[f] /\ f \notin old) ~>
          (n \in handed[f] \cup interrupted[f] \/ Unwatched \/ f \in old)

(* A file left alone for being old, not so old as to be left out           *)
(* altogether, is in the end summarised, written to, or found to yield no  *)
(* summary, as long as no swap fails or overlaps another start.            *)
OldFilesAreIndexed ==
    \A f \in Files :
       f \in old ~> (f \in summarized \cup skipped \cup ancient \/ f \notin old
                       \/ overlapped \/ Unwatched)
=============================================================================
