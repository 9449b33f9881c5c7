---------------------------- MODULE SearchWorker ----------------------------
(***************************************************************************)
(* Transcript search, server/src/search: the server's handle on the worker *)
(* thread (service.ts), the worker (worker.ts), and the part of the index  *)
(* it writes (ingest.ts).                                                  *)
(*                                                                         *)
(* The two threads share nothing but messages.  The worker runs one        *)
(* callback at a time: a message, the end of a scan, or a turn of its      *)
(* loop, which answers what was asked and indexes one chunk of one file.   *)
(* The files belong to other processes, which change them between any two  *)
(* system calls of that turn.                                              *)
(* A scan walks the roots over many awaits.  The worker may die at any     *)
(* moment, inside a transaction too; five seconds later the server starts  *)
(* another.                                                                *)
(*                                                                         *)
(* Lines are numbered in the order they were ever written to a file, and   *)
(* offsets and sizes count lines.  The order of files inside `hot` and     *)
(* `cold` is left open.                                                    *)
(***************************************************************************)
EXTENDS Integers, Sequences, SequencesExt

CONSTANTS
    Files,          \* transcripts
    Roots,          \* directories that may be configured
    RootOf,         \* file -> the directory it lies under
    Calls,          \* requests of the server
    MaxScans,       \* bound of the model: scans under way at a time
    MaxLines,       \* bound of the model: lines ever written to a file
    MaxInbox,       \* bound of the model: messages under way to the worker
    MaxSwaps,       \* bound of the model: setRoots calls
    MaxFaults       \* bound of the model: deaths of the worker, steps that throw

ASSUME RootsAssumption == RootOf \in [Files -> Roots]
ASSUME BoundsAssumption == {MaxScans, MaxLines, MaxInbox, MaxSwaps, MaxFaults} \subseteq Nat

VARIABLES
    disk,           \* file -> is it there, lines rewritten away, lines in it
    roots,          \* SearchService.roots
    worker,         \* "up", "died" and its exit not heard, "down"
    stopped,        \* SearchService.stopped
    pending,        \* SearchService.pending
    inbox,          \* messages under way to the worker
    outbox,         \* replies under way to the server
    known,          \* the worker's roots
    hot, cold,      \* files to index
    building,       \* what status() reports
    requests,       \* requests not yet answered
    asleep,         \* the loop waits for a poke
    scans,          \* the walks under way, oldest first
    rows,           \* the database: path -> row of `files` with its docs
    open,           \* the transaction under way
    swaps, faults   \* what was used of the bounds

service == <<roots, stopped, pending, swaps>>
todo == <<known, hot, cold, building, requests, asleep, scans>>
vars == <<disk, service, worker, inbox, outbox, todo, rows, open, faults>>

NoRow == [offset |-> -1]
NoTx == [file |-> <<>>]
Lesser(a, b) == IF a <= b THEN a ELSE b

(* Size and mtime of a file, which every change of it changes.             *)
Stamp(f) == <<disk[f].gone, disk[f].size>>
Unread == <<-1, -1>>

Fresh == [offset |-> 0, seen |-> Unread, docs |-> <<>>]

needsWork(f) ==
    IF disk[f].there THEN rows[f] = NoRow \/ rows[f].seen # Stamp(f) ELSE rows[f] # NoRow

----------------------------------------------------------------------------
(* The files.  A file is rewritten by emptying it first.                   *)

Write(f) ==
    /\ disk[f].gone + disk[f].size < MaxLines
    /\ disk[f].there \/ Stamp(f) = <<0, 0>>
    /\ disk' = [disk EXCEPT ![f] = [there |-> TRUE, gone |-> @.gone, size |-> @.size + 1]]
    /\ UNCHANGED <<service, worker, inbox, outbox, todo, rows, open, faults>>

Truncate(f) ==
    /\ disk[f].there /\ disk[f].size > 0
    /\ disk' = [disk EXCEPT ![f].gone = @ + disk[f].size, ![f].size = 0]
    /\ UNCHANGED <<service, worker, inbox, outbox, todo, rows, open, faults>>

Delete(f) ==
    /\ disk[f].there
    /\ disk' = [disk EXCEPT ![f].there = FALSE]
    /\ UNCHANGED <<service, worker, inbox, outbox, todo, rows, open, faults>>

----------------------------------------------------------------------------
(* The server's side.                                                      *)

(* postMessage: a dead thread's port takes the message and nobody reads it.*)
Send(message) ==
    /\ Len(inbox) < MaxInbox
    /\ inbox' = IF worker = "up" THEN Append(inbox, message) ELSE inbox

Message(kind, x) == [kind |-> kind, about |-> x]

(* The watcher has read new bytes; it reads everything anew after a boot.  *)
touch(f) ==
    /\ disk[f].there
    /\ Send(Message("touch", f))
    /\ UNCHANGED <<disk, service, worker, outbox, todo, rows, open, faults>>

setRoots(R) ==
    /\ swaps < MaxSwaps /\ R # roots
    /\ roots' = R /\ swaps' = swaps + 1
    /\ Send(Message("roots", R))
    /\ UNCHANGED <<disk, worker, stopped, pending, outbox, todo, rows, open, faults>>

(* A call made while the worker is down fails at once.                     *)
call(c) ==
    /\ c \notin pending \cup outbox \cup requests
    /\ \A i \in DOMAIN inbox : inbox[i] # Message("request", c)
    /\ pending' = IF worker = "down" THEN pending ELSE pending \cup {c}
    /\ Send(Message("request", c))
    /\ UNCHANGED <<disk, roots, worker, stopped, outbox, todo, rows, open, swaps, faults>>

Reply(c) ==
    /\ c \in outbox
    /\ outbox' = outbox \ {c} /\ pending' = pending \ {c}
    /\ UNCHANGED <<disk, roots, worker, stopped, inbox, todo, rows, open, swaps, faults>>

(* The thread is gone and its variables with it; SQLite rolls its          *)
(* transaction back.                                                       *)
Blank ==
    /\ known' = {} /\ hot' = {} /\ cold' = {} /\ building' = TRUE
    /\ requests' = {} /\ asleep' = FALSE /\ scans' = <<>>
Dies == worker' = "died" /\ inbox' = <<>> /\ open' = NoTx /\ Blank

stop ==
    /\ ~stopped
    /\ stopped' = TRUE
    /\ IF worker = "up" THEN Dies ELSE UNCHANGED <<worker, inbox, open, todo>>
    /\ UNCHANGED <<disk, roots, pending, outbox, rows, swaps, faults>>

Crash ==
    /\ worker = "up" /\ faults < MaxFaults
    /\ Dies
    /\ faults' = faults + 1
    /\ UNCHANGED <<disk, service, outbox, rows>>

(* The exit event fails what is pending.                                   *)
ExitUnfailed ==                                                 \* mutant
    /\ worker = "died"
    /\ worker' = "down" /\ outbox' = {}
    /\ UNCHANGED <<disk, service, inbox, todo, rows, open, faults>>
Exit ==
    /\ worker = "died"
    /\ worker' = "down" /\ pending' = {} /\ outbox' = {}
    /\ UNCHANGED <<disk, roots, stopped, inbox, todo, rows, open, swaps, faults>>

(* RESTART_DELAY_MS later.                                                 *)
spawn ==
    /\ worker = "down" /\ ~stopped
    /\ worker' = "up" /\ inbox' = <<Message("roots", roots)>>
    /\ Blank
    /\ UNCHANGED <<disk, service, outbox, rows, open, faults>>

----------------------------------------------------------------------------
(* The worker, between one callback and the next.                          *)

Idle == worker = "up" /\ open = NoTx

scan(R, isFirst) ==
    /\ Len(scans) < MaxScans
    /\ scans' = Append(scans, [todo |-> {f \in Files : RootOf[f] \in R}, listed |-> {},
                               first |-> isFirst])

ReceiveRoots ==
    /\ Idle /\ inbox # <<>> /\ Head(inbox).kind = "roots"
    /\ known' = Head(inbox).about /\ building' = TRUE
    /\ scan(known', TRUE)
    /\ inbox' = Tail(inbox) /\ asleep' = FALSE
    /\ UNCHANGED <<disk, service, worker, outbox, hot, cold, requests, rows, open, faults>>

ReceiveTouch ==
    /\ Idle /\ inbox # <<>> /\ Head(inbox).kind = "touch"
    /\ hot' = hot \cup {f \in {Head(inbox).about} : RootOf[f] \in known}
    /\ inbox' = Tail(inbox) /\ asleep' = FALSE
    /\ UNCHANGED <<disk, service, worker, outbox, known, cold, building, requests, scans,
                   rows, open, faults>>

ReceiveRequest ==
    /\ Idle /\ inbox # <<>> /\ Head(inbox).kind = "request"
    /\ requests' = requests \cup {Head(inbox).about}
    /\ inbox' = Tail(inbox) /\ asleep' = FALSE
    /\ UNCHANGED <<disk, service, worker, outbox, known, hot, cold, building, scans,
                   rows, open, faults>>

(* The backstop timer, whatever the watcher reported.  A walk is over long *)
(* before the timer's next turn.                                           *)
Rescan ==
    /\ Idle /\ \A k \in DOMAIN scans : scans[k].first
    /\ scan(known, FALSE)
    /\ UNCHANGED <<disk, service, worker, inbox, outbox, known, hot, cold, building,
                   requests, asleep, rows, open, faults>>

(* listTranscripts reaches a file's directory.                             *)
Visit(k, f) ==
    /\ Idle /\ k \in DOMAIN scans /\ f \in scans[k].todo
    /\ scans' = [scans EXCEPT ![k].todo = @ \ {f},
                              ![k].listed = IF disk[f].there THEN @ \cup {f} ELSE @]
    /\ UNCHANGED <<disk, service, worker, inbox, outbox, known, hot, cold, building,
                   requests, asleep, rows, open, faults>>

(* The walk is over: prune what it did not list, and queue what it did and *)
(* the index has not read.                                                 *)
ScanEndsQuietly(k) ==                                           \* mutant
    /\ Idle /\ k \in DOMAIN scans /\ scans[k].todo = {}
    /\ rows' = [f \in Files |-> IF f \in scans[k].listed THEN rows[f] ELSE NoRow]
    /\ cold' = {f \in scans[k].listed : disk[f].there /\ needsWork(f)}
    /\ building' = (building /\ ~(scans[k].first /\ cold' = {} /\ hot = {}))
    /\ scans' = RemoveAt(scans, k)
    /\ UNCHANGED <<disk, service, worker, inbox, outbox, known, hot, requests, asleep,
                   open, faults>>
ScanEnds(k) ==
    /\ Idle /\ k \in DOMAIN scans /\ scans[k].todo = {}
    /\ rows' = [f \in Files |-> IF f \in scans[k].listed THEN rows[f] ELSE NoRow]
    /\ cold' = {f \in scans[k].listed : disk[f].there /\ needsWork(f)}
    /\ building' = (building /\ ~(scans[k].first /\ cold' = {} /\ hot = {}))
    /\ scans' = RemoveAt(scans, k) /\ asleep' = FALSE
    /\ UNCHANGED <<disk, service, worker, inbox, outbox, known, hot, requests, open, faults>>

----------------------------------------------------------------------------
(* A turn of loop(): every request is answered, then one unit of work.     *)

Turn ==
    /\ Idle /\ ~asleep
    /\ outbox' = outbox \cup requests /\ requests' = {}
    /\ UNCHANGED <<disk, service, worker, inbox, known, scans, faults>>

(* Touched files go first.                                                 *)
IsNext(f) == f \in hot \/ (hot = {} /\ f \in cold)

(* The file is caught up with, or given up.                                *)
Done(f) ==
    /\ hot' = hot \ {f}
    /\ cold' = IF f \in hot THEN cold ELSE cold \ {f}
    /\ building' = (building /\ ~(hot' = {} /\ cold' = {}))

Sleep ==
    /\ Turn /\ hot = {} /\ cold = {}
    /\ asleep' = TRUE
    /\ UNCHANGED <<hot, cold, building, rows, open>>

(* Under no root, or gone from the disk.                                   *)
Skip(f) ==
    /\ Turn /\ IsNext(f)
    /\ RootOf[f] \notin known \/ ~disk[f].there
    /\ rows' = IF RootOf[f] \in known THEN [rows EXCEPT ![f] = NoRow] ELSE rows
    /\ Done(f)
    /\ UNCHANGED <<asleep, open>>

(* Ingester.step takes the file's size and begins: a new path gets its row *)
(* at once, the rest is in the transaction.  A file shorter than the offset*)
(* starts over.                                                            *)
Restarted(row, size) ==
    IF size < row.offset THEN [row EXCEPT !.offset = 0, !.docs = <<>>] ELSE row

Begin(f) ==
    LET row == IF rows[f] = NoRow THEN Fresh ELSE rows[f]
    IN /\ Turn /\ IsNext(f) /\ RootOf[f] \in known /\ disk[f].there
       /\ rows' = [rows EXCEPT ![f] = row]
       /\ open' = [file |-> f, row |-> Restarted(row, disk[f].size),
                   stamp |-> Stamp(f), read |-> FALSE]
       /\ UNCHANGED <<hot, cold, building, asleep>>

(* The size of the file when the step began.                               *)
SizeThen == open.stamp[2]

(* readCompleteLines: at least a line and as many as fit, up to the size   *)
(* taken before, of what the file holds now.  When the size promises more  *)
(* than the file still has, it reads nothing, over and over.               *)
Read(row, gone, n) ==
    [offset |-> row.offset + n,
     seen |-> IF row.offset + n = SizeThen THEN open.stamp ELSE Unread,
     docs |-> row.docs \o [i \in 1..n |-> gone + row.offset + i]]

ReadLines ==
    LET rest == Lesser(SizeThen, disk[open.file].size) - open.row.offset
    IN /\ worker = "up" /\ open # NoTx /\ ~open.read
       /\ \E n \in IF SizeThen = open.row.offset THEN {0} ELSE 1..rest :
             open' = [open EXCEPT !.read = TRUE, !.row = Read(@, disk[open.file].gone, n)]
       /\ UNCHANGED <<disk, service, worker, inbox, outbox, todo, rows, faults>>

(* The synchronous read above never ends.                                  *)
Wedged ==
    /\ open # NoTx /\ ~open.read
    /\ SizeThen > open.row.offset /\ disk[open.file].size <= open.row.offset

CommitDocsFirst ==                                              \* mutant
    LET f == open.file
        half == [rows[f] EXCEPT !.docs = open.row.docs]
    IN /\ worker = "up" /\ open # NoTx /\ open.read
       /\ IF rows[f] # half
            THEN rows' = [rows EXCEPT ![f] = half] /\ UNCHANGED <<hot, cold, building, open>>
            ELSE /\ rows' = [rows EXCEPT ![f] = open.row] /\ open' = NoTx
                 /\ IF open.row.seen # Unread THEN Done(f) ELSE UNCHANGED <<hot, cold, building>>
       /\ UNCHANGED <<disk, service, worker, inbox, outbox, known, requests, asleep, scans,
                      faults>>
Commit ==
    LET f == open.file
    IN /\ worker = "up" /\ open # NoTx /\ open.read
       /\ rows' = [rows EXCEPT ![f] = open.row] /\ open' = NoTx
       /\ IF open.row.seen # Unread THEN Done(f) ELSE UNCHANGED <<hot, cold, building>>
       /\ UNCHANGED <<disk, service, worker, inbox, outbox, known, requests, asleep, scans,
                      faults>>

(* The step throws: rolled back, and the file is given up for now.  So it  *)
(* does when the file went before it was opened.                           *)
Rollback ==
    /\ worker = "up" /\ open # NoTx
    /\ \/ faults < MaxFaults /\ faults' = faults + 1
       \/ ~open.read /\ ~disk[open.file].there /\ UNCHANGED faults
    /\ Done(open.file) /\ open' = NoTx
    /\ UNCHANGED <<disk, service, worker, inbox, outbox, known, requests, asleep, scans, rows>>

----------------------------------------------------------------------------
Init ==
    /\ disk \in [Files -> [there : {FALSE}, gone : {0}, size : {0}]
                             \cup [there : {TRUE}, gone : {0}, size : {1}]]
    /\ roots \in SUBSET Roots
    /\ worker = "down" /\ stopped = FALSE
    /\ pending = {} /\ inbox = <<>> /\ outbox = {}
    /\ known = {} /\ hot = {} /\ cold = {} /\ building = TRUE
    /\ requests = {} /\ asleep = FALSE /\ scans = <<>>
    /\ rows = [f \in Files |-> NoRow] /\ open = NoTx
    /\ swaps = 0 /\ faults = 0

Receive == ReceiveRoots \/ ReceiveTouch \/ ReceiveRequest
LoopStep == Sleep \/ \E f \in Files : Skip(f) \/ Begin(f)

Next ==
    \/ \E f \in Files : Write(f) \/ Truncate(f) \/ Delete(f) \/ touch(f)
    \/ \E R \in SUBSET Roots : setRoots(R)
    \/ \E c \in Calls : call(c) \/ Reply(c)
    \/ stop \/ Crash \/ Exit \/ spawn
    \/ Receive
    \/ Rescan
    \/ \E k \in 1..MaxScans : ScanEnds(k) \/ \E f \in Files : Visit(k, f)
    \/ LoopStep
    \/ ReadLines \/ Commit \/ Rollback

Spec == Init /\ [][Next]_vars

(* Messages and events arrive, timers fire, walks come to their end, and   *)
(* the loop turns.  Nothing is assumed of the sessions, the user or the    *)
(* watcher.                                                                *)
FairSpec ==
    /\ Spec
    /\ \A c \in Calls : WF_vars(Reply(c))
    /\ WF_vars(Exit \/ spawn) /\ WF_vars(Receive) /\ WF_vars(Rescan)
    /\ WF_vars(LoopStep \/ ReadLines \/ Commit)
    /\ \A k \in 1..MaxScans : WF_vars(ScanEnds(k) \/ \E f \in Files : Visit(k, f))

----------------------------------------------------------------------------
(* Properties.                                                             *)

(* Every variable keeps its type.                                          *)
Row == [offset : Nat, seen : (Nat \X Nat) \cup {Unread}, docs : Seq(Nat)]
Transactions == [file : Files, row : Row, stamp : Nat \X Nat, read : BOOLEAN]
Messages == [kind : {"roots"}, about : SUBSET Roots] \cup [kind : {"touch"}, about : Files]
            \cup [kind : {"request"}, about : Calls]
TypeOK ==
    /\ disk \in [Files -> [there : BOOLEAN, gone : Nat, size : Nat]]
    /\ roots \subseteq Roots /\ known \subseteq Roots
    /\ worker \in {"up", "died", "down"}
    /\ stopped \in BOOLEAN /\ building \in BOOLEAN /\ asleep \in BOOLEAN
    /\ pending \subseteq Calls /\ outbox \subseteq Calls /\ requests \subseteq Calls
    /\ inbox \in Seq(Messages)
    /\ hot \subseteq Files /\ cold \subseteq Files
    /\ scans \in Seq([todo : SUBSET Files, listed : SUBSET Files, first : BOOLEAN])
    /\ rows \in [Files -> Row \cup {NoRow}]
    /\ open \in Transactions \cup {NoTx}
    /\ swaps \in 0..MaxSwaps /\ faults \in 0..MaxFaults

(* Every call of the server is answered or fails: a worker that dies with  *)
(* requests unread, unanswered or answered and under way leaves none       *)
(* hanging (service.ts, "calls made while it is down fail rather than      *)
(* hang").  Not so when a file shrinks between the stat and the read of a  *)
(* step and does not grow again: that read never ends.                     *)
EveryCallSettles == []<>~Wedged => \A c \in Calls : c \in pending ~> c \notin pending

(* A death, a throw or a shrunken file never leaves a line indexed twice,  *)
(* out of order, or missing below the offset (ingest.ts, "a crash never    *)
(* leaves half a chunk indexed").                                          *)
DocsMatchTheOffset ==
    \A f \in Files : rows[f] # NoRow =>
       /\ Len(rows[f].docs) = rows[f].offset
       /\ \A i \in 2..rows[f].offset : rows[f].docs[i - 1] < rows[f].docs[i]

(* In the end the index holds every line of every transcript under the     *)
(* roots and nothing else, although reports get lost, the worker dies,     *)
(* files change under its hands, and a walk may list what has changed      *)
(* since.  Excepted are the read that never ends, and a file rewritten and *)
(* grown to the offset again before the worker looked: it reads on from    *)
(* there, and keeps the lines of before.                                   *)
Lines(f) == [i \in 1..disk[f].size |-> disk[f].gone + i]
Regrown(f) == rows[f].offset > 0 /\ rows[f].docs[1] <= disk[f].gone
InStep(f) ==
    IF disk[f].there /\ RootOf[f] \in roots
      THEN /\ rows[f] # NoRow /\ rows[f].offset = disk[f].size
           /\ rows[f].docs = Lines(f) \/ Regrown(f)
      ELSE rows[f] = NoRow
IndexCatchesUp == []<>~Wedged => \A f \in Files : <>[](InStep(f) \/ stopped)
=============================================================================
