------------------------------- MODULE HookTail -------------------------------
(***************************************************************************)
(* How hook records reach the monitor: HookEventWatcher in                 *)
(* server/src/hookEvents.ts, over one session's sidecar file.              *)
(*                                                                         *)
(* Hook processes append lines to the file.  Every change the watch        *)
(* reports starts a drain, and nobody waits for the last one to end, so    *)
(* drains overlap: each takes the file's size, then the shared offset,     *)
(* reads what lies between, hands over one line at a time, and only then   *)
(* moves the offset to its own size.                                       *)
(*                                                                         *)
(* The file is a sequence of pieces.  A piece is a whole line, or the      *)
(* head or the tail of a line that was written in two goes; offsets and    *)
(* sizes count pieces.  A line is named by the position of its last piece. *)
(* A drain that finds only one half of a line cannot parse it and moves on.*)
(*                                                                         *)
(* The watch may lose a change (an event without a file name is dropped,   *)
(* the file system coalesces and drops), nothing scans this directory for  *)
(* what was lost, and a drain may fail.                                    *)
(***************************************************************************)
EXTENDS Integers, Sequences, FiniteSets

CONSTANTS
    Drains,         \* bound of the model: calls of drain() under way at once
    MaxPieces,      \* bound of the model: pieces written
    MaxRestarts     \* bound of the model: restarts of the server

ASSUME DrainsAssumption == Drains # {}
ASSUME BoundsAssumption == MaxPieces \in Nat /\ MaxRestarts \in Nat

VARIABLES
    file,           \* the pieces written so far
    offset,         \* offsets.get(file)
    drains,         \* what each call of drain() is doing
    phase,          \* "down", "replaying" (inside start()), "watching"
    notice,         \* the watch has a change to report
    delivered,      \* lines handed to onEvent since the server came up
    heard,          \* whole lines written while the watch was armed
    deaf,           \* the last change was lost, or a drain failed since it was heard
    restarts        \* restarts so far

hookVars == <<file, offset, drains, phase, notice, delivered, heard, deaf, restarts>>
history == <<heard, deaf, restarts>>

Parts == {"whole", "head", "tail"}
Drain == [at : {"idle", "called", "statted", "reading"}, size : Nat, from : Nat, pos : Nat]
Idle == [at |-> "idle", size |-> 0, from |-> 0, pos |-> 0]
Called == [Idle EXCEPT !.at = "called"]

AllIdle == \A d \in Drains : drains[d] = Idle

----------------------------------------------------------------------------
(* The hook processes.  The watch reports a change made while it is armed; *)
(* changes made in quick succession are reported once.                     *)

Torn == file # <<>> /\ file[Len(file)] = "head"

Write(part) ==
    /\ Len(file) < MaxPieces
    /\ part = "tail" <=> Torn
    /\ file' = Append(file, part)
    /\ notice' = (notice \/ phase = "watching")
    /\ heard' = IF part = "whole" /\ phase = "watching" THEN heard \cup {Len(file) + 1}
                                                       ELSE heard
    /\ UNCHANGED <<offset, drains, phase, delivered, deaf, restarts>>

----------------------------------------------------------------------------
(* start(): drain what readdir finds and wait for it, then arm the watch.  *)

StartWatching(d) ==
    /\ phase = "down"
    /\ phase' = "replaying"
    /\ drains' = IF file = <<>> THEN drains ELSE [drains EXCEPT ![d] = Called]
    /\ UNCHANGED <<file, offset, notice, delivered, history>>

Arm ==
    /\ phase = "replaying" /\ AllIdle
    /\ phase' = "watching"
    /\ UNCHANGED <<file, offset, drains, notice, delivered, history>>

(* A change is lost: this watch is started without a reconcile scan.       *)
LoseNotice ==
    /\ phase = "watching" /\ notice
    /\ notice' = FALSE /\ deaf' = TRUE
    /\ UNCHANGED <<file, offset, drains, phase, delivered, heard, restarts>>

(* The watch reports a change: `void this.drain(p)`.                       *)
ReportUnlessBusy(d) ==                                          \* mutant
    /\ phase = "watching" /\ notice /\ drains[d] = Idle
    /\ notice' = FALSE /\ deaf' = FALSE
    /\ drains' = IF AllIdle THEN [drains EXCEPT ![d] = Called] ELSE drains
    /\ UNCHANGED <<file, offset, phase, delivered, heard, restarts>>
Report(d) ==
    /\ phase = "watching" /\ notice /\ drains[d] = Idle
    /\ notice' = FALSE /\ deaf' = FALSE
    /\ drains' = [drains EXCEPT ![d] = Called]
    /\ UNCHANGED <<file, offset, phase, delivered, heard, restarts>>

----------------------------------------------------------------------------
(* drain(), between one await and the next.                                *)

(* `await stat(file)` takes the size; other calls run before this one      *)
(* resumes and looks at the offset.                                        *)
Stat(d) ==
    /\ drains[d].at = "called"
    /\ drains' = [drains EXCEPT ![d] = [at |-> "statted", size |-> Len(file),
                                        from |-> 0, pos |-> 0]]
    /\ UNCHANGED <<file, offset, phase, notice, delivered, history>>

(* Nothing new: the offset becomes the size, even when that is less.       *)
NothingNew(d) ==
    /\ drains[d].at = "statted" /\ drains[d].size <= offset
    /\ offset' = drains[d].size
    /\ drains' = [drains EXCEPT ![d] = Idle]
    /\ UNCHANGED <<file, phase, notice, delivered, history>>

BeginClaiming(d) ==                                             \* mutant
    /\ drains[d].at = "statted" /\ drains[d].size > offset
    /\ drains' = [drains EXCEPT ![d] = [@ EXCEPT !.at = "reading", !.from = offset, !.pos = offset]]
    /\ offset' = drains[d].size
    /\ UNCHANGED <<file, phase, notice, delivered, history>>
Begin(d) ==
    /\ drains[d].at = "statted" /\ drains[d].size > offset
    /\ drains' = [drains EXCEPT ![d] = [@ EXCEPT !.at = "reading", !.from = offset, !.pos = offset]]
    /\ UNCHANGED <<file, offset, phase, notice, delivered, history>>

(* The next piece of the range: a line whose every piece lies in it is     *)
(* parsed and handed over; half a line is not JSON and is skipped.         *)
Parses(i, from) == file[i] = "whole" \/ (file[i] = "tail" /\ i - 1 > from)

HandOver(d) ==
    LET i == drains[d].pos + 1
        line == IF Parses(i, drains[d].from) THEN {i} ELSE {}
    IN /\ drains[d].at = "reading" /\ i <= drains[d].size
       /\ delivered' = delivered \cup line
       /\ drains' = [drains EXCEPT ![d] = [@ EXCEPT !.pos = i]]
       /\ UNCHANGED <<file, offset, phase, notice, history>>

Finish(d) ==
    /\ drains[d].at = "reading" /\ drains[d].pos = drains[d].size
    /\ offset' = drains[d].size
    /\ drains' = [drains EXCEPT ![d] = Idle]
    /\ UNCHANGED <<file, phase, notice, delivered, history>>

(* The stat fails and drain() returns; or the read fails inside start(),   *)
(* which catches it and arms the watch all the same.  The offset stays.    *)
(* Once the watch is armed nobody catches a failed read: the process ends, *)
(* which is Restart.                                                       *)
Fail(d) ==
    /\ drains[d].at = "called" \/ (drains[d].at = "reading" /\ phase = "replaying")
    /\ drains' = [drains EXCEPT ![d] = Idle]
    /\ deaf' = TRUE
    /\ UNCHANGED <<file, offset, phase, notice, delivered, heard, restarts>>

----------------------------------------------------------------------------
(* The server dies and comes back: offsets are only in memory.             *)
Restart ==
    /\ phase # "down" /\ restarts < MaxRestarts
    /\ phase' = "down" /\ restarts' = restarts + 1
    /\ offset' = 0 /\ notice' = FALSE
    /\ drains' = [d \in Drains |-> Idle]
    /\ delivered' = {} /\ deaf' = FALSE
    /\ UNCHANGED <<file, heard>>

HookInit ==
    /\ file = <<>> /\ offset = 0
    /\ drains = [d \in Drains |-> Idle]
    /\ phase = "down" /\ notice = FALSE
    /\ delivered = {} /\ heard = {} /\ deaf = FALSE
    /\ restarts = 0

DrainStep(d) == Stat(d) \/ NothingNew(d) \/ Begin(d) \/ HandOver(d) \/ Finish(d)

HookNext ==
    \/ \E part \in Parts : Write(part)
    \/ \E d \in Drains : StartWatching(d)
    \/ Arm
    \/ \E d \in Drains : Report(d)
    \/ LoseNotice
    \/ \E d \in Drains : DrainStep(d)
    \/ \E d \in Drains : Fail(d)
    \/ Restart

HookSpec == HookInit /\ [][HookNext]_hookVars

(* startWatching runs on, promises resolve, the watch reports what it saw. *)
(* Nothing obliges anyone to write, and nothing keeps a change from being  *)
(* lost or a drain from failing.                                           *)
Fairness ==
    /\ WF_hookVars(\E d \in Drains : StartWatching(d)) /\ WF_hookVars(Arm)
    /\ WF_hookVars(\E d \in Drains : Report(d))
    /\ \A d \in Drains : WF_hookVars(DrainStep(d))
HookFairSpec == HookSpec /\ Fairness

----------------------------------------------------------------------------
(* Properties.                                                             *)

(* Every variable has its type.                                            *)
HookTypeOK ==
    /\ file \in Seq(Parts)
    /\ offset \in 0..Len(file)
    /\ drains \in [Drains -> Drain]
    /\ \A d \in Drains : /\ drains[d].size <= Len(file)
                         /\ drains[d].from <= drains[d].pos
                         /\ drains[d].pos <= drains[d].size
    /\ phase \in {"down", "replaying", "watching"}
    /\ notice \in BOOLEAN
    /\ delivered \subseteq 1..Len(file)
    /\ heard \subseteq 1..Len(file)
    /\ deaf \in BOOLEAN
    /\ restarts \in Nat

(* Every whole line up to n has been handed over.                          *)
UpTo(n) == \A i \in 1..n : file[i] = "whole" => i \in delivered

(* The offset, which overlapping drains move forward and back, never lies  *)
(* past a whole line that no drain has handed over: none is lost, because  *)
(* the offset moves only when the reading is over.                         *)
NothingSkipped == UpTo(offset)

(* Overlapping drains never hand over a line while an earlier whole line   *)
(* is still outstanding: a session's hook records first arrive in the      *)
(* order they were written.                                                *)
NoLineOvertakes == \A i \in delivered : UpTo(i)

(* A whole line written while the watch is armed reaches the monitor, even *)
(* if the change is reported while other drains run, was lost before, or   *)
(* is lost in a restart: a lost change or a failed drain delays a line for *)
(* no longer than until a later change is heard and its drain succeeds.    *)
EveryHeardLineArrives ==
    \A i \in 1..MaxPieces : []<>~deaf => (i \in heard ~> i \in delivered)
=============================================================================
