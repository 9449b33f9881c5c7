------------------------ MODULE HooksAndTrackerProofs ------------------------
(***************************************************************************)
(* HookTail and ProcessTracker: the watcher that brings the hook records,  *)
(* and the tracker that hears them, one after the other, from the monitor. *)
(*                                                                         *)
(* HookTail, for every number of overlapping drains, lines and restarts:   *)
(* types, no line skipped, no line overtaken.  The offset alone does not   *)
(* carry the argument: a drain that is reading will set it to its own size *)
(* later on, so what has to be known of every reading drain is that all    *)
(* whole lines up to its position are handed over.  That holds when it     *)
(* begins, because it begins at the offset, and it makes the line it hands *)
(* over next the first outstanding one.                                    *)
(*                                                                         *)
(* ProcessTracker, for any processes, pids, sessions and clients: no ghost *)
(* rows, and no working session dropped.  Everything rests on one tick at  *)
(* a time: what a sample knows of a pid lies between what the rows know    *)
(* and what the machine does, and no row changes while an emission waits.  *)
(***************************************************************************)
EXTENDS HookTail, ProcessTracker, SequenceTheorems, TLAPS

-----------------------------------------------------------------------------
(* The watcher *)

ReadSoFar == \A d \in Drains : drains[d].at = "reading" => UpTo(drains[d].pos)

HookInv == HookTypeOK /\ NothingSkipped /\ NoLineOvertakes /\ ReadSoFar

(* UpTo in the next state, for a number taken in this one.                 *)
UpToNext(n) == \A i \in 1..n : file'[i] = "whole" => i \in delivered'

(* Appending to the file keeps what is there.                              *)
LEMMA AppendKeeps ==
    ASSUME HookTypeOK, NEW part \in Parts
    PROVE  /\ Append(file, part) \in Seq(Parts)
           /\ Len(Append(file, part)) = Len(file) + 1
           /\ Len(file) \in Nat
           /\ \A i \in 1..Len(file) : Append(file, part)[i] = file[i]
  BY DEF HookTypeOK

LEMMA InitInv == HookInit => HookInv
<1> SUFFICES ASSUME HookInit PROVE HookInv
  OBVIOUS
<1>1. Len(file) = 0 /\ file \in Seq(Parts)
  BY DEF HookInit
<1>2. HookTypeOK
  <2>1. Idle \in Drain /\ Idle.size = 0 /\ Idle.from = 0 /\ Idle.pos = 0
    BY DEF Idle, Drain
  <2>2. \A d \in Drains : drains[d] = Idle
    BY DEF HookInit
  <2>3. drains \in [Drains -> Drain]
    BY <2>1 DEF HookInit
  <2>4. \A d \in Drains : /\ drains[d].size <= Len(file)
                          /\ drains[d].from <= drains[d].pos
                          /\ drains[d].pos <= drains[d].size
    BY <1>1, <2>1, <2>2
  <2>5. offset \in 0..Len(file) /\ restarts \in Nat
    BY <1>1 DEF HookInit
  <2> QED
    BY <1>1, <2>3, <2>4, <2>5 DEF HookInit, HookTypeOK
<1>3. NothingSkipped /\ NoLineOvertakes
  BY DEF HookInit, NothingSkipped, NoLineOvertakes, UpTo
<1>4. ReadSoFar
  BY DEF HookInit, ReadSoFar, Idle
<1> QED
  BY <1>2, <1>3, <1>4 DEF HookInv

LEMMA WriteInv ==
    ASSUME HookInv, NEW part \in Parts, Write(part)
    PROVE  HookInv'
<1> USE DEF HookInv
<1>1. /\ file' \in Seq(Parts) /\ Len(file') = Len(file) + 1 /\ Len(file) \in Nat
      /\ \A i \in 1..Len(file) : file'[i] = file[i]
  BY AppendKeeps DEF Write
<1>2. UNCHANGED <<offset, drains, phase, delivered, deaf, restarts>>
  BY DEF Write
<1>3. HookTypeOK'
  <2>1. \A d \in Drains : drains'[d].size <= Len(file')
    BY <1>1, <1>2 DEF HookTypeOK, Drain
  <2>2. heard' \subseteq 1..Len(file')
    <3>1. heard' \subseteq heard \cup {Len(file) + 1}
      BY DEF Write
    <3>2. heard \subseteq 1..Len(file)
      BY DEF HookTypeOK
    <3>3. 1..Len(file) \subseteq 1..Len(file') /\ Len(file) + 1 \in 1..Len(file')
      BY <1>1
    <3> QED
      BY <3>1, <3>2, <3>3
  <2>4. notice' \in BOOLEAN
    BY DEF Write, HookTypeOK
  <2>3. offset' \in 0..Len(file')
    BY <1>1, <1>2 DEF HookTypeOK
  <2> QED
    BY <1>1, <1>2, <2>1, <2>2, <2>3, <2>4 DEF HookTypeOK
<1>4. ASSUME NEW n \in 0..Len(file), UpTo(n) PROVE UpToNext(n)
  BY <1>1, <1>2, <1>4 DEF UpTo, UpToNext
<1>5. NothingSkipped'
  <2>1. UpToNext(offset)
    BY <1>4 DEF NothingSkipped, HookTypeOK
  <2> QED
    BY <1>2, <2>1 DEF NothingSkipped, UpTo, UpToNext
<1>6. NoLineOvertakes'
  <2> SUFFICES ASSUME NEW i \in delivered PROVE UpToNext(i)
    BY <1>2 DEF NoLineOvertakes, UpTo, UpToNext
  <2>1. i \in 0..Len(file) /\ UpTo(i)
    BY <1>1 DEF HookTypeOK, NoLineOvertakes
  <2> QED
    BY <1>4, <2>1
<1>7. ReadSoFar'
  <2> SUFFICES ASSUME NEW d \in Drains, drains[d].at = "reading" PROVE UpToNext(drains[d].pos)
    BY <1>2 DEF ReadSoFar, UpTo, UpToNext
  <2>1. drains[d].pos \in 0..Len(file) /\ UpTo(drains[d].pos)
    BY <1>1 DEF HookTypeOK, ReadSoFar, Drain
  <2> QED
    BY <1>4, <2>1
<1> QED
  BY <1>3, <1>5, <1>6, <1>7

(* A step that touches neither the file nor what was handed over preserves *)
(* the invariant if it preserves types, the offset's promise and that of   *)
(* the drains that are reading.                                            *)
LEMMA Framed ==
    ASSUME HookInv, UNCHANGED <<file, delivered>>, HookTypeOK',
           UpTo(offset'),
           \A d \in Drains : drains'[d].at = "reading" => UpTo(drains'[d].pos)
    PROVE  HookInv'
  BY DEF HookInv, NothingSkipped, NoLineOvertakes, ReadSoFar, UpTo

LEMMA StartInv ==
    ASSUME HookInv, NEW d \in Drains, StartWatching(d)
    PROVE  HookInv'
<1> USE DEF HookInv
<1>1. Called \in Drain /\ Called.at = "called" /\ Called.size = 0 /\ Called.from = 0 /\ Called.pos = 0
  BY DEF Called, Idle, Drain
<1>2. \A e \in Drains : drains'[e] = drains[e] \/ drains'[e] = Called
  BY DEF StartWatching, HookTypeOK
<1>3. HookTypeOK'
  <2>1. drains' \in [Drains -> Drain]
    BY <1>1 DEF StartWatching, HookTypeOK
  <2>2. \A e \in Drains : /\ drains'[e].size <= Len(file)
                          /\ drains'[e].from <= drains'[e].pos
                          /\ drains'[e].pos <= drains'[e].size
    BY <1>1, <1>2 DEF HookTypeOK
  <2> QED
    BY <2>1, <2>2 DEF StartWatching, HookTypeOK, history
<1> QED
  BY <1>1, <1>2, <1>3, Framed DEF StartWatching, NothingSkipped, ReadSoFar

LEMMA ReportInv ==
    ASSUME HookInv, NEW d \in Drains, Report(d)
    PROVE  HookInv'
<1> USE DEF HookInv
<1>1. Called \in Drain /\ Called.at = "called" /\ Called.size = 0 /\ Called.from = 0 /\ Called.pos = 0
  BY DEF Called, Idle, Drain
<1>2. \A e \in Drains : drains'[e] = drains[e] \/ drains'[e] = Called
  BY DEF Report, HookTypeOK
<1>3. HookTypeOK'
  <2>1. drains' \in [Drains -> Drain]
    BY <1>1 DEF Report, HookTypeOK
  <2>2. \A e \in Drains : /\ drains'[e].size <= Len(file)
                          /\ drains'[e].from <= drains'[e].pos
                          /\ drains'[e].pos <= drains'[e].size
    BY <1>1, <1>2 DEF HookTypeOK
  <2> QED
    BY <2>1, <2>2 DEF Report, HookTypeOK, history
<1> QED
  BY <1>1, <1>2, <1>3, Framed DEF Report, NothingSkipped, ReadSoFar

LEMMA StatInv ==
    ASSUME HookInv, NEW d \in Drains, Stat(d)
    PROVE  HookInv'
<1> USE DEF HookInv
<1> DEFINE statted == [at |-> "statted", size |-> Len(file), from |-> 0, pos |-> 0]
<1>1. Len(file) \in Nat
  BY DEF HookTypeOK
<1>2. statted \in Drain /\ statted.at = "statted" /\ statted.size = Len(file)
      /\ statted.from = 0 /\ statted.pos = 0
  BY <1>1 DEF Drain
<1>3. \A e \in Drains : drains'[e] = drains[e] \/ drains'[e] = statted
  BY DEF Stat, HookTypeOK
<1> HIDE DEF statted
<1>4. HookTypeOK'
  <2>1. drains' \in [Drains -> Drain]
    BY <1>2 DEF Stat, HookTypeOK, statted
  <2>2. \A e \in Drains : /\ drains'[e].size <= Len(file)
                          /\ drains'[e].from <= drains'[e].pos
                          /\ drains'[e].pos <= drains'[e].size
    BY <1>1, <1>2, <1>3 DEF HookTypeOK
  <2> QED
    BY <2>1, <2>2 DEF Stat, HookTypeOK, history
<1> QED
  BY <1>2, <1>3, <1>4, Framed DEF Stat, NothingSkipped, ReadSoFar

LEMMA NothingNewInv ==
    ASSUME HookInv, NEW d \in Drains, NothingNew(d)
    PROVE  HookInv'
<1> USE DEF HookInv
<1>1. Idle \in Drain /\ Idle.at = "idle" /\ Idle.size = 0 /\ Idle.from = 0 /\ Idle.pos = 0
  BY DEF Idle, Drain
<1>2. \A e \in Drains : drains'[e] = drains[e] \/ drains'[e] = Idle
  BY DEF NothingNew, HookTypeOK
<1>3. offset' \in 0..Len(file) /\ offset' <= offset /\ Len(file) \in Nat
  BY DEF NothingNew, HookTypeOK, Drain
<1>4. HookTypeOK'
  BY <1>1, <1>2, <1>3 DEF NothingNew, HookTypeOK, history, Drain
<1>5. UpTo(offset')
  BY <1>3 DEF NothingSkipped, UpTo, HookTypeOK
<1> QED
  BY <1>1, <1>2, <1>4, <1>5, Framed DEF NothingNew, ReadSoFar

LEMMA BeginInv ==
    ASSUME HookInv, NEW d \in Drains, Begin(d)
    PROVE  HookInv'
<1> USE DEF HookInv
<1>1. /\ drains'[d].at = "reading" /\ drains'[d].from = offset
      /\ drains'[d].pos = offset /\ drains'[d].size = drains[d].size
      /\ drains' \in [Drains -> Drain]
  <2> DEFINE reading == [drains[d] EXCEPT !.at = "reading", !.from = offset, !.pos = offset]
  <2>1. drains[d] \in Drain /\ offset \in Nat
    BY DEF HookTypeOK
  <2>2. /\ reading \in Drain /\ reading.at = "reading" /\ reading.from = offset
        /\ reading.pos = offset /\ reading.size = drains[d].size
    BY <2>1 DEF Drain
  <2>3. drains' = [drains EXCEPT ![d] = reading]
    BY DEF Begin
  <2> HIDE DEF reading
  <2> QED
    BY <2>2, <2>3 DEF HookTypeOK
<1>2. \A e \in Drains \ {d} : drains'[e] = drains[e]
  BY DEF Begin, HookTypeOK
<1>3. \A e \in Drains : /\ drains'[e].size <= Len(file)
                        /\ drains'[e].from <= drains'[e].pos
                        /\ drains'[e].pos <= drains'[e].size
  BY <1>1, <1>2 DEF Begin, HookTypeOK, Drain
<1>4. HookTypeOK'
  BY <1>1, <1>3 DEF Begin, HookTypeOK, history
<1>5. \A e \in Drains : drains'[e].at = "reading" => UpTo(drains'[e].pos)
  BY <1>1, <1>2 DEF NothingSkipped, ReadSoFar
<1> QED
  BY <1>4, <1>5, Framed DEF Begin, NothingSkipped

LEMMA FinishInv ==
    ASSUME HookInv, NEW d \in Drains, Finish(d)
    PROVE  HookInv'
<1> USE DEF HookInv
<1>1. Idle \in Drain /\ Idle.at = "idle" /\ Idle.size = 0 /\ Idle.from = 0 /\ Idle.pos = 0
  BY DEF Idle, Drain
<1>2. \A e \in Drains : drains'[e] = drains[e] \/ drains'[e] = Idle
  BY DEF Finish, HookTypeOK
<1>3. offset' \in 0..Len(file) /\ Len(file) \in Nat
  BY DEF Finish, HookTypeOK, Drain
<1>4. HookTypeOK'
  BY <1>1, <1>2, <1>3 DEF Finish, HookTypeOK, history, Drain
<1>5. UpTo(offset')
  BY DEF Finish, ReadSoFar
<1> QED
  BY <1>1, <1>2, <1>4, <1>5, Framed DEF Finish, ReadSoFar

(* The one step that hands a line over: every whole line before it was     *)
(* handed over already.                                                    *)
LEMMA HandOverInv ==
    ASSUME HookInv, NEW d \in Drains, HandOver(d)
    PROVE  HookInv'
<1> USE DEF HookInv
<1> DEFINE i == drains[d].pos + 1
           line == IF Parses(i, drains[d].from) THEN {i} ELSE {}
<1>1. /\ drains[d].at = "reading" /\ i <= drains[d].size
      /\ delivered' = delivered \cup line
      /\ drains' = [drains EXCEPT ![d] = [@ EXCEPT !.pos = i]]
      /\ UNCHANGED <<file, offset, phase, notice, heard, deaf, restarts>>
  BY DEF HandOver, history
<1>2. i \in 1..Len(file) /\ Len(file) \in Nat /\ line \subseteq {i}
      /\ (file[i] = "whole" => i \in line)
  BY <1>1 DEF HookTypeOK, Drain, Parses
<1>3. /\ drains' \in [Drains -> Drain]
      /\ drains'[d].pos = i /\ drains'[d].size = drains[d].size
      /\ drains'[d].from = drains[d].from /\ drains'[d].at = "reading"
  BY <1>1 DEF HookTypeOK, Drain
<1>4. \A e \in Drains \ {d} : drains'[e] = drains[e]
  BY <1>1 DEF HookTypeOK
<1> HIDE DEF line
<1>5. HookTypeOK'
  <2>1. \A e \in Drains : /\ drains'[e].size <= Len(file)
                          /\ drains'[e].from <= drains'[e].pos
                          /\ drains'[e].pos <= drains'[e].size
    BY <1>1, <1>3, <1>4 DEF HookTypeOK, Drain
  <2> QED
    BY <1>1, <1>2, <1>3, <2>1 DEF HookTypeOK
<1>6. ASSUME NEW n, UpTo(n) PROVE UpToNext(n)
  BY <1>1, <1>6 DEF UpTo, UpToNext
<1>7. UpToNext(i)
  <2>1. UpTo(drains[d].pos) /\ drains[d].pos \in Nat
    BY <1>1 DEF ReadSoFar, HookTypeOK, Drain
  <2> QED
    BY <1>1, <1>2, <2>1 DEF UpTo, UpToNext
<1>8. NothingSkipped'
  <2>1. UpToNext(offset)
    BY <1>6 DEF NothingSkipped
  <2> QED
    BY <1>1, <2>1 DEF NothingSkipped, UpTo, UpToNext
<1>9. NoLineOvertakes'
  <2>1. \A j \in delivered' : UpToNext(j)
    BY <1>1, <1>2, <1>6, <1>7 DEF NoLineOvertakes
  <2> QED
    BY <2>1 DEF NoLineOvertakes, UpTo, UpToNext
<1>10. ReadSoFar'
  <2> SUFFICES ASSUME NEW e \in Drains, drains'[e].at = "reading"
               PROVE UpToNext(drains'[e].pos)
    BY DEF ReadSoFar, UpTo, UpToNext
  <2>1. CASE e = d
    BY <1>3, <1>7, <2>1
  <2>2. CASE e # d
    BY <1>4, <1>6, <2>2 DEF ReadSoFar
  <2> QED
    BY <2>1, <2>2
<1> QED
  BY <1>5, <1>8, <1>9, <1>10

LEMMA FailInv ==
    ASSUME HookInv, NEW d \in Drains, Fail(d)
    PROVE  HookInv'
<1> USE DEF HookInv
<1>1. Idle \in Drain /\ Idle.at = "idle" /\ Idle.size = 0 /\ Idle.from = 0 /\ Idle.pos = 0
  BY DEF Idle, Drain
<1>2. \A e \in Drains : drains'[e] = drains[e] \/ drains'[e] = Idle
  BY DEF Fail, HookTypeOK
<1>3. HookTypeOK'
  <2>1. drains' \in [Drains -> Drain]
    BY <1>1 DEF Fail, HookTypeOK
  <2>2. \A e \in Drains : /\ drains'[e].size <= Len(file)
                          /\ drains'[e].from <= drains'[e].pos
                          /\ drains'[e].pos <= drains'[e].size
    BY <1>1, <1>2 DEF HookTypeOK
  <2> QED
    BY <2>1, <2>2 DEF Fail, HookTypeOK
<1> QED
  BY <1>1, <1>2, <1>3, Framed DEF Fail, NothingSkipped, ReadSoFar

LEMMA RestartInv ==
    ASSUME HookInv, Restart
    PROVE  HookInv'
<1> USE DEF HookInv
<1>1. Idle \in Drain /\ Idle.at = "idle" /\ Idle.size = 0 /\ Idle.from = 0 /\ Idle.pos = 0
  BY DEF Idle, Drain
<1>2. Len(file) \in Nat
  BY DEF HookTypeOK
<1>3. HookTypeOK'
  <2>1. drains' \in [Drains -> Drain] /\ \A d \in Drains : drains'[d] = Idle
    BY <1>1 DEF Restart
  <2>2. \A d \in Drains : /\ drains'[d].size <= Len(file)
                          /\ drains'[d].from <= drains'[d].pos
                          /\ drains'[d].pos <= drains'[d].size
    BY <1>1, <1>2, <2>1
  <2>3. offset' \in 0..Len(file) /\ restarts' \in Nat
    BY <1>2 DEF Restart, HookTypeOK
  <2> QED
    BY <2>1, <2>2, <2>3 DEF Restart, HookTypeOK
<1>4. NothingSkipped' /\ NoLineOvertakes'
  BY DEF Restart, NothingSkipped, NoLineOvertakes, UpTo
<1>5. ReadSoFar'
  BY <1>1 DEF Restart, ReadSoFar
<1> QED
  BY <1>3, <1>4, <1>5

(* The invariant is inductive.                                             *)
THEOREM HookInvariant == HookSpec => []HookInv
<1>1. HookInit => HookInv
  BY InitInv
<1>2. HookInv /\ [HookNext]_hookVars => HookInv'
  <2> SUFFICES ASSUME HookInv, [HookNext]_hookVars PROVE HookInv'
    OBVIOUS
  <2>1. CASE \E part \in Parts : Write(part)
    BY <2>1, WriteInv
  <2>2. CASE \E d \in Drains : StartWatching(d)
    BY <2>2, StartInv
  <2>3. CASE Arm
    <3>1. HookTypeOK'
      BY <2>3 DEF HookInv, Arm, HookTypeOK, history
    <3> QED
      BY <2>3, <3>1, Framed DEF HookInv, Arm, NothingSkipped, ReadSoFar
  <2>4. CASE \E d \in Drains : Report(d)
    BY <2>4, ReportInv
  <2>5. CASE \E d \in Drains : DrainStep(d)
    BY <2>5, StatInv, NothingNewInv, BeginInv, HandOverInv, FinishInv DEF DrainStep
  <2>6. CASE Restart
    BY <2>6, RestartInv
  <2>8. CASE \E d \in Drains : Fail(d)
    BY <2>8, FailInv
  <2>9. CASE LoseNotice
    <3>1. HookTypeOK'
      BY <2>9 DEF LoseNotice, HookInv, HookTypeOK
    <3> QED
      BY <2>9, <3>1, Framed DEF LoseNotice, HookInv, NothingSkipped, ReadSoFar
  <2>7. CASE UNCHANGED hookVars
    BY <2>7 DEF hookVars, history, HookInv, HookTypeOK, NothingSkipped, NoLineOvertakes, ReadSoFar, UpTo
  <2> QED
    BY <2>1, <2>2, <2>3, <2>4, <2>5, <2>6, <2>7, <2>8, <2>9 DEF HookNext
<1> QED
  BY <1>1, <1>2, PTL DEF HookSpec

(* Every reachable state has the types of HookTypeOK.                      *)
THEOREM HookTypeCorrect == HookSpec => []HookTypeOK
<1>1. HookInv => HookTypeOK
  BY DEF HookInv
<1> QED
  BY <1>1, HookInvariant, PTL

(* However many drains overlap, and in whatever order they end, the offset *)
(* never passes a whole line that no drain has handed over.                *)
THEOREM NothingIsLost == HookSpec => []NothingSkipped
<1>1. HookInv => NothingSkipped
  BY DEF HookInv
<1> QED
  BY <1>1, HookInvariant, PTL

(* However many drains overlap, whole lines first arrive in file order.    *)
THEOREM FirstArrivalsInOrder == HookSpec => []NoLineOvertakes
<1>1. HookInv => NoLineOvertakes
  BY DEF HookInv
<1> QED
  BY <1>1, HookInvariant, PTL

-----------------------------------------------------------------------------
(* The tracker: the inductive invariant *)

\* A record with the fields of a row.  What its ancestors are is not said: they
\* are computed by recursion.
IsRow(row) ==
    DOMAIN row = {"session", "project", "provenance", "ancestors", "old", "ports", "missing"}

Shapes ==
    /\ proc \in [Pids -> Proc]
    /\ \A p \in Pids : proc[p].up => <<p, proc[p].life>> \in Ids
    /\ rows = [id \in Ids |-> rows[id]]
    /\ \A id \in Tracked : IsRow(rows[id])
    /\ \A S \in samples : \A p \in DOMAIN S.lines : p \in Pids /\ <<p, S.lines[p].life>> \in Ids
    /\ client.told \subseteq Ids /\ (~client.on => client.told = {})

\* Ticks do not overlap.
OneTick ==
    /\ \A S, T \in samples : S = T
    /\ \A B, C \in batches : B = C
    /\ samples = {} \/ batches = {}

\* A row, a sample and the machine never know of a later life than the next.
Known == \A id \in Tracked : id[2] <= proc[id[1]].life
Sampled(S) ==
    \A p \in DOMAIN S.lines :
        /\ S.lines[p].life <= proc[p].life
        /\ \A id \in Tracked : id[1] = p => id[2] <= S.lines[p].life
SamplesInBetween == \A S \in samples : Sampled(S)

\* A running process is missed once, and the sample after that has it.
Complete(S) == \A id \in Tracked : Running(id) => id[1] \in DOMAIN S.lines
MissedOnce ==
    /\ \A id \in Tracked : Running(id) /\ rows[id].missing = 1 => skipped
    /\ \A S \in samples : ~S.partial => Complete(S)
    /\ \A S \in samples : skipped => ~S.partial

\* What a client was told is tracked and known to be announced, or its delete is
\* to come, or its pid has gone on, and no sample is under way that shows it.
Superseded(id) ==
    /\ proc[id[1]].life > id[2]
    /\ \A S \in samples : id[1] \in DOMAIN S.lines => S.lines[id[1]].life > id[2]
Announced ==
    \A id \in client.told :
        \/ id \in Tracked /\ id \in broadcasted
        \/ \E B \in batches : id \in B.deletes
        \/ Superseded(id)
UpsertsHold == \A B \in batches : \A id \in B.upserts : id \in Tracked /\ id \in broadcasted

TInv ==
    /\ Shapes /\ OneTick /\ Known /\ SamplesInBetween /\ MissedOnce /\ Announced /\ UpsertsHold

-----------------------------------------------------------------------------
(* What a tick makes of a row *)

\* A row is a row, not the lack of one, and stays in the session it is in.
KeepsSession(row, new) ==
    IsRow(new) /\ (row.session # NoSession => new.session = row.session)

LEMMA RowIsNotNoRow ==
    ASSUME NEW row, IsRow(row)
    PROVE  row # NoRow
<1>1. "session" \in DOMAIN row
  BY DEF IsRow
<1>2. "session" \notin DOMAIN NoRow
  BY DEF NoRow
<1> QED BY <1>1, <1>2

LEMMA AttributedRow ==
    ASSUME NEW row, IsRow(row), NEW s, NEW how
    PROVE  KeepsSession(row, Attributed(row, s, how))
<1>1. CASE row.session # NoSession \/ s = NoSession
  BY <1>1 DEF Attributed, KeepsSession
<1>2. CASE ~(row.session # NoSession \/ s = NoSession)
  BY <1>2 DEF Attributed, KeepsSession, IsRow
<1> QED BY <1>1, <1>2

LEMMA ClaimedRow ==
    ASSUME NEW row, IsRow(row), NEW S, NEW p
    PROVE  KeepsSession(row, WithProject(Claimed(row, S, p)))
<1> DEFINE one == Attributed(row, InTree(S, p), "observed")
           two == Attributed(one, InLineage(row), "observed")
<1>1. KeepsSession(row, one)
  BY AttributedRow
<1> HIDE DEF one
<1>2. KeepsSession(one, two)
  BY <1>1, AttributedRow DEF KeepsSession
<1>3. Claimed(row, S, p) = two
  BY DEF Claimed, one
<1> HIDE DEF two
<1>4. KeepsSession(two, WithProject(two))
  BY <1>2 DEF KeepsSession, WithProject, IsRow
<1> QED BY <1>1, <1>2, <1>3, <1>4 DEF KeepsSession

LEMMA PlacedRow ==
    ASSUME NEW row, IsRow(row), NEW id
    PROVE  KeepsSession(row, ByDirectory(row, id))
<1> DEFINE matches == {registered[i].session : i \in DOMAIN registered} \cap Near[id]
<1>1. CASE row.session # NoSession \/ row.project \/ matches = {}
  BY <1>1 DEF ByDirectory, KeepsSession
<1>2. CASE ~(row.session # NoSession \/ row.project \/ matches = {}) /\ Cardinality(matches) = 1
  <2>1. PICK how : /\ ByDirectory(row, id) = [how EXCEPT !.project = TRUE]
                   /\ KeepsSession(row, how)
    BY <1>2, AttributedRow DEF ByDirectory
  <2>2. KeepsSession(how, [how EXCEPT !.project = TRUE])
    BY <2>1 DEF KeepsSession, IsRow
  <2> QED BY <2>1, <2>2 DEF KeepsSession
<1>3. CASE ~(row.session # NoSession \/ row.project \/ matches = {}) /\ Cardinality(matches) # 1
  <2>1. \E v : ByDirectory(row, id) = [row EXCEPT !.project = TRUE, !.provenance = v]
    BY <1>3 DEF ByDirectory
  <2> QED BY <2>1 DEF KeepsSession, IsRow
<1> QED BY <1>1, <1>2, <1>3

LEMMA MeantRow ==
    ASSUME NEW row, IsRow(row), NEW id
    PROVE  KeepsSession(row, WithIntent(row, id))
<1>1. WithIntent(row, id) = row \/ WithIntent(row, id) = [row EXCEPT !.provenance = "hooked"]
  BY DEF WithIntent
<1> QED BY <1>1 DEF KeepsSession, IsRow

\* What a sample shows is a row again, no longer missing.
LEMMA RefreshedRow ==
    ASSUME NEW S, NEW p, NEW cwds,
           LET row == rows[<<p, S.lines[p].life>>] IN row = NoRow \/ IsRow(row)
    PROVE  LET row == rows[<<p, S.lines[p].life>>]
               new == Refreshed(S, p, cwds)
           IN  /\ IsRow(new) /\ new # NoRow /\ new.missing = 0
               /\ row # NoRow /\ row.session # NoSession => new.session = row.session
<1> DEFINE id == <<p, S.lines[p].life>>
           row == IF rows[id] = NoRow THEN createRow(S, p) ELSE rows[id]
           placed == WithProject(Claimed(row, S, p))
           near == IF cwds THEN ByDirectory(placed, id) ELSE placed
           meant == WithIntent(near, id)
           new == [meant EXCEPT !.old = S.lines[p].old, !.missing = 0]
<1>1. IsRow(createRow(S, p))
  BY DEF createRow, IsRow
<1>2. IsRow(row) /\ (rows[id] # NoRow => row = rows[id])
  BY <1>1
<1>3. Refreshed(S, p, cwds) = new
  BY DEF Refreshed
<1> HIDE DEF row
<1>4. KeepsSession(row, placed)
  BY <1>2, ClaimedRow
<1> HIDE DEF placed
<1>5. KeepsSession(placed, near)
  BY <1>4, PlacedRow DEF KeepsSession
<1> HIDE DEF near
<1>6. KeepsSession(near, meant)
  BY <1>5, MeantRow DEF KeepsSession
<1> HIDE DEF meant
<1>7. KeepsSession(meant, new) /\ new.missing = 0
  BY <1>6 DEF KeepsSession, IsRow
<1> HIDE DEF new
<1>8. IsRow(new) /\ new # NoRow
  BY <1>7, RowIsNotNoRow DEF KeepsSession
<1> QED BY <1>2, <1>3, <1>4, <1>5, <1>6, <1>7, <1>8 DEF KeepsSession, id

-----------------------------------------------------------------------------
(* The steps *)

LEMMA InitTInv == Init => TInv
<1> SUFFICES ASSUME Init PROVE TInv
  OBVIOUS
<1>1. Tracked = {}
  BY DEF Init, Tracked
<1>2. Unused \in Proc /\ ~Unused.up
  BY DEF Unused, Proc
<1>3. Shapes
  BY <1>1, <1>2 DEF Init, Shapes, NoClient
<1>4. Known /\ MissedOnce
  BY <1>1 DEF Init, Known, MissedOnce
<1>5. OneTick /\ SamplesInBetween /\ Announced /\ UpsertsHold
  BY DEF Init, OneTick, SamplesInBetween, Announced, UpsertsHold, NoClient
<1> QED BY <1>3, <1>4, <1>5 DEF TInv

\* The machine moves on: lives only grow, and nothing that was down comes up
\* again in the same life.
LEMMA WorldKeeps ==
    ASSUME TInv, NoTick, proc' \in [Pids -> Proc],
           \A p \in Pids : proc'[p].up => <<p, proc'[p].life>> \in Ids,
           \A p \in Pids : proc[p].life <= proc'[p].life,
           \A p \in Pids : proc'[p].up /\ proc'[p].life = proc[p].life => proc[p].up
    PROVE  TInv'
<1>1. UNCHANGED <<rows, broadcasted, samples, batches, skipped, client>> /\ Tracked' = Tracked
  BY DEF NoTick, table, Tracked
<1>2. \A p \in Pids : proc[p].life \in Int /\ proc'[p].life \in Int
  BY DEF TInv, Shapes, Proc
<1>3. \A id \in Ids : id[1] \in Pids /\ id[2] \in Int
  BY DEF Ids
<1>4. Shapes' /\ OneTick' /\ UpsertsHold'
  BY <1>1 DEF TInv, Shapes, OneTick, UpsertsHold
<1>5. Known'
  BY <1>1, <1>2, <1>3 DEF TInv, Known, Tracked
<1>6. SamplesInBetween'
  <2> SUFFICES ASSUME NEW S \in samples, NEW p \in DOMAIN S.lines PROVE S.lines[p].life <= proc'[p].life
    BY <1>1 DEF TInv, SamplesInBetween, Sampled
  <2>1. p \in Pids /\ S.lines[p].life \in Int /\ S.lines[p].life <= proc[p].life
    BY <1>3 DEF TInv, Shapes, SamplesInBetween, Sampled, Ids
  <2> QED BY <1>2, <2>1
<1>7. ASSUME NEW id \in Tracked, Running(id)' PROVE Running(id)
  <2>1. id[1] \in Pids /\ id[2] \in Int /\ id[2] <= proc[id[1]].life
    BY <1>3 DEF TInv, Known, Tracked
  <2>2. proc'[id[1]].up /\ proc'[id[1]].life = id[2]
    BY <1>7 DEF Running
  <2>3. proc[id[1]].life = id[2]
    BY <1>2, <2>1, <2>2
  <2> QED BY <2>1, <2>2, <2>3 DEF Running
<1>8. MissedOnce'
  BY <1>1, <1>7 DEF TInv, MissedOnce, Complete
<1>9. Announced'
  <2> SUFFICES ASSUME NEW id \in client.told, Superseded(id) PROVE proc'[id[1]].life > id[2]
    BY <1>1 DEF TInv, Announced, Superseded
  <2>1. id \in Ids /\ proc[id[1]].life > id[2]
    BY DEF TInv, Shapes, Superseded
  <2> QED BY <1>2, <1>3, <2>1
<1> QED BY <1>4, <1>5, <1>6, <1>8, <1>9 DEF TInv

LEMMA MachineKeeps ==
    ASSUME TInv, NEW p \in Pids,
           Start(p) \/ Age(p) \/ Bind(p) \/ Exit(p) \/ \E s \in Sessions : BeginSession(p, s)
    PROVE  TInv'
<1> USE DEF TInv
<1>1. \A q \in Pids : proc[q] \in Proc /\ proc[q].life \in 0..3 /\ proc[q].life <= proc[q].life
  BY DEF Shapes, Proc
<1>2. CASE Start(p)
  <2>1. PICK q \in Pids \cup {NoPid} :
            proc' = [proc EXCEPT ![p] = [Unused EXCEPT !.life = proc[p].life + 1, !.up = TRUE, !.parent = q]]
    BY <1>2 DEF Start
  <2>2. Lives[p] \in 1..3 /\ proc[p].life < Lives[p]
    BY <1>2, LivesAssumption DEF Start
  <2> DEFINE new == [Unused EXCEPT !.life = proc[p].life + 1, !.up = TRUE, !.parent = q]
  <2>3. new \in Proc /\ new.life = proc[p].life + 1
    <3>1. proc[p].life + 1 \in 0..3
      BY <1>1, <2>2
    <3>2. \A n \in 0..3 : LET u == [Unused EXCEPT !.life = n, !.up = TRUE, !.parent = q]
                          IN  u \in Proc /\ u.life = n
      BY DEF Unused, Proc
    <3> QED BY <3>1, <3>2
  <2>4. <<p, new.life>> \in Ids
    BY <1>1, <2>2, <2>3 DEF Ids
  <2> HIDE DEF new
  <2>5. proc' = [proc EXCEPT ![p] = new]
    BY <2>1 DEF new
  <2>6. /\ proc' \in [Pids -> Proc] /\ proc'[p] = new
        /\ \A r \in Pids : r # p => proc'[r] = proc[r]
    BY <2>3, <2>5 DEF Shapes
  <2>7. \A r \in Pids : proc'[r].up => <<r, proc'[r].life>> \in Ids
    BY <2>4, <2>6 DEF Shapes
  <2>8. proc[p].life <= new.life /\ new.life # proc[p].life
    BY <1>1, <2>3
  <2>9. \A r \in Pids : /\ proc[r].life <= proc'[r].life
                        /\ proc'[r].up /\ proc'[r].life = proc[r].life => proc[r].up
    BY <1>1, <2>6, <2>8
  <2> QED BY <1>2, <2>6, <2>7, <2>9, WorldKeeps DEF Start
<1>3. CASE Age(p) \/ Bind(p) \/ \E s \in Sessions : BeginSession(p, s)
  <2>1. /\ proc' \in [Pids -> Proc]
        /\ \A r \in Pids : proc'[r].life = proc[r].life /\ proc'[r].up = proc[r].up
    <3>1. CASE Age(p)
      BY <3>1 DEF Age, Shapes, Proc
    <3>2. CASE Bind(p)
      BY <3>2 DEF Bind, Shapes, Proc
    <3>3. CASE \E s \in Sessions : BeginSession(p, s)
      BY <3>3 DEF BeginSession, Shapes, Proc
    <3> QED BY <1>3, <3>1, <3>2, <3>3
  <2>2. NoTick
    BY <1>3 DEF Age, Bind, BeginSession
  <2>3. \A r \in Pids : proc'[r].up => <<r, proc'[r].life>> \in Ids
    BY <2>1 DEF Shapes
  <2> QED BY <1>1, <2>1, <2>2, <2>3, WorldKeeps
<1>4. CASE Exit(p)
  <2>1. proc' = [q \in Pids |->
          IF q = p THEN [Unused EXCEPT !.life = proc[p].life]
          ELSE IF proc[q].parent = p THEN [proc[q] EXCEPT !.parent = NoPid] ELSE proc[q]]
    BY <1>4 DEF Exit
  <2>2. [Unused EXCEPT !.life = proc[p].life] \in Proc /\ ~[Unused EXCEPT !.life = proc[p].life].up
        /\ [Unused EXCEPT !.life = proc[p].life].life = proc[p].life
    BY <1>1 DEF Unused, Proc
  <2>3. ASSUME NEW q \in Pids
        PROVE  /\ [proc[q] EXCEPT !.parent = NoPid] \in Proc
               /\ [proc[q] EXCEPT !.parent = NoPid].up = proc[q].up
               /\ [proc[q] EXCEPT !.parent = NoPid].life = proc[q].life
    BY <1>1 DEF Proc
  <2>4. ASSUME NEW q \in Pids
        PROVE  proc'[q] \in Proc /\ proc'[q].life = proc[q].life /\ (proc'[q].up => proc[q].up)
    <3>1. CASE q = p
      BY <2>1, <2>2, <3>1
    <3>2. CASE q # p /\ proc[q].parent = p
      BY <2>1, <2>3, <3>2
    <3>3. CASE q # p /\ proc[q].parent # p
      BY <1>1, <2>1, <3>3
    <3> QED BY <3>1, <3>2, <3>3
  <2>5. proc' \in [Pids -> Proc]
    BY <2>1, <2>4
  <2>6. \A r \in Pids : proc'[r].up => <<r, proc'[r].life>> \in Ids
    BY <2>4 DEF Shapes
  <2>7. NoTick
    BY <1>4 DEF Exit
  <2> QED BY <1>1, <2>4, <2>5, <2>6, <2>7, WorldKeeps
<1> QED BY <1>2, <1>3, <1>4

LEMMA OthersKeep ==
    ASSUME TInv,
           handleHookRecord \/ BeginSweep \/ Subscribe \/ Unsubscribe \/ UNCHANGED vars
    PROVE  TInv'
<1> USE DEF TInv
<1>1. UNCHANGED <<proc, rows, broadcasted, samples, batches, skipped>> /\ Tracked' = Tracked
  BY DEF handleHookRecord, BeginSweep, Subscribe, Unsubscribe, vars, world, table, Tracked
<1>2. OneTick' /\ Known' /\ SamplesInBetween' /\ MissedOnce' /\ UpsertsHold'
  BY <1>1 DEF OneTick, Known, SamplesInBetween, Sampled, MissedOnce, Complete, UpsertsHold, Running
<1>3. /\ client'.told \subseteq Ids /\ (~client'.on => client'.told = {})
      /\ \A id \in client'.told : id \in client.told \/ (id \in Tracked /\ id \in broadcasted)
  <2>1. CASE Subscribe
    BY <2>1 DEF Subscribe, getQualifyingRows, Tracked
  <2>2. CASE Unsubscribe
    BY <2>2 DEF Unsubscribe, NoClient
  <2>3. CASE handleHookRecord \/ BeginSweep \/ UNCHANGED vars
    BY <2>3 DEF handleHookRecord, BeginSweep, vars, Shapes
  <2> QED BY <2>1, <2>2, <2>3
<1>4. Shapes'
  BY <1>1, <1>3 DEF Shapes
<1>5. Announced'
  BY <1>1, <1>3 DEF Announced, Superseded
<1> QED BY <1>2, <1>4, <1>5

\* A sample shows the machine as it is; and the next one after a gap is complete.
LEMMA BeginTickKeeps == ASSUME TInv, BeginTick PROVE TInv'
<1> USE DEF TInv
<1> DEFINE up == {p \in Pids : proc[p].up}
           line(p) == [life |-> proc[p].life, parent |-> proc[p].parent, old |-> proc[p].old]
           sample(seen) == [lines |-> [p \in seen |-> line(p)], partial |-> seen # up]
<1>1. PICK left \in {{}} \cup {{p} : p \in IF skipped THEN {} ELSE up} :
          samples' = samples \cup {sample(up \ left)}
  BY DEF BeginTick, TakeSample
<1> DEFINE S == sample(up \ left)
<1>2. samples = {} /\ batches = {} /\ samples' = {S}
  BY <1>1 DEF BeginTick
<1>3. UNCHANGED <<proc, rows, broadcasted, batches, skipped, client>> /\ Tracked' = Tracked
  BY DEF BeginTick, TakeSample, world, table, Tracked
<1>4. /\ DOMAIN S.lines = up \ left /\ S.partial = (up \ left # up)
      /\ \A p \in DOMAIN S.lines : p \in Pids /\ proc[p].up /\ S.lines[p].life = proc[p].life
  OBVIOUS
<1>5. skipped => ~S.partial
  BY <1>1, <1>4
<1>6. ~S.partial => \A p \in Pids : proc[p].up => p \in DOMAIN S.lines
  BY <1>4
<1> HIDE DEF S
<1>7. \A id \in Ids : id[1] \in Pids /\ id[2] \in Int
  BY DEF Ids
<1>8. Shapes'
  BY <1>2, <1>3, <1>4 DEF Shapes
<1>9. OneTick' /\ Known' /\ UpsertsHold'
  BY <1>2, <1>3 DEF OneTick, Known, UpsertsHold
<1>10. SamplesInBetween'
  <2>1. ASSUME NEW p \in DOMAIN S.lines
        PROVE  /\ S.lines[p].life <= proc[p].life
               /\ \A id \in Tracked : id[1] = p => id[2] <= S.lines[p].life
    <3>1. proc[p].life \in Int
      BY <1>4 DEF Shapes, Proc
    <3> QED BY <1>4, <3>1 DEF Known
  <2> QED BY <1>2, <1>3, <2>1 DEF SamplesInBetween, Sampled
<1>11. MissedOnce'
  <2>1. ~S.partial => \A id \in Tracked : Running(id) => id[1] \in DOMAIN S.lines
    BY <1>6, <1>7 DEF Running, Tracked
  <2> QED BY <1>2, <1>3, <1>5, <2>1 DEF MissedOnce, Complete, Running
<1>12. Announced'
  BY <1>2, <1>3, <1>4 DEF Announced, Superseded
<1> QED BY <1>8, <1>9, <1>10, <1>11, <1>12

\* The clients hear of the tick: its upserts are tracked, its deletes forgotten.
LEMMA EmitKeeps == ASSUME TInv, NEW B \in batches, Emit(B) PROVE TInv'
<1> USE DEF TInv
<1>1. batches' = {} /\ samples = {} /\ batches = {B}
  BY DEF Emit, OneTick
<1>2. UNCHANGED <<proc, rows, broadcasted, samples, skipped>> /\ Tracked' = Tracked
  BY DEF Emit, world, table, Tracked
<1>3. /\ client'.on = client.on
      /\ client'.told = IF client.on THEN (client.told \cup B.upserts) \ B.deletes ELSE client.told
  BY DEF Emit
<1>4. Shapes'
  BY <1>2, <1>3 DEF Shapes, UpsertsHold, Tracked
<1>5. OneTick' /\ Known' /\ SamplesInBetween' /\ MissedOnce' /\ UpsertsHold'
  BY <1>1, <1>2 DEF OneTick, Known, SamplesInBetween, Sampled, MissedOnce, Complete, UpsertsHold, Running
<1>6. Announced'
  <2> SUFFICES ASSUME NEW id \in client'.told
               PROVE  (id \in Tracked /\ id \in broadcasted) \/ Superseded(id)
    BY <1>2 DEF Announced, Superseded
  <2>1. CASE ~client.on
    BY <1>3, <2>1 DEF Shapes
  <2>2. CASE client.on /\ id \in B.upserts
    BY <2>2 DEF UpsertsHold
  <2>3. CASE client.on /\ id \in client.told /\ id \notin B.deletes
    BY <1>1, <2>3 DEF Announced
  <2> QED BY <1>3, <2>1, <2>2, <2>3
<1> QED BY <1>4, <1>5, <1>6

\* Ports change a row's ports.
LEMMA SweepKeeps == ASSUME TInv, ApplySweep PROVE TInv'
<1> USE DEF TInv
<1>1. UNCHANGED <<proc, broadcasted, samples, batches, skipped, client>>
  BY DEF ApplySweep, world
<1>2. ASSUME NEW id \in Ids
      PROVE  IF rows[id] = NoRow THEN rows'[id] = NoRow
             ELSE \E v : rows'[id] = [rows[id] EXCEPT !.ports = v]
  BY DEF ApplySweep
<1>3. rows' = [id \in Ids |-> rows'[id]]
  BY DEF ApplySweep
<1>4. ASSUME NEW id \in Tracked
      PROVE  IsRow(rows'[id]) /\ rows'[id] # NoRow /\ rows'[id].missing = rows[id].missing
  <2>1. IsRow(rows[id]) /\ id \in Ids /\ rows[id] # NoRow
    BY DEF Shapes, Tracked
  <2>2. PICK v : rows'[id] = [rows[id] EXCEPT !.ports = v]
    BY <1>2, <2>1
  <2>3. IsRow(rows'[id]) /\ rows'[id].missing = rows[id].missing
    BY <2>1, <2>2 DEF IsRow
  <2> QED BY <2>3, RowIsNotNoRow
<1>5. Tracked' = Tracked
  BY <1>2, <1>4 DEF Tracked
<1>6. Shapes'
  BY <1>1, <1>3, <1>4, <1>5 DEF Shapes
<1>7. MissedOnce'
  BY <1>1, <1>4, <1>5 DEF MissedOnce, Complete, Running
<1> QED BY <1>1, <1>5, <1>6, <1>7
        DEF OneTick, Known, SamplesInBetween, Sampled, Announced, Superseded, UpsertsHold

\* A tick: what its sample shows is tracked, what it misses is marked or gone, and
\* a pid that shows a later life has gone on.
LEMMA ReconcileKeeps ==
    ASSUME TInv, NEW S \in samples, NEW cwds \in BOOLEAN, Reconcile(S, cwds)
    PROVE  /\ TInv'
           /\ \A id \in Tracked : Running(id) =>
                 /\ rows'[id] # NoRow
                 /\ rows[id].session # NoSession => rows'[id].session = rows[id].session
<1> USE DEF TInv
<1> DEFINE present == {<<p, S.lines[p].life>> : p \in DOMAIN S.lines}
           recycled == {id \in Tracked : id \notin present /\ id[1] \in DOMAIN S.lines}
           missed == Tracked \ (present \cup recycled)
           gone == Gone(missed)
           upserts == {id \in present : qualifiesForBroadcast(rows'[id], id)}
<1>1. /\ rows' = [id \in Ids |->
                    IF id \in present THEN Refreshed(S, id[1], cwds)
                    ELSE IF id \in missed \ gone THEN [rows[id] EXCEPT !.missing = 1]
                    ELSE NoRow]
      /\ broadcasted' = (broadcasted \cup upserts) \ gone
      /\ samples' = samples \ {S}
      /\ batches' = batches \cup {[upserts |-> upserts, deletes |-> gone \cap broadcasted]}
      /\ skipped' = S.partial
      /\ UNCHANGED <<proc, client>>
  BY DEF Reconcile, world
<1>2. samples = {S} /\ samples' = {} /\ batches = {}
  BY <1>1 DEF OneTick
<1>3. /\ \A id \in Ids : id[1] \in Pids /\ id[2] \in Int /\ id = <<id[1], id[2]>>
      /\ Tracked \subseteq Ids
      /\ \A p \in Pids : proc[p].life \in Int
  BY DEF Ids, Tracked, Shapes, Proc
<1>4. ASSUME NEW id \in present
      PROVE  id \in Ids /\ id[1] \in DOMAIN S.lines /\ id = <<id[1], S.lines[id[1]].life>>
             /\ id[2] = S.lines[id[1]].life
  BY DEF Shapes
<1>5. ASSUME NEW id \in missed
      PROVE  id \in Tracked /\ id[1] \notin DOMAIN S.lines /\ IsRow(rows[id])
  BY DEF Shapes
<1>6. gone \subseteq missed /\ gone \cap present = {} /\ upserts \subseteq present
      /\ \A id \in missed : id \in gone <=> rows[id].missing = 1
  BY DEF Gone
<1>7. ASSUME NEW id \in Ids, id[1] \in DOMAIN S.lines, id \notin present
      PROVE  id[2] # S.lines[id[1]].life
  BY <1>3, <1>7
<1> HIDE DEF present, gone, upserts, missed
<1>8. ASSUME NEW id \in present
      PROVE  /\ IsRow(rows'[id]) /\ rows'[id] # NoRow /\ rows'[id].missing = 0
             /\ rows[id] # NoRow /\ rows[id].session # NoSession => rows'[id].session = rows[id].session
  <2>1. id \in Ids /\ id = <<id[1], S.lines[id[1]].life>>
    BY <1>4
  <2>2. rows[id] = NoRow \/ IsRow(rows[id])
    BY <2>1 DEF Shapes, Tracked
  <2>3. rows'[id] = Refreshed(S, id[1], cwds)
    BY <1>1, <2>1
  <2> QED BY <2>1, <2>2, <2>3, RefreshedRow
<1>9. ASSUME NEW id \in missed \ gone
      PROVE  /\ IsRow(rows'[id]) /\ rows'[id] # NoRow /\ rows'[id].missing = 1
             /\ rows'[id].session = rows[id].session
  <2>1. id \in Ids /\ IsRow(rows[id]) /\ id \notin present
    BY <1>3, <1>4, <1>5
  <2>2. rows'[id] = [rows[id] EXCEPT !.missing = 1]
    BY <1>1, <2>1
  <2>3. IsRow(rows'[id]) /\ rows'[id].missing = 1 /\ rows'[id].session = rows[id].session
    BY <2>1, <2>2 DEF IsRow
  <2> QED BY <2>3, RowIsNotNoRow
<1>10. ASSUME NEW id \in Ids, id \notin present, id \notin missed \ gone
       PROVE  rows'[id] = NoRow
  BY <1>1, <1>10
<1>11. Tracked' = present \cup (missed \ gone)
  <2>1. present \cup (missed \ gone) \subseteq Ids
    BY <1>3, <1>4, <1>5
  <2>2. \A id \in Ids : rows'[id] # NoRow <=> id \in present \cup (missed \ gone)
    BY <1>8, <1>9, <1>10
  <2> QED BY <2>1, <2>2 DEF Tracked
<1>12. Shapes'
  <2>1. rows' = [id \in Ids |-> rows'[id]]
    BY <1>1
  <2>2. \A id \in Tracked' : IsRow(rows'[id])
    BY <1>8, <1>9, <1>11
  <2> QED BY <1>1, <1>2, <2>1, <2>2 DEF Shapes
<1>13. OneTick'
  BY <1>1, <1>2 DEF OneTick
<1>14. Sampled(S)
  BY DEF SamplesInBetween
<1>15. Known'
  <2>1. ASSUME NEW id \in present PROVE id[2] <= proc[id[1]].life
    BY <1>4, <1>14 DEF Sampled
  <2>2. ASSUME NEW id \in missed PROVE id[2] <= proc[id[1]].life
    BY <1>5 DEF Known
  <2> QED BY <1>1, <1>11, <2>1, <2>2 DEF Known
<1>16. SamplesInBetween'
  BY <1>2 DEF SamplesInBetween
\* A tracked process that runs is in the sample, or missed for the first time.
<1>17. ASSUME NEW id \in Tracked, Running(id)
       PROVE  \/ id \in present
              \/ id \in missed \ gone /\ S.partial
  <2>1. id \in Ids /\ proc[id[1]].life = id[2] /\ id[1] \in Pids
    BY <1>3, <1>17 DEF Running
  <2>2. CASE id[1] \in DOMAIN S.lines
    <3>1. S.lines[id[1]].life <= proc[id[1]].life /\ id[2] <= S.lines[id[1]].life
      BY <1>14, <2>2 DEF Sampled
    <3>2. S.lines[id[1]].life \in Int
      BY <1>3, <2>2 DEF Shapes, Ids
    <3>3. S.lines[id[1]].life = id[2]
      BY <1>3, <2>1, <3>1, <3>2
    <3> QED BY <1>7, <2>1, <2>2, <3>3
  <2>3. CASE id[1] \notin DOMAIN S.lines
    <3>1. id \in missed
      BY <1>4, <2>3 DEF missed
    <3>2. S.partial
      BY <1>17, <2>3 DEF MissedOnce, Complete
    <3>3. rows[id].missing # 1
      BY <1>17, <3>2 DEF MissedOnce
    <3> QED BY <1>6, <3>1, <3>2, <3>3
  <2> QED BY <2>2, <2>3
<1>18. MissedOnce'
  <2> SUFFICES ASSUME NEW id \in Tracked', Running(id), rows'[id].missing = 1 PROVE S.partial
    BY <1>1, <1>2 DEF MissedOnce, Running
  <2>1. id \in missed \ gone /\ id \notin present
    BY <1>8, <1>11
  <2>2. id \in Tracked
    BY <1>5, <2>1
  <2> QED BY <1>17, <2>1, <2>2
<1>19. Announced'
  <2> SUFFICES ASSUME NEW id \in client.told
               PROVE  \/ id \in Tracked' /\ id \in broadcasted'
                      \/ id \in gone \cap broadcasted
                      \/ proc[id[1]].life > id[2]
    BY <1>1, <1>2 DEF Announced, Superseded
  <2>1. (id \in Tracked /\ id \in broadcasted) \/ Superseded(id)
    BY <1>2 DEF Announced
  <2>2. CASE Superseded(id)
    BY <2>2 DEF Superseded
  <2>3. CASE id \in Tracked /\ id \in broadcasted
    <3>1. CASE id \in gone
      BY <2>3, <3>1
    <3>2. CASE id \in present \cup (missed \ gone)
      BY <1>1, <1>6, <1>11, <2>3, <3>2
    <3>3. CASE id \notin missed /\ id \notin present
      <4>1. id[1] \in DOMAIN S.lines /\ id \in Ids
        BY <1>3, <2>3, <3>3 DEF missed
      <4>2. S.lines[id[1]].life # id[2] /\ id[2] <= S.lines[id[1]].life
            /\ S.lines[id[1]].life <= proc[id[1]].life
        BY <1>7, <1>14, <2>3, <3>3, <4>1 DEF Sampled
      <4>3. S.lines[id[1]].life \in Int
        BY <1>3, <4>1 DEF Shapes, Ids
      <4> QED BY <1>3, <4>1, <4>2, <4>3
    <3> QED BY <3>1, <3>2, <3>3
  <2> QED BY <2>1, <2>2, <2>3
<1>20. UpsertsHold'
  BY <1>1, <1>2, <1>6, <1>11 DEF UpsertsHold
<1>21. ASSUME NEW id \in Tracked, Running(id)
       PROVE  /\ rows'[id] # NoRow
              /\ rows[id].session # NoSession => rows'[id].session = rows[id].session
  BY <1>8, <1>9, <1>17, <1>21 DEF Tracked
<1> QED BY <1>12, <1>13, <1>15, <1>16, <1>18, <1>19, <1>20, <1>21

LEMMA NextTInv == TInv /\ [Next]_vars => TInv'
<1> SUFFICES ASSUME TInv, [Next]_vars PROVE TInv'
  OBVIOUS
<1>1. CASE \E p \in Pids : Start(p) \/ Age(p) \/ Bind(p) \/ Exit(p) \/ \E s \in Sessions : BeginSession(p, s)
  BY <1>1, MachineKeeps
<1>2. CASE handleHookRecord \/ BeginSweep \/ Subscribe \/ Unsubscribe \/ UNCHANGED vars
  BY <1>2, OthersKeep
<1>3. CASE BeginTick
  BY <1>3, BeginTickKeeps
<1>4. CASE \E S \in samples, cwds \in BOOLEAN : Reconcile(S, cwds)
  BY <1>4, ReconcileKeeps
<1>5. CASE \E B \in batches : Emit(B)
  BY <1>5, EmitKeeps
<1>6. CASE ApplySweep
  BY <1>6, SweepKeeps
<1> QED BY <1>1, <1>2, <1>3, <1>4, <1>5, <1>6 DEF Next

\* The invariant of the process table.
THEOREM TrackerInvariant == Spec => []TInv
<1> QED BY InitTInv, NextTInv, PTL DEF Spec

\* A client keeps no row that was announced and is forgotten, for any processes,
\* pids, sessions and clients that come and go: ticks do not overlap, so what an
\* emission shows is still tracked, and what a tick forgets was announced and is
\* in its deletes, or is a pid that has passed on.
THEOREM NoGhosts == Spec => []NoGhostRows
<1>1. TInv => NoGhostRows
  BY DEF TInv, Announced, NoGhostRows, Superseded
<1> QED BY <1>1, TrackerInvariant, PTL

\* A working session is not dropped by a tick: its process was tracked before the
\* sample was taken, so the sample that misses it is the first that does.
THEOREM WorkingSessionsStay == Spec => LiveStaysLive
<1>1. ASSUME TInv, [Next]_vars, NEW id \in Claudes, rows[id] # NoRow,
             rows[id].session # NoSession, Running(id), Running(id)'
      PROVE  rows[id].session \in liveSessionIds'
  <2>1. id \in Ids /\ id \in Tracked
    BY <1>1, ClaudesAssumption DEF Tracked
  <2>2. rows'[id] # NoRow /\ rows'[id].session = rows[id].session
    <3>1. CASE UNCHANGED rows
      BY <1>1, <3>1
    <3>2. CASE ApplySweep
      <4>1. PICK v : rows'[id] = [rows[id] EXCEPT !.ports = v]
        BY <1>1, <2>1, <3>2 DEF ApplySweep
      <4>2. IsRow(rows[id])
        BY <1>1, <2>1 DEF TInv, Shapes
      <4>3. IsRow(rows'[id]) /\ rows'[id].session = rows[id].session
        BY <4>1, <4>2 DEF IsRow
      <4> QED BY <4>3, RowIsNotNoRow
    <3>3. CASE \E S \in samples, cwds \in BOOLEAN : Reconcile(S, cwds)
      BY <1>1, <2>1, <3>3, ReconcileKeeps
    <3> QED BY <1>1, <3>1, <3>2, <3>3
            DEF Next, NoTick, table, vars, Start, Age, Bind, Exit, BeginSession, handleHookRecord,
                BeginTick, TakeSample, Emit, BeginSweep, Subscribe, Unsubscribe
  <2>3. id \in getQualifyingRows'
    BY <1>1, <2>1, <2>2 DEF getQualifyingRows, qualifiesForBroadcast, Tracked
  <2> QED BY <1>1, <2>2, <2>3 DEF liveSessionIds
<1>2. TInv /\ [Next]_vars =>
        [\A id \in Claudes :
          (rows[id] # NoRow /\ rows[id].session # NoSession /\ Running(id)) =>
              rows[id].session \in liveSessionIds' \/ ~Running(id)']_vars
  BY <1>1
<1> QED BY <1>2, TrackerInvariant, PTL DEF Spec, LiveStaysLive
=============================================================================
