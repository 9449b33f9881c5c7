-------------------------- MODULE SearchWorkerProofs --------------------------
(***************************************************************************)
(* SearchWorker for every number of files, roots, calls, scans, lines and  *)
(* faults: types, and an index that never holds a line twice, out of order *)
(* or below an offset that does not count it.                              *)
(*                                                                         *)
(* DocsMatchTheOffset speaks of the rows; a commit makes a row of what the *)
(* transaction holds, so the same is asked of the open transaction.  And   *)
(* that new lines come after the old ones needs a bound on the old ones:   *)
(* no document is numbered beyond the lines the offset and the rewrites of *)
(* the file account for.                                                   *)
(***************************************************************************)
EXTENDS SearchWorker, SequenceTheorems, TLAPS

Sound(row, reach) ==
    /\ Len(row.docs) = row.offset
    /\ \A i \in 2..row.offset : row.docs[i - 1] < row.docs[i]
    /\ \A i \in 1..row.offset : row.docs[i] <= reach + row.offset

RowsSound == \A f \in Files : rows[f] # NoRow => Sound(rows[f], disk[f].gone)
OpenSound == open # NoTx => Sound(open.row, disk[open.file].gone)

IInv == TypeOK /\ RowsSound /\ OpenSound

LEMMA RowIsNotNoRow == ASSUME NEW row \in Row PROVE row # NoRow
  BY DEF Row, NoRow

LEMMA TxIsNotNoTx == ASSUME NEW tx \in Transactions, tx = NoTx PROVE FALSE
  BY DEF NoTx, Transactions

(* A row stays sound when more of its file is rewritten away.              *)
LEMMA SoundGrows ==
    ASSUME NEW row \in Row, NEW m \in Nat, NEW n \in Nat, m <= n, Sound(row, m)
    PROVE  Sound(row, n)
  BY DEF Sound, Row

LEMMA FreshIsSound == ASSUME NEW m \in Nat PROVE Fresh \in Row /\ Sound(Fresh, m)
<1>1. <<>> \in Seq(Nat) /\ Len(<<>>) = 0
  OBVIOUS
<1> QED
  BY <1>1 DEF Fresh, Row, Sound, Unread

(* A file that has shrunk below the offset starts over.                    *)
LEMMA RestartedIsSound ==
    ASSUME NEW m \in Nat, NEW size \in Nat, NEW row \in Row, Sound(row, m)
    PROVE  Restarted(row, size) \in Row /\ Sound(Restarted(row, size), m)
<1>1. <<>> \in Seq(Nat) /\ Len(<<>>) = 0
  OBVIOUS
<1>2. CASE size < row.offset
  <2>1. Restarted(row, size) = [offset |-> 0, seen |-> row.seen, docs |-> <<>>]
    BY <1>2 DEF Restarted, Row
  <2>2. row.seen \in (Nat \X Nat) \cup {Unread}
    BY DEF Row
  <2> QED
    BY <1>1, <2>1, <2>2 DEF Row, Sound
<1>3. CASE ~(size < row.offset)
  BY <1>3 DEF Restarted
<1> QED
  BY <1>2, <1>3

(* What is read on comes after what was read, line by line.                *)
Rising(docs, n, reach) ==
    /\ docs \in Seq(Nat) /\ Len(docs) = n
    /\ \A i \in 2..n : docs[i - 1] < docs[i]
    /\ \A i \in 1..n : docs[i] <= reach
Numbered(new, n, from) ==
    new \in Seq(Nat) /\ Len(new) = n /\ \A i \in 1..n : new[i] = from + i

LEMMA ContinuedIsRising ==
    ASSUME NEW o \in Nat, NEW g \in Nat, NEW n \in Nat, NEW old, NEW new,
           Rising(old, o, g + o), Numbered(new, n, g + o)
    PROVE  Rising(old \o new, o + n, g + (o + n))
<1> USE DEF Rising, Numbered
<1> DEFINE docs == old \o new
<1>1. /\ docs \in Seq(Nat) /\ Len(docs) = o + n
      /\ \A i \in 1..(o + n) : docs[i] = IF i <= o THEN old[i] ELSE new[i - o]
  <2>1. /\ docs \in Seq(Nat) /\ Len(docs) = Len(old) + Len(new)
        /\ \A i \in 1..(Len(old) + Len(new)) :
              docs[i] = IF i <= Len(old) THEN old[i] ELSE new[i - Len(old)]
    BY ConcatProperties
  <2> QED
    BY <2>1
<1> HIDE DEF docs
<1>2. \A i \in 1..o : i \in 1..(o + n) /\ docs[i] = old[i] /\ old[i] \in Nat
  <2> TAKE i \in 1..o
  <2>1. i \in 1..(o + n) /\ i <= o /\ i \in 1..Len(old)
    OBVIOUS
  <2> QED
    BY <1>1, <2>1, ElementOfSeq
<1>3. \A i \in (o + 1)..(o + n) : docs[i] = g + i
  <2> TAKE i \in (o + 1)..(o + n)
  <2>1. i \in 1..(o + n) /\ ~(i <= o) /\ i - o \in 1..n
    OBVIOUS
  <2>2. docs[i] = new[i - o] /\ new[i - o] = g + o + (i - o)
    BY <1>1, <2>1
  <2> QED
    BY <2>1, <2>2
<1>4. ASSUME NEW i \in 2..(o + n) PROVE docs[i - 1] < docs[i]
  <2>1. CASE i <= o
    <3>1. i \in 2..o /\ i \in 1..o /\ i - 1 \in 1..o
      BY <2>1
    <3> QED
      BY <1>2, <3>1
  <2>2. CASE i = o + 1
    <3>1. i - 1 \in 1..o /\ i \in (o + 1)..(o + n)
      BY <2>2
    <3>2. docs[i - 1] \in Nat /\ docs[i - 1] <= g + o /\ docs[i] = g + i
      BY <1>2, <1>3, <3>1
    <3> QED
      BY <2>2, <3>2
  <2>3. CASE i > o + 1
    <3>1. i \in (o + 1)..(o + n) /\ i - 1 \in (o + 1)..(o + n)
      BY <2>3
    <3>2. docs[i - 1] = g + (i - 1) /\ docs[i] = g + i
      BY <1>3, <3>1
    <3> QED
      BY <3>2
  <2> QED
    BY <2>1, <2>2, <2>3
<1>5. ASSUME NEW i \in 1..(o + n) PROVE docs[i] <= g + (o + n)
  <2>1. CASE i <= o
    <3>1. i \in 1..o
      BY <2>1
    <3>2. docs[i] \in Nat /\ docs[i] <= g + o
      BY <1>2, <3>1
    <3> QED
      BY <3>2
  <2>2. CASE i > o
    <3>1. i \in (o + 1)..(o + n)
      BY <2>2
    <3> QED
      BY <1>3, <3>1
  <2> QED
    BY <2>1, <2>2
<1> QED
  BY <1>1, <1>4, <1>5 DEF docs

(* Reading on appends lines that are newer than all that was read.         *)
LEMMA ReadIsSound ==
    ASSUME NEW gone \in Nat, NEW row \in Row, Sound(row, gone), NEW n \in Nat,
           open.stamp \in Nat \X Nat
    PROVE  Read(row, gone, n) \in Row /\ Sound(Read(row, gone, n), gone)
<1> DEFINE new == [i \in 1..n |-> gone + row.offset + i]
           docs == row.docs \o new
<1>1. row.offset \in Nat /\ row.docs \in Seq(Nat)
  BY DEF Row
<1>2. Numbered(new, n, gone + row.offset)
  BY <1>1 DEF Numbered
<1>3. Rising(row.docs, row.offset, gone + row.offset)
  BY <1>1 DEF Sound, Rising
<1> HIDE DEF new
<1>4. Rising(docs, row.offset + n, gone + (row.offset + n))
  BY <1>1, <1>2, <1>3, ContinuedIsRising
<1> HIDE DEF docs
<1>5. Read(row, gone, n) \in Row
  <2>1. docs \in Seq(Nat)
    BY <1>4 DEF Rising
  <2> QED
    BY <1>1, <2>1 DEF Read, Row, docs, new
<1>6. Read(row, gone, n).docs = docs /\ Read(row, gone, n).offset = row.offset + n
  BY DEF Read, docs, new
<1> QED
  BY <1>4, <1>5, <1>6 DEF Sound, Rising

----------------------------------------------------------------------------
(* Types.                                                                  *)

Walk == [todo : SUBSET Files, listed : SUBSET Files, first : BOOLEAN]

LEMMA NoRowFits == NoRow \in Row \cup {NoRow} /\ NoTx \in Transactions \cup {NoTx}
  OBVIOUS

LEMMA SendKeepsType ==
    ASSUME inbox \in Seq(Messages), NEW m \in Messages, Send(m)
    PROVE  inbox' \in Seq(Messages)
  BY AppendProperties DEF Send

LEMMA DiesKeepsType ==
    ASSUME TypeOK, Dies
    PROVE  /\ worker' \in {"up", "died", "down"} /\ inbox' \in Seq(Messages)
           /\ known' \subseteq Roots /\ hot' \subseteq Files /\ cold' \subseteq Files
           /\ building' \in BOOLEAN /\ asleep' \in BOOLEAN /\ requests' \subseteq Calls
           /\ scans' \in Seq(Walk)
           /\ open' \in Transactions \cup {NoTx}
<1>1. \A S : <<>> \in Seq(S)
  OBVIOUS
<1> QED
  BY <1>1 DEF Dies, Blank

LEMMA ScanKeepsType ==
    ASSUME scans \in Seq(Walk), NEW R \in SUBSET Roots, NEW b \in BOOLEAN, scan(R, b)
    PROVE  scans' \in Seq(Walk)
<1>1. [todo |-> {f \in Files : RootOf[f] \in R}, listed |-> {}, first |-> b] \in Walk
  BY DEF Walk
<1> QED
  BY <1>1, AppendProperties DEF scan

LEMMA RemoveAtType ==
    ASSUME NEW S, NEW s \in Seq(S), NEW k \in DOMAIN s
    PROVE  RemoveAt(s, k) \in Seq(S)
<1>1. k \in 1..Len(s) /\ Len(s) \in Nat
  OBVIOUS
<1>2. \A i \in 1..(k - 1) : s[i] \in S
  BY <1>1, ElementOfSeq
<1>3. \A i \in (k + 1)..Len(s) : s[i] \in S
  BY <1>1, ElementOfSeq
<1>4. SubSeq(s, 1, k - 1) \in Seq(S)
  BY <1>1, <1>2, SubSeqProperties
<1>5. SubSeq(s, k + 1, Len(s)) \in Seq(S)
  BY <1>1, <1>3, SubSeqProperties
<1> QED
  BY <1>4, <1>5, ConcatProperties DEF RemoveAt

LEMMA DoneKeepsType ==
    ASSUME hot \subseteq Files, cold \subseteq Files, building \in BOOLEAN, NEW f, Done(f)
    PROVE  hot' \subseteq Files /\ cold' \subseteq Files /\ building' \in BOOLEAN
<1>1. building' \in BOOLEAN
  BY DEF Done
<1> QED
  BY <1>1 DEF Done

(* One step keeps the types.                                               *)
LEMMA DiskKeepsType ==
    ASSUME TypeOK, NEW f \in Files, Write(f) \/ Truncate(f) \/ Delete(f)
    PROVE  TypeOK'
<1>1. disk[f] \in [there : BOOLEAN, gone : Nat, size : Nat]
  BY DEF TypeOK
<1>2. disk' \in [Files -> [there : BOOLEAN, gone : Nat, size : Nat]]
  <2>1. CASE Write(f)
    <3>1. disk[f].gone \in Nat /\ disk[f].size + 1 \in Nat
      BY <1>1
    <3>2. [there |-> TRUE, gone |-> disk[f].gone, size |-> disk[f].size + 1]
            \in [there : BOOLEAN, gone : Nat, size : Nat]
      BY <3>1
    <3> QED
      BY <2>1, <3>2 DEF Write, TypeOK
  <2>2. CASE Truncate(f)
    BY <1>1, <2>2 DEF Truncate, TypeOK
  <2>3. CASE Delete(f)
    BY <1>1, <2>3 DEF Delete, TypeOK
  <2> QED
    BY <2>1, <2>2, <2>3
<1>3. UNCHANGED <<service, worker, inbox, outbox, todo, rows, open, faults>>
  BY DEF Write, Truncate, Delete
<1> QED
  BY <1>2, <1>3 DEF TypeOK, service, todo

LEMMA ServiceKeepsType ==
    ASSUME TypeOK,
           \/ \E f \in Files : touch(f)
           \/ \E R \in SUBSET Roots : setRoots(R)
           \/ \E c \in Calls : call(c) \/ Reply(c)
           \/ stop \/ Crash \/ Exit \/ spawn
    PROVE  TypeOK'
<1>1. ASSUME NEW f \in Files, touch(f) PROVE TypeOK'
  <2>1. Message("touch", f) \in Messages
    BY DEF Message, Messages
  <2>2. inbox' \in Seq(Messages)
    BY <1>1, <2>1, SendKeepsType DEF touch, TypeOK
  <2> QED
    BY <1>1, <2>2 DEF touch, TypeOK, service, todo
<1>2. ASSUME NEW R \in SUBSET Roots, setRoots(R) PROVE TypeOK'
  <2>1. Message("roots", R) \in Messages
    BY DEF Message, Messages
  <2>2. inbox' \in Seq(Messages)
    BY <1>2, <2>1, SendKeepsType DEF setRoots, TypeOK
  <2>3. swaps' \in 0..MaxSwaps
    BY <1>2, BoundsAssumption DEF setRoots, TypeOK
  <2> QED
    BY <1>2, <2>2, <2>3 DEF setRoots, TypeOK, todo
<1>3. ASSUME NEW c \in Calls, call(c) PROVE TypeOK'
  <2>1. Message("request", c) \in Messages
    BY DEF Message, Messages
  <2>2. inbox' \in Seq(Messages)
    BY <1>3, <2>1, SendKeepsType DEF call, TypeOK
  <2> QED
    BY <1>3, <2>2 DEF call, TypeOK, todo
<1>4. ASSUME NEW c \in Calls, Reply(c) PROVE TypeOK'
  BY <1>4 DEF Reply, TypeOK, todo
<1>5. CASE stop
  <2>1. CASE worker = "up"
    BY <1>5, <2>1, DiesKeepsType DEF stop, TypeOK, Walk
  <2>2. CASE worker # "up"
    BY <1>5, <2>2 DEF stop, TypeOK, todo
  <2> QED
    BY <2>1, <2>2
<1>6. CASE Crash
  <2>1. faults' \in 0..MaxFaults
    BY <1>6, BoundsAssumption DEF Crash, TypeOK
  <2> QED
    BY <1>6, <2>1, DiesKeepsType DEF Crash, TypeOK, Walk, service
<1>7. CASE Exit
  BY <1>7 DEF Exit, TypeOK, todo
<1>8. CASE spawn
  <2>1. Message("roots", roots) \in Messages
    BY DEF Message, Messages, TypeOK
  <2>2. inbox' \in Seq(Messages) /\ scans' \in Seq(Walk)
    BY <1>8, <2>1 DEF spawn, Blank
  <2> QED
    BY <1>8, <2>2 DEF spawn, Blank, TypeOK, Walk, service
<1> QED
  BY <1>1, <1>2, <1>3, <1>4, <1>5, <1>6, <1>7, <1>8

LEMMA CallbackKeepsType ==
    ASSUME TypeOK,
           \/ Receive \/ Rescan
           \/ \E k \in 1..MaxScans : ScanEnds(k) \/ \E f \in Files : Visit(k, f)
    PROVE  TypeOK'
<1>1. inbox # <<>> => Head(inbox) \in Messages /\ Tail(inbox) \in Seq(Messages)
  BY HeadTailProperties DEF TypeOK
<1>2. scans \in Seq(Walk)
  BY DEF TypeOK, Walk
<1>3. CASE ReceiveRoots
  <2>1. known' \in SUBSET Roots
    BY <1>1, <1>3 DEF ReceiveRoots, Messages
  <2>2. scans' \in Seq(Walk)
    BY <1>2, <1>3, <2>1, ScanKeepsType DEF ReceiveRoots
  <2> QED
    BY <1>1, <1>3, <2>1, <2>2 DEF ReceiveRoots, TypeOK, service, Walk
<1>4. CASE ReceiveTouch
  <2>1. Head(inbox).about \in Files
    BY <1>1, <1>4 DEF ReceiveTouch, Messages
  <2> QED
    BY <1>1, <1>4, <2>1 DEF ReceiveTouch, TypeOK, service
<1>5. CASE ReceiveRequest
  <2>1. Head(inbox).about \in Calls
    BY <1>1, <1>5 DEF ReceiveRequest, Messages
  <2> QED
    BY <1>1, <1>5, <2>1 DEF ReceiveRequest, TypeOK, service
<1>6. CASE Rescan
  <2>1. scans' \in Seq(Walk)
    BY <1>2, <1>6, ScanKeepsType DEF Rescan, TypeOK
  <2> QED
    BY <1>6, <2>1 DEF Rescan, TypeOK, service, Walk
<1>7. ASSUME NEW k \in 1..MaxScans, NEW f \in Files, Visit(k, f) PROVE TypeOK'
  <2>1. k \in DOMAIN scans /\ scans[k] \in Walk
    BY <1>2, <1>7, ElementOfSeq DEF Visit
  <2>2. scans' \in Seq(Walk)
    <3> DEFINE walk == [scans[k] EXCEPT !.todo = @ \ {f},
                                        !.listed = IF disk[f].there THEN @ \cup {f} ELSE @]
    <3>1. walk \in Walk
      BY <2>1 DEF Walk
    <3>2. scans' = [scans EXCEPT ![k] = walk]
      BY <1>2, <1>7, <2>1 DEF Visit, Walk
    <3> QED
      BY <1>2, <2>1, <3>1, <3>2, ExceptSeq
  <2> QED
    BY <1>7, <2>2 DEF Visit, TypeOK, service, Walk
<1>8. ASSUME NEW k \in 1..MaxScans, ScanEnds(k) PROVE TypeOK'
  <2>1. k \in DOMAIN scans
    BY <1>8 DEF ScanEnds
  <2>2. scans' \in Seq(Walk)
    BY <1>2, <1>8, <2>1, RemoveAtType DEF ScanEnds
  <2>3. scans[k].listed \subseteq Files
    <3>1. scans[k] \in Walk
      BY <1>2, <2>1, ElementOfSeq
    <3> QED
      BY <3>1 DEF Walk
  <2>4. cold' \subseteq Files
    BY <1>8, <2>3 DEF ScanEnds
  <2>5. rows' \in [Files -> Row \cup {NoRow}]
    BY <1>8 DEF ScanEnds, TypeOK
  <2>6. building' \in BOOLEAN
    BY <1>8 DEF ScanEnds
  <2> QED
    BY <1>8, <2>2, <2>4, <2>5, <2>6 DEF ScanEnds, TypeOK, service, Walk
<1> QED
  BY <1>3, <1>4, <1>5, <1>6, <1>7, <1>8 DEF Receive

(* One step keeps the index sound.                                         *)

(* Rows only go, files only grow or are rewritten.                         *)
LEMMA NothingNewIsSound ==
    ASSUME IInv, TypeOK',
           \A f \in Files : disk[f].gone <= disk'[f].gone,
           \A f \in Files : rows'[f] = NoRow \/ rows'[f] = rows[f],
           open' = NoTx \/ open' = open
    PROVE  RowsSound' /\ OpenSound'
<1>1. \A f \in Files : disk[f].gone \in Nat /\ disk'[f].gone \in Nat
  BY DEF IInv, TypeOK
<1>2. ASSUME NEW f \in Files, rows'[f] # NoRow PROVE Sound(rows'[f], disk'[f].gone)
  <2>1. rows'[f] = rows[f] /\ rows[f] # NoRow
    BY <1>2
  <2>2. rows[f] \in Row /\ Sound(rows[f], disk[f].gone)
    BY <2>1 DEF IInv, TypeOK, RowsSound
  <2> QED
    BY <1>1, <2>1, <2>2, SoundGrows
<1>3. ASSUME open' # NoTx PROVE Sound(open.row, disk'[open.file].gone) /\ open' = open
  <2>1. open' = open /\ open # NoTx
    BY <1>3
  <2>2. open \in Transactions /\ Sound(open.row, disk[open.file].gone)
    BY <2>1 DEF IInv, TypeOK, OpenSound
  <2>3. open.file \in Files /\ open.row \in Row
    BY <2>2 DEF Transactions
  <2> QED
    BY <1>1, <2>1, <2>2, <2>3, SoundGrows
<1>4. RowsSound'
  BY <1>2 DEF RowsSound
<1>5. OpenSound'
  BY <1>3 DEF OpenSound
<1> QED
  BY <1>4, <1>5

LEMMA BeginKeepsInv == ASSUME IInv, NEW f \in Files, Begin(f) PROVE IInv'
<1> DEFINE row == IF rows[f] = NoRow THEN Fresh ELSE rows[f]
           start == Restarted(row, disk[f].size)
<1>1. disk[f] \in [there : BOOLEAN, gone : Nat, size : Nat] /\ disk[f].gone \in Nat
      /\ disk[f].size \in Nat
  BY DEF IInv, TypeOK
<1>2. row \in Row /\ Sound(row, disk[f].gone)
  BY <1>1, FreshIsSound DEF IInv, TypeOK, RowsSound
<1>3. start \in Row /\ Sound(start, disk[f].gone)
  BY <1>1, <1>2, RestartedIsSound
<1>4. open' = [file |-> f, row |-> start, stamp |-> Stamp(f), read |-> FALSE]
      /\ rows' = [rows EXCEPT ![f] = row]
  BY DEF Begin
<1>5. UNCHANGED <<hot, cold, building, asleep, disk, service, worker, inbox, known, scans, faults>>
      /\ outbox' = outbox \cup requests /\ requests' = {}
  BY DEF Begin, Turn
<1>6. Stamp(f) \in Nat \X Nat
  BY <1>1 DEF Stamp
<1> HIDE DEF row, start
<1>7. rows' \in [Files -> Row \cup {NoRow}]
  BY <1>2, <1>4 DEF IInv, TypeOK
<1>8. open' \in Transactions
  BY <1>3, <1>4, <1>6 DEF Transactions
<1>9. TypeOK'
  BY <1>5, <1>7, <1>8 DEF IInv, TypeOK, service
<1>10. RowsSound'
  <2> SUFFICES ASSUME NEW g \in Files, rows'[g] # NoRow PROVE Sound(rows'[g], disk[g].gone)
    BY <1>5 DEF RowsSound
  <2>1. CASE g = f
    BY <1>2, <1>4, <2>1 DEF IInv, TypeOK
  <2>2. CASE g # f
    BY <1>4, <2>2 DEF IInv, TypeOK, RowsSound
  <2> QED
    BY <2>1, <2>2
<1>11. OpenSound'
  BY <1>3, <1>4, <1>5 DEF OpenSound
<1> QED
  BY <1>9, <1>10, <1>11 DEF IInv

(* What is read is numbered by the file as it is now, which has only been  *)
(* rewritten further since the step began.                                 *)
LEMMA ReadLinesKeepsInv == ASSUME IInv, ReadLines PROVE IInv'
<1>1. open \in Transactions /\ Sound(open.row, disk[open.file].gone)
  BY DEF ReadLines, IInv, TypeOK, OpenSound
<1>2. /\ open.file \in Files /\ open.row \in Row /\ open.stamp \in Nat \X Nat
      /\ disk[open.file].gone \in Nat
  BY <1>1 DEF Transactions, IInv, TypeOK
<1>3. PICK n \in IF SizeThen = open.row.offset THEN {0}
                 ELSE 1..(Lesser(SizeThen, disk[open.file].size) - open.row.offset) :
         open' = [open EXCEPT !.read = TRUE, !.row = Read(@, disk[open.file].gone, n)]
  BY DEF ReadLines
<1>4. n \in Nat
  BY <1>3
<1> DEFINE next == Read(open.row, disk[open.file].gone, n)
<1>5. next \in Row /\ Sound(next, disk[open.file].gone)
  BY <1>1, <1>2, <1>4, ReadIsSound
<1>6. open' = [open EXCEPT !.read = TRUE, !.row = next]
  BY <1>1, <1>3 DEF Transactions
<1> HIDE DEF next
<1>7. open' \in Transactions /\ open'.file = open.file /\ open'.row = next
  BY <1>1, <1>5, <1>6 DEF Transactions
<1>8. UNCHANGED <<disk, service, worker, inbox, outbox, todo, rows, faults>>
  BY DEF ReadLines
<1>9. TypeOK'
  BY <1>7, <1>8 DEF IInv, TypeOK, service, todo
<1>10. RowsSound'
  BY <1>8 DEF IInv, RowsSound
<1>11. OpenSound'
  BY <1>5, <1>7, <1>8 DEF OpenSound
<1> QED
  BY <1>9, <1>10, <1>11 DEF IInv

LEMMA CommitKeepsInv == ASSUME IInv, Commit PROVE IInv'
<1>1. open \in Transactions /\ Sound(open.row, disk[open.file].gone)
  BY DEF Commit, IInv, TypeOK, OpenSound
<1>2. PICK f \in Files : f = open.file
  BY <1>1 DEF Transactions
<1>3. open.row \in Row
  BY <1>1 DEF Transactions
<1>4. /\ rows' = [rows EXCEPT ![f] = open.row] /\ open' = NoTx
      /\ UNCHANGED <<disk, service, worker, inbox, outbox, known, requests, asleep, scans, faults>>
  BY <1>2 DEF Commit
<1>5. hot' \subseteq Files /\ cold' \subseteq Files /\ building' \in BOOLEAN
  <2>1. CASE open.row.seen # Unread
    BY <1>2, <2>1, DoneKeepsType DEF Commit, IInv, TypeOK
  <2>2. CASE open.row.seen = Unread
    BY <2>2 DEF Commit, IInv, TypeOK
  <2> QED
    BY <2>1, <2>2
<1>6. rows' \in [Files -> Row \cup {NoRow}]
  BY <1>3, <1>4 DEF IInv, TypeOK
<1>7. TypeOK'
  BY <1>4, <1>5, <1>6 DEF IInv, TypeOK, service
<1>8. RowsSound'
  <2> SUFFICES ASSUME NEW g \in Files, rows'[g] # NoRow PROVE Sound(rows'[g], disk[g].gone)
    BY <1>4 DEF RowsSound
  <2>1. CASE g = f
    BY <1>1, <1>2, <1>4, <2>1 DEF IInv, TypeOK
  <2>2. CASE g # f
    BY <1>4, <2>2 DEF IInv, TypeOK, RowsSound
  <2> QED
    BY <2>1, <2>2
<1> QED
  BY <1>4, <1>7, <1>8 DEF IInv, OpenSound

LEMMA SkipKeepsInv == ASSUME IInv, NEW f \in Files, Skip(f) \/ Sleep PROVE IInv'
<1>1. hot' \subseteq Files /\ cold' \subseteq Files /\ building' \in BOOLEAN
  BY DoneKeepsType DEF Skip, Sleep, IInv, TypeOK
<1>2. asleep' \in BOOLEAN /\ open' = open
  BY DEF Skip, Sleep, IInv, TypeOK
<1>3. /\ UNCHANGED <<disk, service, worker, inbox, known, scans, faults>>
      /\ outbox' = outbox \cup requests /\ requests' = {}
  BY DEF Skip, Sleep, Turn
<1>4. rows' = rows \/ rows' = [rows EXCEPT ![f] = NoRow]
  BY DEF Skip, Sleep
<1>5. rows' \in [Files -> Row \cup {NoRow}] /\ \A g \in Files : rows'[g] = NoRow \/ rows'[g] = rows[g]
  BY <1>4 DEF IInv, TypeOK
<1>6. TypeOK'
  BY <1>1, <1>2, <1>3, <1>5 DEF IInv, TypeOK, service
<1>7. \A g \in Files : disk[g].gone <= disk'[g].gone
  BY <1>3 DEF IInv, TypeOK
<1> QED
  BY <1>2, <1>5, <1>6, <1>7, NothingNewIsSound DEF IInv

LEMMA RollbackKeepsInv == ASSUME IInv, Rollback PROVE IInv'
<1>1. hot' \subseteq Files /\ cold' \subseteq Files /\ building' \in BOOLEAN
  BY DoneKeepsType DEF Rollback, IInv, TypeOK
<1>2. faults' \in 0..MaxFaults
  BY BoundsAssumption DEF Rollback, IInv, TypeOK
<1>3. open' = NoTx /\ UNCHANGED <<disk, service, worker, inbox, outbox, known, requests, asleep,
                                  scans, rows>>
  BY DEF Rollback
<1>4. TypeOK'
  BY <1>1, <1>2, <1>3 DEF IInv, TypeOK, service
<1>5. \A g \in Files : disk[g].gone <= disk'[g].gone
  BY <1>3 DEF IInv, TypeOK
<1> QED
  BY <1>3, <1>4, <1>5, NothingNewIsSound DEF IInv

(* What the rest of the steps do to rows, transaction and files.           *)
LEMMA OthersKeepSound ==
    ASSUME IInv, TypeOK',
           \/ \E f \in Files : Write(f) \/ Truncate(f) \/ Delete(f) \/ touch(f)
           \/ \E R \in SUBSET Roots : setRoots(R)
           \/ \E c \in Calls : call(c) \/ Reply(c)
           \/ stop \/ Crash \/ Exit \/ spawn \/ Receive \/ Rescan
           \/ \E k \in 1..MaxScans : ScanEnds(k) \/ \E f \in Files : Visit(k, f)
    PROVE  IInv'
<1>1. \A f \in Files : disk[f].gone <= disk'[f].gone
  <2>1. ASSUME NEW f \in Files, Write(f) \/ Truncate(f) \/ Delete(f)
        PROVE  \A g \in Files : disk[g].gone <= disk'[g].gone
    <3>1. disk[f].gone \in Nat /\ disk[f].size \in Nat
      BY DEF IInv, TypeOK
    <3>2. \A g \in Files : disk[g] \in [there : BOOLEAN, gone : Nat, size : Nat]
      BY DEF IInv, TypeOK
    <3>3. \A g \in Files : g # f => disk'[g] = disk[g]
      BY <2>1 DEF Write, Truncate, Delete, IInv, TypeOK
    <3>4. disk[f].gone <= disk'[f].gone
      <4>1. CASE Write(f)
        BY <3>1, <4>1 DEF Write, IInv, TypeOK
      <4>2. CASE Truncate(f)
        <5>1. disk'[f].gone = disk[f].gone + disk[f].size
          BY <3>2, <4>2 DEF Truncate, IInv, TypeOK
        <5> QED
          BY <3>1, <5>1
      <4>3. CASE Delete(f)
        <5>1. disk'[f].gone = disk[f].gone
          BY <3>2, <4>3 DEF Delete, IInv, TypeOK
        <5> QED
          BY <3>1, <5>1
      <4> QED
        BY <2>1, <4>1, <4>2, <4>3
    <3> QED
      BY <3>2, <3>3, <3>4
  <2>2. CASE UNCHANGED disk
    BY <2>2 DEF IInv, TypeOK
  <2> QED
    BY <2>1, <2>2 DEF touch, setRoots, call, Reply, stop, Crash, Exit, spawn, Receive,
       ReceiveRoots, ReceiveTouch, ReceiveRequest, Rescan, ScanEnds, Visit
<1>2. \A f \in Files : rows'[f] = NoRow \/ rows'[f] = rows[f]
  BY DEF Write, Truncate, Delete, touch, setRoots, call, Reply, stop, Crash, Exit, spawn,
     Receive, ReceiveRoots, ReceiveTouch, ReceiveRequest, Rescan, ScanEnds, Visit
<1>3. open' = NoTx \/ open' = open
  BY DEF Write, Truncate, Delete, touch, setRoots, call, Reply, stop, Crash, Exit, spawn,
     Receive, ReceiveRoots, ReceiveTouch, ReceiveRequest, Rescan, ScanEnds, Visit, Dies
<1> QED
  BY <1>1, <1>2, <1>3, NothingNewIsSound DEF IInv

----------------------------------------------------------------------------
(* The invariant and what follows from it.                                 *)

LEMMA Initially == Init => IInv
<1> SUFFICES ASSUME Init PROVE IInv
  OBVIOUS
<1>1. \A S : <<>> \in Seq(S)
  OBVIOUS
<1>2. disk \in [Files -> [there : BOOLEAN, gone : Nat, size : Nat]]
  <2>1. [there : {FALSE}, gone : {0}, size : {0}] \cup [there : {TRUE}, gone : {0}, size : {1}]
          \subseteq [there : BOOLEAN, gone : Nat, size : Nat]
    <3>1. {FALSE} \subseteq BOOLEAN /\ {TRUE} \subseteq BOOLEAN
      OBVIOUS
    <3>2. ASSUME NEW T \in SUBSET BOOLEAN, NEW k \in Nat,
                 NEW d \in [there : T, gone : {0}, size : {k}]
          PROVE  d \in [there : BOOLEAN, gone : Nat, size : Nat]
      BY SMT
    <3> QED
      BY <3>1, <3>2
  <2> QED
    BY <2>1 DEF Init
<1>3. swaps \in 0..MaxSwaps /\ faults \in 0..MaxFaults
  BY BoundsAssumption DEF Init
<1>4. inbox \in Seq(Messages) /\ scans \in Seq(Walk)
  BY <1>1 DEF Init
<1>5. TypeOK
  BY <1>2, <1>3, <1>4 DEF Init, TypeOK, Walk
<1>6. RowsSound /\ OpenSound
  BY DEF Init, RowsSound, OpenSound
<1> QED
  BY <1>5, <1>6 DEF IInv

LEMMA OneStep == IInv /\ [Next]_vars => IInv'
<1> SUFFICES ASSUME IInv, [Next]_vars PROVE IInv'
  OBVIOUS
<1>1. TypeOK
  BY DEF IInv
<1>2. ASSUME NEW f \in Files, Write(f) \/ Truncate(f) \/ Delete(f) PROVE IInv'
  BY <1>1, <1>2, DiskKeepsType, OthersKeepSound
<1>3. CASE \/ \E f \in Files : touch(f)
           \/ \E R \in SUBSET Roots : setRoots(R)
           \/ \E c \in Calls : call(c) \/ Reply(c)
           \/ stop \/ Crash \/ Exit \/ spawn
  <2>1. TypeOK'
    BY <1>1, <1>3, ServiceKeepsType
  <2> QED
    BY <1>3, <2>1, OthersKeepSound
<1>4. CASE \/ Receive \/ Rescan
           \/ \E k \in 1..MaxScans : ScanEnds(k) \/ \E f \in Files : Visit(k, f)
  <2>1. TypeOK'
    BY <1>1, <1>4, CallbackKeepsType
  <2> QED
    BY <1>4, <2>1, OthersKeepSound
<1>5. ASSUME NEW f \in Files, Skip(f) \/ Begin(f) PROVE IInv'
  BY <1>5, SkipKeepsInv, BeginKeepsInv
<1>6. CASE Sleep
  BY <1>6, <1>1 DEF Sleep, Turn, IInv, TypeOK, RowsSound, OpenSound, service
<1>7. CASE ReadLines \/ Commit
  BY <1>7, ReadLinesKeepsInv, CommitKeepsInv
<1>8. CASE Rollback
  BY <1>8, RollbackKeepsInv
<1>9. CASE UNCHANGED vars
  BY <1>9 DEF vars, service, todo, IInv, TypeOK, RowsSound, OpenSound
<1> QED
  BY <1>2, <1>3, <1>4, <1>5, <1>6, <1>7, <1>8, <1>9 DEF Next, LoopStep

LEMMA Invariance == Spec => []IInv
<1>1. Init => IInv
  BY Initially
<1>2. IInv /\ [Next]_vars => IInv'
  BY OneStep
<1> QED
  BY <1>1, <1>2, PTL DEF Spec

(* Every variable keeps its type.                                          *)
THEOREM TypeCorrect == Spec => []TypeOK
<1>1. IInv => TypeOK
  BY DEF IInv
<1> QED
  BY <1>1, Invariance, PTL

(* The index never holds a line twice, out of order, or not counted by the *)
(* offset, whatever dies, throws or is rewritten (Ingester.step).          *)
THEOREM IndexIsSound == Spec => []DocsMatchTheOffset
<1>1. IInv => DocsMatchTheOffset
  BY DEF IInv, RowsSound, Sound, DocsMatchTheOffset
<1> QED
  BY <1>1, Invariance, PTL
=============================================================================
