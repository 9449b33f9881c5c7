------------------------- MODULE TranscriptTailProofs -------------------------
(***************************************************************************)
(* TranscriptTail for every number of files, lines, watchers, rebuilds and *)
(* faults: types, no line skipped, no line overtaken; then, on top of      *)
(* these, that a rebuild brings every line back, and that a line is handed *)
(* over once.                                                              *)
(*                                                                         *)
(* Several offsets are about at once: the stored one, one per watcher, and *)
(* the one each read under way began at.  Any of them may become the       *)
(* stored one (a read publishes, a new watcher hydrates), so the promise   *)
(* is made for all of them: no offset anywhere passes a line that is not   *)
(* accounted for.  In one life, what is accounted for never shrinks.       *)
(***************************************************************************)
EXTENDS TranscriptTail, SequenceTheorems, TLAPS

(* W's offsets and reads, against the accounts A.                          *)
Honest(W, A) ==
    /\ \A f \in Files : 1..W.offsets[f] \subseteq A[f]
    /\ \A side \in Sides : W.job[side] # Idle =>
         /\ 1..W.job[side].from \subseteq A[W.job[side].file]
         /\ W.job[side].at = "read" => W.job[side].from < W.job[side].size

Accounts == [f \in Files |-> Accounted(f)]

AllHonest == \A w \in DOMAIN watchers : Honest(watchers[w], Accounts)

HandOverInOrder ==
    handOver # Nothing =>
      /\ handOver.next <= handOver.upTo /\ handOver.next > 0
      /\ 1..(handOver.next - 1) \subseteq handed[handOver.file] \cup interrupted[handOver.file]

Inv == TypeOK /\ NoSilentSkip /\ AllHonest /\ HandOverInOrder

Grows == \A f \in Files : Accounted(f) \subseteq Accounted(f)'

LEMMA HonestGrows ==
    ASSUME NEW W \in Watcher, NEW A, NEW B,
           \A f \in Files : A[f] \subseteq B[f],
           Honest(W, A)
    PROVE  Honest(W, B)
<1>1. \A side \in Sides : W.job[side] # Idle => W.job[side].file \in Files
  BY DEF Watcher, Job
<1>2. \A f \in Files : 1..W.offsets[f] \subseteq B[f]
  BY DEF Honest
<1>3. ASSUME NEW side \in Sides, W.job[side] # Idle
      PROVE  1..W.job[side].from \subseteq B[W.job[side].file]
  <2>1. 1..W.job[side].from \subseteq A[W.job[side].file]
    BY <1>3 DEF Honest
  <2> QED
    BY <1>1, <1>3, <2>1
<1> QED
  BY <1>2, <1>3 DEF Honest

(* A watcher that the step leaves, or changes to an honest one, is honest. *)
LEMMA OneWatcher ==
    ASSUME TypeOK, AllHonest, Grows, NEW v \in DOMAIN watchers, NEW W \in Watcher,
           watchers' = [watchers EXCEPT ![v] = W], Honest(W, Accounts')
    PROVE  watchers' \in Seq(Watcher) /\ AllHonest'
<1>1. watchers \in Seq(Watcher) /\ DOMAIN watchers' = DOMAIN watchers
  BY DEF TypeOK
<1>2. \A w \in DOMAIN watchers : watchers[w] \in Watcher
  BY <1>1
<1>3. watchers' \in Seq(Watcher)
  BY <1>1, <1>2
<1>4. \A f \in Files : Accounts[f] \subseteq Accounts'[f]
  BY DEF Grows, Accounts
<1>5. ASSUME NEW w \in DOMAIN watchers PROVE Honest(watchers'[w], Accounts')
  <2>1. CASE w = v
    BY <2>1, <1>1
  <2>2. CASE w # v
    <3>1. watchers'[w] = watchers[w] /\ Honest(watchers[w], Accounts)
      BY <2>2, <1>1 DEF AllHonest
    <3> QED
      BY <3>1, <1>2, <1>4, HonestGrows
  <2> QED
    BY <2>1, <2>2
<1> QED
  BY <1>1, <1>3, <1>5 DEF AllHonest

(* Every type but those of the offsets.                                    *)
OtherTypes ==
    /\ lines \in [Files -> 0..MaxLines] /\ old \subseteq Files
    /\ ancient \subseteq old /\ recent \subseteq Files /\ summarized \subseteq Files
    /\ waiting \in Seq(Nat) /\ indexing \subseteq Files
    /\ handOver = Nothing \/ handOver \in HandOvers
    /\ handed \in [Files -> SUBSET Nat] /\ held \in [Files -> SUBSET Nat]
    /\ interrupted \in [Files -> SUBSET Nat]
    /\ again \subseteq Files /\ skipped \subseteq Files
    /\ rebuilt \in [Files -> 0..MaxRebuilds]
    /\ overlapped \in BOOLEAN /\ faulty \in 0..MaxFaults

(* A step that hands nothing over, and changes at most one watcher.        *)
LEMMA QuietStep ==
    ASSUME Inv, UNCHANGED <<handOver, handed, interrupted>>, OtherTypes',
           stored' \in [Files -> Nat],
           \A f \in Files : 1..stored'[f] \subseteq Accounted(f),
           NEW v \in DOMAIN watchers, NEW W \in Watcher,
           watchers' = [watchers EXCEPT ![v] = W], Honest(W, Accounts)
    PROVE  Inv'
<1>1. \A f \in Files : Accounted(f)' = Accounted(f)
  BY DEF Accounted, Outstanding
<1>2. Grows /\ Accounts' = Accounts
  BY <1>1 DEF Grows, Accounts
<1>3. watchers' \in Seq(Watcher) /\ AllHonest'
  BY <1>2, OneWatcher DEF Inv
<1>4. NoSilentSkip' /\ HandOverInOrder'
  BY <1>1 DEF Inv, NoSilentSkip, HandOverInOrder
<1> QED
  BY <1>3, <1>4 DEF Inv, TypeOK, OtherTypes

LEMMA StillStep ==
    ASSUME Inv, UNCHANGED <<handOver, handed, interrupted, stored, watchers>>, OtherTypes'
    PROVE  Inv'
<1>1. \A f \in Files : Accounted(f)' = Accounted(f)
  BY DEF Accounted, Outstanding
<1>2. Accounts' = Accounts
  BY <1>1 DEF Accounts
<1>3. NoSilentSkip' /\ HandOverInOrder' /\ AllHonest'
  BY <1>1, <1>2 DEF Inv, NoSilentSkip, HandOverInOrder, AllHonest
<1> QED
  BY <1>3 DEF Inv, TypeOK, OtherTypes

(* What a watcher is made of, and what it keeps when a part is replaced.   *)
LEMMA WatcherParts ==
    ASSUME TypeOK, AllHonest, NEW w \in DOMAIN watchers
    PROVE  /\ watchers[w] \in Watcher /\ Honest(watchers[w], Accounts)
           /\ watchers[w].offsets \in [Files -> Nat]
           /\ watchers[w].chain \in Seq(Tasks)
           /\ watchers[w].job \in [Sides -> Job \cup {Idle}]
           /\ watchers[w].notice \in SUBSET Files /\ watchers[w].todo \in SUBSET Files
           /\ watchers[w].deferred \in SUBSET Files
           /\ watchers[w].phase \in {"walking", "watching", "stopped", "dead"}
           /\ \A f \in Files : 1..watchers[w].offsets[f] \subseteq Accounted(f)
<1>1. watchers[w] \in Watcher /\ Honest(watchers[w], Accounts)
  BY DEF TypeOK, AllHonest
<1> QED
  BY <1>1 DEF Watcher, Honest, Accounts

(* Notices, the list of files to walk, the phase, the chain and the        *)
(* deferred files carry no promise.                                        *)
LEMMA SameReads ==
    ASSUME TypeOK, AllHonest, NEW w \in DOMAIN watchers, NEW W \in Watcher,
           W.offsets = watchers[w].offsets, W.job = watchers[w].job
    PROVE  Honest(W, Accounts)
  BY WatcherParts DEF Honest

LEMMA InitInv == Init => Inv
<1> SUFFICES ASSUME Init PROVE Inv
  OBVIOUS
<1>1. old \subseteq Files /\ lines \in [Files -> 0..MaxLines]
  BY FilesAssumption, BoundsAssumption DEF Init
<1>2. OtherTypes
  <2>1. 0 \in 0..MaxRebuilds /\ 0 \in 0..MaxFaults
    BY BoundsAssumption
  <2>2. waiting \in Seq(Nat) /\ rebuilt \in [Files -> 0..MaxRebuilds]
    BY <2>1 DEF Init
  <2> QED
    BY <1>1, <2>1, <2>2 DEF Init, OtherTypes
<1>3. \A f \in Files : 1..stored[f] = {}
  BY DEF Init
<1>4. NoSilentSkip /\ AllHonest /\ HandOverInOrder
  BY <1>3 DEF Init, NoSilentSkip, AllHonest, HandOverInOrder
<1> QED
  BY <1>2, <1>4 DEF Init, Inv, TypeOK, OtherTypes

LEMMA WriteInv ==
    ASSUME Inv, NEW f \in Files, Write(f)
    PROVE  Inv'
<1> DEFINE Heard(w) == IF watchers[w].phase = "watching"
                         THEN [watchers[w] EXCEPT !.notice = @ \cup {f}] ELSE watchers[w]
<1>1. watchers \in Seq(Watcher) /\ watchers' = [w \in DOMAIN watchers |-> Heard(w)]
  BY DEF Write, Inv, TypeOK
<1>2. ASSUME NEW w \in DOMAIN watchers
      PROVE  Heard(w) \in Watcher /\ Honest(Heard(w), Accounts)
  <2>1. watchers[w] \in Watcher
    BY WatcherParts DEF Inv
  <2>2. Heard(w) \in Watcher /\ Heard(w).offsets = watchers[w].offsets
        /\ Heard(w).job = watchers[w].job
    BY <2>1 DEF Watcher
  <2> HIDE DEF Heard
  <2> QED
    BY <2>2, SameReads DEF Inv
<1>3. \A g \in Files : Accounted(g)' = Accounted(g)
  BY DEF Accounted, Outstanding, Write, history
<1>4. Accounts' = Accounts
  BY <1>3 DEF Accounts
<1>5. watchers' \in Seq(Watcher) /\ AllHonest'
  <2> HIDE DEF Heard
  <2> QED
    BY <1>1, <1>2, <1>4 DEF AllHonest
<1>6. NoSilentSkip' /\ HandOverInOrder'
  BY <1>1, <1>3 DEF Inv, NoSilentSkip, HandOverInOrder, Write, history
<1>7. lines' \in [Files -> 0..MaxLines]
  BY BoundsAssumption DEF Write, Inv, TypeOK
<1> QED
  BY <1>5, <1>6, <1>7 DEF Write, Inv, TypeOK, history, faults

LEMMA StoredAccounted ==
    ASSUME Inv, NEW w \in DOMAIN watchers
    PROVE  \A f \in Files : 1..stored[f] \subseteq Accounted(f)
<1>1. watchers \in Seq(Watcher)
  BY DEF Inv, TypeOK
<1>2. watchers # <<>>
  BY <1>1
<1> QED
  BY <1>2 DEF Inv, NoSilentSkip

LEMMA SilentWatcherStep ==
    ASSUME Inv, NEW w \in DOMAIN watchers, NEW W \in Watcher,
           UNCHANGED <<handOver, handed, interrupted, stored>>, OtherTypes',
           watchers' = [watchers EXCEPT ![w] = W],
           W.offsets = watchers[w].offsets, W.job = watchers[w].job
    PROVE  Inv'
<1>1. Honest(W, Accounts)
  BY SameReads DEF Inv
<1>2. stored' \in [Files -> Nat] /\ \A f \in Files : 1..stored'[f] \subseteq Accounted(f)
  BY StoredAccounted DEF Inv, TypeOK
<1> QED
  BY <1>1, <1>2, QuietStep

LEMMA LoseNoticeInv ==
    ASSUME Inv, NEW w \in DOMAIN watchers, NEW f \in Files, LoseNotice(w, f)
    PROVE  Inv'
<1> DEFINE W == [watchers[w] EXCEPT !.notice = @ \ {f}]
<1>1. W \in Watcher /\ W.offsets = watchers[w].offsets /\ W.job = watchers[w].job
  BY WatcherParts DEF Inv, Watcher
<1>2. watchers' = [watchers EXCEPT ![w] = W]
  BY DEF LoseNotice
<1>3. OtherTypes'
  BY DEF LoseNotice, Inv, TypeOK, OtherTypes, disk, history, faults
<1>4. UNCHANGED <<handOver, handed, interrupted, stored>>
  BY DEF LoseNotice, history
<1> HIDE DEF W
<1> QED
  BY <1>1, <1>2, <1>3, <1>4, SilentWatcherStep

LEMMA AppendTask ==
    ASSUME TypeOK, AllHonest, NEW w \in DOMAIN watchers, NEW task \in Tasks
    PROVE  Append(watchers[w].chain, task) \in Seq(Tasks)
  BY WatcherParts

LEMMA ScanInv ==
    ASSUME Inv, NEW w \in DOMAIN watchers, NEW f \in Files, Scan(w, f)
    PROVE  Inv'
<1> DEFINE W == [watchers[w] EXCEPT !.chain = Append(@, [kind |-> "tail", file |-> f])]
<1>1. W \in Watcher /\ W.offsets = watchers[w].offsets /\ W.job = watchers[w].job
  <2>1. [kind |-> "tail", file |-> f] \in Tasks
    BY DEF Tasks
  <2> QED
    BY <2>1, AppendTask, WatcherParts DEF Inv, Watcher
<1>2. watchers' = [watchers EXCEPT ![w] = W]
  BY DEF Scan
<1>3. OtherTypes'
  BY DEF Scan, Inv, TypeOK, OtherTypes, history, faults
<1>4. UNCHANGED <<handOver, handed, interrupted, stored>>
  BY DEF Scan, history
<1> HIDE DEF W
<1> QED
  BY <1>1, <1>2, <1>3, <1>4, SilentWatcherStep

LEMMA ReportInv ==
    ASSUME Inv, NEW w \in DOMAIN watchers, NEW f \in Files, Report(w, f)
    PROVE  Inv'
<1> DEFINE W == [watchers[w] EXCEPT !.notice = @ \ {f},
                                    !.chain = Append(@, [kind |-> "tail", file |-> f])]
<1>1. W \in Watcher /\ W.offsets = watchers[w].offsets /\ W.job = watchers[w].job
  <2>1. [kind |-> "tail", file |-> f] \in Tasks
    BY DEF Tasks
  <2> QED
    BY <2>1, AppendTask, WatcherParts DEF Inv, Watcher
<1>2. watchers' = [watchers EXCEPT ![w] = W]
  BY WatcherParts DEF Report, Inv, Watcher
<1>3. OtherTypes'
  BY DEF Report, Inv, TypeOK, OtherTypes, disk, history, faults
<1>4. UNCHANGED <<handOver, handed, interrupted, stored>>
  BY DEF Report, history
<1> HIDE DEF W
<1> QED
  BY <1>1, <1>2, <1>3, <1>4, SilentWatcherStep

(* A read begins at an offset, and an offset is honest.                    *)
LEMMA HonestStart ==
    ASSUME Inv, NEW w \in DOMAIN watchers, NEW side \in Sides, NEW f \in Files,
           NEW from \in Nat, 1..from \subseteq Accounted(f), NEW W \in Watcher,
           \A g \in Files : W.offsets[g] = watchers[w].offsets[g] \/ (W.offsets[g] = from /\ g = f),
           W.job = [watchers[w].job EXCEPT ![side] = Opened(f, from)]
    PROVE  Honest(W, Accounts)
<1>1. Honest(watchers[w], Accounts) /\ watchers[w].job \in [Sides -> Job \cup {Idle}]
  BY WatcherParts DEF Inv
<1>2. \A g \in Files : 1..W.offsets[g] \subseteq Accounts[g]
  BY <1>1 DEF Honest, Accounts
<1>3. ASSUME NEW s \in Sides, W.job[s] # Idle
      PROVE  /\ 1..W.job[s].from \subseteq Accounts[W.job[s].file]
             /\ W.job[s].at = "read" => W.job[s].from < W.job[s].size
  <2>1. CASE s = side
    <3>1. W.job[s] = Opened(f, from)
      BY <1>1, <2>1
    <3> QED
      BY <3>1 DEF Opened, Accounts
  <2>2. CASE s # side
    <3>1. W.job[s] = watchers[w].job[s]
      BY <1>1, <2>2
    <3> QED
      BY <3>1, <1>1, <1>3 DEF Honest
  <2> QED
    BY <2>1, <2>2
<1> QED
  BY <1>2, <1>3 DEF Honest

LEMMA TakeTaskInv ==
    ASSUME Inv, NEW w \in DOMAIN watchers, TakeTask(w)
    PROVE  Inv'
<1> DEFINE task == Head(watchers[w].chain)
           f == task.file
           from == IF task.kind = "reread" THEN 0 ELSE watchers[w].offsets[f]
           W == [watchers[w] EXCEPT !.chain = Tail(@), !.offsets[f] = from,
                                    !.job["chain"] = Opened(f, from)]
<1>1. task \in Tasks /\ Tail(watchers[w].chain) \in Seq(Tasks)
  <2>1. watchers[w].chain \in Seq(Tasks) /\ watchers[w].chain # <<>>
    BY WatcherParts DEF TakeTask, Inv
  <2> QED
    BY <2>1, HeadTailProperties
<1>2. f \in Files /\ from \in Nat
  BY <1>1, WatcherParts DEF Inv, Tasks
<1>3. 1..from \subseteq Accounted(f)
  BY <1>2, WatcherParts DEF Inv
<1>4. Opened(f, from) \in Job
  BY <1>2 DEF Opened, Job
<1>5. /\ W \in Watcher
      /\ W.offsets = [watchers[w].offsets EXCEPT ![f] = from]
      /\ W.job = [watchers[w].job EXCEPT !["chain"] = Opened(f, from)]
  <2> HIDE DEF task, f, from
  <2> QED
    BY <1>1, <1>2, <1>4, WatcherParts DEF Inv, Watcher, Sides
<1>6. watchers' = [watchers EXCEPT ![w] = W]
  <2>1. watchers' = [watchers EXCEPT ![w].chain = Tail(@), ![w].offsets[f] = from,
                                     ![w].job["chain"] = Opened(f, from)]
    BY DEF TakeTask
  <2> HIDE DEF task, f, from
  <2> QED
    BY <2>1, WatcherParts DEF Inv, Watcher
<1>7. Honest(W, Accounts)
  <2>1. \A g \in Files : W.offsets[g] = watchers[w].offsets[g] \/ (W.offsets[g] = from /\ g = f)
    <3> HIDE DEF W, task, f, from
    <3> QED
      BY <1>2, <1>5, WatcherParts DEF Inv
  <2>2. "chain" \in Sides
    BY DEF Sides
  <2>3. W \in Watcher /\ W.job = [watchers[w].job EXCEPT !["chain"] = Opened(f, from)]
    BY <1>5
  <2> HIDE DEF W, task, f, from
  <2> QED
    BY <1>2, <1>3, <2>1, <2>2, <2>3, HonestStart, SMTT(30)
<1>8. stored' \in [Files -> Nat] /\ \A g \in Files : 1..stored'[g] \subseteq Accounted(g)
  <2>1. stored' = stored \/ stored' = [stored EXCEPT ![f] = 0]
    BY DEF TakeTask
  <2>2. stored \in [Files -> Nat] /\ \A g \in Files : 1..stored[g] \subseteq Accounted(g)
    BY StoredAccounted DEF Inv, TypeOK
  <2> HIDE DEF task, f, from, W
  <2> QED
    BY <2>1, <2>2, <1>2
<1>9. OtherTypes' /\ UNCHANGED <<handOver, handed, interrupted>>
  BY DEF TakeTask, Inv, TypeOK, OtherTypes, disk, history, faults
<1> HIDE DEF W
<1> QED
  BY <1>5, <1>6, <1>7, <1>8, <1>9, QuietStep

LEMMA StatInv ==
    ASSUME Inv, NEW w \in DOMAIN watchers, NEW side \in Sides, Stat(w, side)
    PROVE  Inv'
<1> DEFINE job == watchers[w].job[side]
           read == IF lines[job.file] <= job.from THEN Idle
                   ELSE [job EXCEPT !.at = "read", !.size = lines[job.file]]
           W == [watchers[w] EXCEPT !.job[side] = read]
<1>1. job \in Job /\ job # Idle /\ job.file \in Files /\ job.from \in Nat
  BY WatcherParts DEF Stat, Inv, Job
<1>2. lines[job.file] \in Nat
  BY <1>1 DEF Inv, TypeOK
<1>3. \/ read = Idle
      \/ /\ read \in Job /\ read.file = job.file /\ read.from = job.from
         /\ read.from < read.size
  <2>1. CASE lines[job.file] <= job.from
    BY <2>1
  <2>2. CASE ~(lines[job.file] <= job.from)
    <3>1. read = [job EXCEPT !.at = "read", !.size = lines[job.file]]
      BY <2>2
    <3>2. job.from < lines[job.file]
      BY <2>2, <1>1, <1>2
    <3> HIDE DEF read, job
    <3>3. read \in Job
      BY <3>1, <1>1, <1>2 DEF Job
    <3>4. read.file = job.file /\ read.from = job.from /\ read.size = lines[job.file]
      BY <3>1, <1>1 DEF Job
    <3> QED
      BY <3>2, <3>3, <3>4
  <2> QED
    BY <2>1, <2>2
<1>4. W \in Watcher /\ W.offsets = watchers[w].offsets
      /\ W.job = [watchers[w].job EXCEPT ![side] = read]
  <2> HIDE DEF read
  <2> QED
    BY <1>3, WatcherParts DEF Inv, Watcher
<1>5. watchers' = [watchers EXCEPT ![w] = W]
  BY WatcherParts DEF Stat, Inv, Watcher
<1>6. Honest(W, Accounts)
  <2>1. Honest(watchers[w], Accounts) /\ watchers[w].job \in [Sides -> Job \cup {Idle}]
    BY WatcherParts DEF Inv
  <2>2. \A f \in Files : 1..W.offsets[f] \subseteq Accounts[f]
    BY <1>4, <2>1 DEF Honest
  <2>3. ASSUME NEW s \in Sides, W.job[s] # Idle
        PROVE  /\ 1..W.job[s].from \subseteq Accounts[W.job[s].file]
               /\ W.job[s].at = "read" => W.job[s].from < W.job[s].size
    <3>1. CASE s = side
      <4>1. W.job[s] = read
        BY <1>4, <2>1, <3>1
      <4>2. 1..job.from \subseteq Accounts[job.file]
        BY <1>1, <2>1 DEF Honest
      <4> HIDE DEF read, job, W
      <4> QED
        BY <4>1, <4>2, <2>3, <1>3
    <3>2. CASE s # side
      <4>1. W.job[s] = watchers[w].job[s]
        BY <1>4, <2>1, <3>2
      <4> QED
        BY <4>1, <2>1, <2>3 DEF Honest
    <3> QED
      BY <3>1, <3>2
  <2> HIDE DEF W
  <2> QED
    BY <2>2, <2>3 DEF Honest
<1>7. stored' \in [Files -> Nat] /\ \A f \in Files : 1..stored'[f] \subseteq Accounted(f)
  BY StoredAccounted DEF Stat, Inv, TypeOK
<1>8. OtherTypes' /\ UNCHANGED <<handOver, handed, interrupted>>
  BY DEF Stat, Inv, TypeOK, OtherTypes, disk, history, faults
<1> HIDE DEF W
<1> QED
  BY <1>4, <1>5, <1>6, <1>7, <1>8, QuietStep

(* A read that publishes: the lines it owes are accounted for by the       *)
(* hand-over that begins.                                                  *)
LEMMA PublishInv ==
    ASSUME Inv, NEW w \in DOMAIN watchers, NEW side \in Sides, Publish(w, side)
    PROVE  Inv'
<1>1. PICK f \in Files, from \in Nat, size \in Nat :
        /\ from < size /\ 1..from \subseteq Accounted(f)
        /\ f = watchers[w].job[side].file /\ from = watchers[w].job[side].from
        /\ size = watchers[w].job[side].size
  <2> DEFINE job == watchers[w].job[side]
  <2>1. Honest(watchers[w], Accounts) /\ job \in Job \cup {Idle} /\ job # Idle /\ job.at = "read"
    BY WatcherParts DEF Publish, Inv
  <2>2. job \in Job /\ job.file \in Files /\ job.from \in Nat /\ job.size \in Nat
    BY <2>1 DEF Job
  <2>3. job.from < job.size /\ 1..job.from \subseteq Accounts[job.file]
    BY <2>1 DEF Honest
  <2> QED
    BY <2>2, <2>3 DEF Accounts
<1> DEFINE W == [watchers[w] EXCEPT !.offsets[f] = size, !.job[side] = Idle]
<1>2. /\ handOver = Nothing
      /\ handOver' = [watcher |-> w, side |-> side, file |-> f,
                      next |-> from + 1, upTo |-> size]
      /\ stored' = [stored EXCEPT ![f] = size]
      /\ watchers' = [watchers EXCEPT ![w].offsets[f] = size, ![w].job[side] = Idle]
      /\ UNCHANGED <<handed, interrupted>>
  BY <1>1 DEF Publish, Quiet, history
<1>3. w \in Nat \ {0}
  BY DEF Inv, TypeOK
<1>4. /\ handOver' \in HandOvers /\ handOver' # Nothing /\ handOver'.file = f
      /\ handOver'.next = from + 1 /\ handOver'.upTo = size
  <2>1. handOver' \in HandOvers
    BY <1>1, <1>2, <1>3 DEF HandOvers
  <2>2. handOver'.watcher = w /\ Nothing.watcher = 0
    BY <1>2 DEF Nothing
  <2> QED
    BY <1>2, <1>3, <2>1, <2>2
<1>5. Grows /\ \A g \in Files : Accounts[g] \subseteq Accounts'[g]
  BY <1>2 DEF Grows, Accounted, Outstanding, Accounts
<1>6. 1..size \subseteq Accounted(f)'
  <2>1. Outstanding(f)' = (from + 1)..size
    BY <1>4 DEF Outstanding
  <2>2. 1..from \subseteq Accounted(f)'
    BY <1>1, <1>5 DEF Grows
  <2>3. Outstanding(f)' \subseteq Accounted(f)'
    BY DEF Accounted
  <2>4. ASSUME NEW i \in 1..size PROVE i \in Accounted(f)'
    <3>1. i \in 1..from \/ i \in (from + 1)..size
      BY <1>1
    <3> QED
      BY <3>1, <2>1, <2>2, <2>3
  <2> QED
    BY <2>4
<1>7. /\ W \in Watcher
      /\ W.offsets = [watchers[w].offsets EXCEPT ![f] = size]
      /\ W.job = [watchers[w].job EXCEPT ![side] = Idle]
  BY WatcherParts DEF Inv, Watcher
<1>8. watchers' = [watchers EXCEPT ![w] = W]
  BY <1>2, WatcherParts DEF Inv, Watcher
<1> HIDE DEF W
<1>9. Honest(W, Accounts')
  <2>1. Honest(watchers[w], Accounts') /\ watchers[w].job \in [Sides -> Job \cup {Idle}]
        /\ watchers[w].offsets \in [Files -> Nat]
    BY <1>5, HonestGrows, WatcherParts DEF Inv
  <2>2. 1..size \subseteq Accounts'[f]
    BY <1>6 DEF Accounts
  <2>3. \A g \in Files : 1..W.offsets[g] \subseteq Accounts'[g]
    BY <1>7, <2>1, <2>2 DEF Honest
  <2>4. ASSUME NEW s \in Sides, W.job[s] # Idle
        PROVE  /\ 1..W.job[s].from \subseteq Accounts'[W.job[s].file]
               /\ W.job[s].at = "read" => W.job[s].from < W.job[s].size
    <3>1. W.job[s] = watchers[w].job[s]
      BY <1>7, <2>1, <2>4
    <3> QED
      BY <3>1, <2>1, <2>4 DEF Honest
  <2> QED
    BY <2>3, <2>4 DEF Honest
<1>10. watchers' \in Seq(Watcher) /\ AllHonest'
  BY <1>5, <1>7, <1>8, <1>9, OneWatcher DEF Inv
<1>11. NoSilentSkip'
  <2>1. \A g \in Files : 1..stored[g] \subseteq Accounted(g)'
    BY <1>5, StoredAccounted DEF Grows
  <2>2. stored \in [Files -> Nat]
    BY DEF Inv, TypeOK
  <2>3. ASSUME NEW g \in Files PROVE 1..stored'[g] \subseteq Accounted(g)'
    BY <1>2, <1>6, <2>1, <2>2
  <2> QED
    BY <2>3 DEF NoSilentSkip
<1>12. HandOverInOrder'
  <2>1. 1..from \subseteq handed[f] \cup interrupted[f]
    BY <1>1, <1>2 DEF Accounted, Outstanding
  <2> QED
    BY <1>1, <1>2, <1>4, <2>1 DEF HandOverInOrder
<1>13. stored' \in [Files -> Nat] /\ OtherTypes'
  <2>1. stored \in [Files -> Nat]
    BY DEF Inv, TypeOK
  <2>2. OtherTypes'
    BY <1>4 DEF Publish, Inv, TypeOK, OtherTypes, disk, history, faults
  <2> QED
    BY <1>1, <1>2, <2>1, <2>2
<1> QED
  BY <1>10, <1>11, <1>12, <1>13 DEF Inv, TypeOK, OtherTypes

LEMMA HandOverInv ==
    ASSUME Inv, HandOver
    PROVE  /\ Inv'
           /\ \A f \in Files : \A n \in handed'[f] \ handed[f] :
                 1..(n - 1) \subseteq handed[f] \cup interrupted[f]
<1> DEFINE f == handOver.file
           n == handOver.next
<1>1. /\ handOver \in HandOvers /\ f \in Files /\ n \in Nat /\ n > 0
      /\ handOver # Nothing /\ handOver.upTo \in Nat /\ n <= handOver.upTo
      /\ 1..(n - 1) \subseteq handed[f] \cup interrupted[f]
  <2>1. handOver \in HandOvers /\ handOver # Nothing
    BY DEF HandOver, Quiet, Inv, TypeOK
  <2>2. f \in Files /\ n \in Nat /\ handOver.upTo \in Nat
    BY <2>1 DEF HandOvers
  <2> QED
    BY <2>1, <2>2 DEF Inv, HandOverInOrder
<1>2. /\ handed' = [handed EXCEPT ![f] = @ \cup {n}]
      /\ held' = [held EXCEPT ![f] = @ \cup {n}]
      /\ again' = IF n \in handed[f] THEN again \cup {f} ELSE again
      /\ handOver' = IF n = handOver.upTo THEN Nothing ELSE [handOver EXCEPT !.next = n + 1]
      /\ UNCHANGED <<disk, stored, summarized, watchers, waiting, indexing,
                     skipped, interrupted, rebuilt, faults>>
  BY DEF HandOver
<1>3. handed \in [Files -> SUBSET Nat] /\ held \in [Files -> SUBSET Nat] /\ again \subseteq Files
  BY DEF Inv, TypeOK
<1>4. \A g \in Files : handed[g] \subseteq handed'[g]
  BY <1>2, <1>3
<1>5. n \in handed'[f]
  BY <1>1, <1>2, <1>3
<1>6. handOver' = Nothing \/
      (handOver' \in HandOvers /\ handOver'.file = f /\ handOver'.next = n + 1
       /\ handOver'.upTo = handOver.upTo /\ n # handOver.upTo)
  <2>1. CASE n = handOver.upTo
    BY <1>2, <2>1
  <2>2. CASE n # handOver.upTo
    <3>1. handOver' = [handOver EXCEPT !.next = n + 1]
      BY <1>2, <2>2
    <3>2. handOver' \in HandOvers
      BY <1>1, <3>1 DEF HandOvers
    <3>3. handOver'.file = handOver.file /\ handOver'.next = n + 1 /\ handOver'.upTo = handOver.upTo
      BY <1>1, <3>1 DEF HandOvers
    <3> QED
      BY <2>2, <3>2, <3>3
  <2> QED
    BY <2>1, <2>2
<1>7. ASSUME NEW g \in Files, NEW i \in Outstanding(g) PROVE i \in Accounted(g)'
  <2>1. g = f /\ i \in n..handOver.upTo
    BY <1>1, <1>7 DEF Outstanding
  <2>2. CASE i = n
    BY <1>5, <2>1, <2>2 DEF Accounted
  <2>3. CASE i # n
    <3>1. handOver' # Nothing
      <4>1. n # handOver.upTo
        BY <1>1, <2>1, <2>3
      <4>2. handOver'.watcher = handOver.watcher
        BY <1>1, <1>2, <4>1 DEF HandOvers
      <4>3. handOver.watcher # 0 /\ Nothing.watcher = 0
        BY <1>1 DEF HandOvers, Nothing
      <4> QED
        BY <4>2, <4>3
    <3>2. i \in (n + 1)..handOver.upTo
      BY <1>1, <2>1, <2>3
    <3> QED
      BY <1>6, <2>1, <3>1, <3>2 DEF Accounted, Outstanding
  <2> QED
    BY <2>2, <2>3
<1>8. Grows /\ \A g \in Files : Accounts[g] \subseteq Accounts'[g]
  <2>1. Grows
    BY <1>2, <1>4, <1>7 DEF Grows, Accounted
  <2> QED
    BY <2>1 DEF Grows, Accounts
<1>9. AllHonest' /\ NoSilentSkip'
  <2>1. ASSUME NEW w \in DOMAIN watchers PROVE Honest(watchers[w], Accounts')
    BY <1>8, HonestGrows, WatcherParts DEF Inv
  <2> QED
    BY <1>2, <1>8, <2>1 DEF AllHonest, Inv, NoSilentSkip, Grows
<1>10. HandOverInOrder'
  <2> SUFFICES ASSUME handOver' # Nothing
               PROVE  /\ handOver'.next <= handOver'.upTo /\ handOver'.next > 0
                      /\ 1..(handOver'.next - 1) \subseteq handed'[handOver'.file]
                                                         \cup interrupted'[handOver'.file]
    BY DEF HandOverInOrder
  <2>1. handOver'.file = f /\ handOver'.next = n + 1 /\ handOver'.upTo = handOver.upTo
        /\ n # handOver.upTo
    BY <1>6
  <2> HIDE DEF n, f
  <2>2. 1..n \subseteq 1..(n - 1) \cup {n}
    BY <1>1
  <2>3. 1..n \subseteq handed'[f] \cup interrupted'[f]
    BY <1>1, <1>2, <1>4, <1>5, <2>2
  <2> QED
    BY <1>1, <2>1, <2>3
<1>11. TypeOK'
  <2>1. handed' \in [Files -> SUBSET Nat] /\ held' \in [Files -> SUBSET Nat] /\ again' \subseteq Files
    BY <1>1, <1>2, <1>3
  <2> QED
    BY <1>2, <1>6, <2>1 DEF Inv, TypeOK, disk, faults
<1>12. \A g \in Files : \A m \in handed'[g] \ handed[g] : g = f /\ m = n
  BY <1>2, <1>3
<1> QED
  BY <1>1, <1>9, <1>10, <1>11, <1>12 DEF Inv

LEMMA WalkReadInv ==
    ASSUME Inv, NEW w \in DOMAIN watchers, NEW f \in Files, WalkRead(w, f)
    PROVE  Inv'
<1>1. PICK from \in Nat : from = watchers[w].offsets[f] /\ 1..from \subseteq Accounted(f)
  BY WatcherParts DEF Inv
<1> DEFINE W == [watchers[w] EXCEPT !.todo = @ \ {f}, !.job["walk"] = Opened(f, from)]
<1>2. Opened(f, from) \in Job
  BY DEF Opened, Job
<1>3. /\ W \in Watcher /\ W.offsets = watchers[w].offsets
      /\ W.job = [watchers[w].job EXCEPT !["walk"] = Opened(f, from)]
  BY <1>2, WatcherParts DEF Inv, Watcher, Sides
<1>4. watchers' = [watchers EXCEPT ![w] = W]
  BY <1>1, WatcherParts DEF WalkRead, Inv, Watcher
<1> HIDE DEF W
<1>5. Honest(W, Accounts)
  <2>1. \A g \in Files : W.offsets[g] = watchers[w].offsets[g] \/ (W.offsets[g] = from /\ g = f)
    BY <1>3
  <2>2. "walk" \in Sides
    BY DEF Sides
  <2> QED
    BY <1>1, <1>3, <2>1, <2>2, HonestStart, SMTT(30)
<1>6. stored' \in [Files -> Nat] /\ \A g \in Files : 1..stored'[g] \subseteq Accounted(g)
  BY StoredAccounted DEF WalkRead, Inv, TypeOK
<1>7. OtherTypes' /\ UNCHANGED <<handOver, handed, interrupted>>
  BY DEF WalkRead, Inv, TypeOK, OtherTypes, disk, history, faults
<1> QED
  BY <1>3, <1>4, <1>5, <1>6, <1>7, QuietStep

LEMMA WalkDeferInv ==
    ASSUME Inv, NEW w \in DOMAIN watchers, NEW f \in Files, WalkDefer(w, f)
    PROVE  Inv'
<1> DEFINE W == [watchers[w] EXCEPT !.todo = @ \ {f}, !.deferred = @ \cup ({f} \ (ancient \cup summarized))]
<1>1. W \in Watcher /\ W.offsets = watchers[w].offsets /\ W.job = watchers[w].job
  BY WatcherParts DEF Inv, Watcher
<1>2. watchers' = [watchers EXCEPT ![w] = W]
  BY WatcherParts DEF WalkDefer, Inv, Watcher
<1>3. OtherTypes' /\ UNCHANGED <<handOver, handed, interrupted, stored>>
  BY DEF WalkDefer, Inv, TypeOK, OtherTypes, disk, history, faults
<1> HIDE DEF W
<1> QED
  BY <1>1, <1>2, <1>3, SilentWatcherStep

(* A step that replaces watchers by ones that read the same.               *)
LEMMA SameReadsStep ==
    ASSUME Inv, UNCHANGED <<handOver, handed, interrupted, stored>>, OtherTypes',
           watchers' \in Seq(Watcher), DOMAIN watchers' = DOMAIN watchers,
           \A w \in DOMAIN watchers : /\ watchers'[w].offsets = watchers[w].offsets
                                      /\ watchers'[w].job = watchers[w].job
    PROVE  Inv'
<1>1. \A f \in Files : Accounted(f)' = Accounted(f)
  BY DEF Accounted, Outstanding
<1>2. Accounts' = Accounts
  BY <1>1 DEF Accounts
<1>3. ASSUME NEW w \in DOMAIN watchers PROVE Honest(watchers'[w], Accounts')
  <2>1. watchers'[w] \in Watcher
    OBVIOUS
  <2> QED
    BY <1>2, <2>1, SameReads DEF Inv
<1>4. NoSilentSkip' /\ HandOverInOrder' /\ AllHonest'
  <2>1. watchers \in Seq(Watcher)
    BY DEF Inv, TypeOK
  <2>2. watchers' # <<>> => watchers # <<>>
    BY <2>1
  <2> QED
    BY <1>1, <1>3, <2>2 DEF Inv, NoSilentSkip, HandOverInOrder, AllHonest
<1> QED
  BY <1>4 DEF Inv, TypeOK, OtherTypes

LEMMA ArmInv ==
    ASSUME Inv, NEW w \in DOMAIN watchers, Arm(w)
    PROVE  Inv'
<1> DEFINE armed == [watchers EXCEPT ![w].phase = "watching"]
<1>1. watchers \in Seq(Watcher) /\ Current \in DOMAIN watchers
  BY DEF Inv, TypeOK, Current
<1>2. watchers' = [armed EXCEPT ![Current].deferred = {}]
  BY DEF Arm
<1>3. armed \in Seq(Watcher) /\ DOMAIN armed = DOMAIN watchers
  <2>1. [watchers[w] EXCEPT !.phase = "watching"] \in Watcher
    BY WatcherParts DEF Inv, Watcher
  <2> QED
    BY <1>1, <2>1
<1>4. \A v \in DOMAIN watchers : armed[v] \in Watcher /\ armed[v].offsets = watchers[v].offsets
                                 /\ armed[v].job = watchers[v].job
  <2>1. \A v \in DOMAIN watchers : armed[v] \in Watcher
    BY <1>1, <1>3
  <2>2. ASSUME NEW v \in DOMAIN watchers
        PROVE  armed[v].offsets = watchers[v].offsets /\ armed[v].job = watchers[v].job
    <3>1. watchers[v] \in Watcher
      BY <1>1
    <3>2. armed[v] = watchers[v] \/ armed[v] = [watchers[v] EXCEPT !.phase = "watching"]
      BY <1>1
    <3> QED
      BY <3>1, <3>2 DEF Watcher
  <2> QED
    BY <2>1, <2>2
<1> HIDE DEF armed
<1>5. watchers' \in Seq(Watcher) /\ DOMAIN watchers' = DOMAIN watchers
  <2>1. [armed[Current] EXCEPT !.deferred = {}] \in Watcher
    BY <1>1, <1>4 DEF Watcher
  <2> QED
    BY <1>1, <1>2, <1>3, <2>1
<1>6. \A v \in DOMAIN watchers : watchers'[v].offsets = armed[v].offsets
                                 /\ watchers'[v].job = armed[v].job
  BY <1>1, <1>2, <1>3, <1>4 DEF Watcher
<1>7. OtherTypes' /\ UNCHANGED <<handOver, handed, interrupted, stored>>
  <2>1. indexing' \subseteq Files
    BY <1>1, WatcherParts DEF Arm, Inv
  <2> QED
    BY <2>1 DEF Arm, Inv, TypeOK, OtherTypes, disk, history, faults
<1> QED
  BY <1>4, <1>5, <1>6, <1>7, SameReadsStep

LEMMA IndexOneInv ==
    ASSUME Inv, NEW f \in Files, IndexOne(f)
    PROVE  Inv'
<1>1. OtherTypes' /\ UNCHANGED <<handOver, handed, interrupted, stored, watchers>>
  BY DEF IndexOne, Inv, TypeOK, OtherTypes, disk, history, faults
<1> QED
  BY <1>1, StillStep

LEMMA SetRootsInv ==
    ASSUME Inv, SetRoots
    PROVE  Inv'
<1>1. watchers \in Seq(Watcher) /\ Current \in DOMAIN watchers /\ Current \in Nat
  BY DEF SetRoots, Inv, TypeOK, Current
<1>2. OtherTypes' /\ UNCHANGED <<handOver, handed, interrupted, stored>>
  <2>1. waiting' \in Seq(Nat)
    BY <1>1 DEF SetRoots, Inv, TypeOK
  <2>2. overlapped' \in BOOLEAN
    BY DEF SetRoots, Inv, TypeOK
  <2> QED
    BY <2>1, <2>2 DEF SetRoots, Inv, TypeOK, OtherTypes, disk, history
<1>3. CASE watchers' = watchers
  BY <1>1, <1>2, <1>3, SameReadsStep
<1>4. CASE watchers' = [watchers EXCEPT ![Current].phase = "stopped", ![Current].notice = {}]
  <2> DEFINE W == [watchers[Current] EXCEPT !.phase = "stopped", !.notice = {}]
  <2>1. W \in Watcher /\ W.offsets = watchers[Current].offsets /\ W.job = watchers[Current].job
    BY <1>1, WatcherParts DEF Inv, Watcher
  <2>2. watchers' = [watchers EXCEPT ![Current] = W]
    BY <1>1, <1>4, WatcherParts DEF Inv, Watcher
  <2> HIDE DEF W
  <2> QED
    BY <1>1, <1>2, <2>1, <2>2, SilentWatcherStep
<1> QED
  BY <1>3, <1>4 DEF SetRoots

LEMMA NewWatcherHonest ==
    ASSUME TypeOK, NEW offsets \in [Files -> Nat], NEW A,
           \A f \in Files : 1..offsets[f] \subseteq A[f]
    PROVE  NewWatcher(offsets) \in Watcher /\ Honest(NewWatcher(offsets), A)
<1>1. NewWatcher(offsets) \in Watcher
  BY DEF NewWatcher, Watcher, TypeOK
<1>2. \A f \in Files : 1..NewWatcher(offsets).offsets[f] \subseteq A[f]
  BY DEF NewWatcher
<1>3. \A side \in Sides : NewWatcher(offsets).job[side] = Idle
  BY DEF NewWatcher
<1> QED
  BY <1>1, <1>2, <1>3 DEF Honest

LEMMA Joins ==
    ASSUME Inv, watchers # <<>>, UNCHANGED <<handOver, handed, interrupted, stored>>, OtherTypes',
           watchers' = Append(watchers, NewWatcher(stored))
    PROVE  Inv'
<1> DEFINE New == NewWatcher(stored)
<1>1. New \in Watcher /\ Honest(New, Accounts) /\ watchers \in Seq(Watcher)
  <2>1. stored \in [Files -> Nat] /\ TypeOK /\ watchers \in Seq(Watcher)
    BY DEF Inv, TypeOK
  <2>2. \A f \in Files : 1..stored[f] \subseteq Accounts[f]
    BY DEF Inv, NoSilentSkip, Accounts
  <2> QED
    BY <2>1, <2>2, NewWatcherHonest
<1> HIDE DEF New
<1>2. /\ watchers' \in Seq(Watcher) /\ Len(watchers') = Len(watchers) + 1 /\ Len(watchers) \in Nat
      /\ \A v \in 1..Len(watchers) : watchers'[v] = watchers[v]
      /\ watchers'[Len(watchers) + 1] = New
  BY <1>1 DEF New
<1>3. \A f \in Files : Accounted(f)' = Accounted(f)
  BY DEF Accounted, Outstanding
<1>4. Accounts' = Accounts
  BY <1>3 DEF Accounts
<1>5. ASSUME NEW v \in DOMAIN watchers' PROVE Honest(watchers'[v], Accounts')
  <2>1. v \in 1..Len(watchers) \/ v = Len(watchers) + 1
    BY <1>2
  <2> QED
    BY <1>1, <1>2, <1>4, <2>1 DEF Inv, AllHonest
<1>6. NoSilentSkip' /\ HandOverInOrder' /\ AllHonest'
  BY <1>3, <1>5 DEF Inv, NoSilentSkip, HandOverInOrder, AllHonest
<1> QED
  BY <1>2, <1>6 DEF Inv, TypeOK, OtherTypes

LEMMA SwappedInv ==
    ASSUME Inv, NEW i \in DOMAIN waiting, Swapped(i)
    PROVE  Inv'
<1>1. waiting \in Seq(Nat) /\ i \in 1..Len(waiting) /\ Len(waiting) \in Nat
  BY DEF Inv, TypeOK
<1>2. waiting' \in Seq(Nat)
  <2> DEFINE left(j) == IF j < i THEN waiting[j] ELSE waiting[j + 1]
  <2>1. waiting' = [j \in 1..(Len(waiting) - 1) |-> left(j)]
    BY DEF Swapped
  <2>2. \A j \in 1..(Len(waiting) - 1) : left(j) \in Nat
    BY <1>1
  <2>3. Len(waiting) - 1 \in Nat
    BY <1>1
  <2> HIDE DEF left
  <2> QED
    BY <2>1, <2>2, <2>3
<1>3. OtherTypes' /\ UNCHANGED <<handOver, handed, interrupted, stored>>
  BY <1>2 DEF Swapped, Inv, TypeOK, OtherTypes, disk, history, faults
<1>4. watchers # <<>>
  BY DEF Swapped
<1> QED
  BY <1>3, <1>4, Joins DEF Swapped

LEMMA BootInv ==
    ASSUME Inv, Boot
    PROVE  Inv'
<1> DEFINE W == NewWatcher(stored')
<1>1. stored' \in [Files -> Nat] /\ \A f \in Files : 1..stored'[f] = {}
  BY DEF Boot
<1>2. OtherTypes' /\ UNCHANGED <<handOver, handed, interrupted>>
  BY DEF Boot, Inv, TypeOK, OtherTypes, history, faults
<1>3. W \in Watcher /\ Honest(W, Accounts')
  BY <1>1, NewWatcherHonest DEF Inv
<1> HIDE DEF W
<1>4. watchers' = <<W>>
  BY DEF Boot, W
<1>5. watchers' \in Seq(Watcher) /\ AllHonest'
  BY <1>3, <1>4 DEF AllHonest
<1>6. NoSilentSkip' /\ HandOverInOrder'
  BY <1>1, <1>2 DEF NoSilentSkip, HandOverInOrder, Inv
<1> QED
  BY <1>1, <1>2, <1>5, <1>6 DEF Inv, TypeOK, OtherTypes

LEMMA RebuildInv ==
    ASSUME Inv, NEW f \in Files, Rebuild(f)
    PROVE  Inv'
<1> DEFINE W == [watchers[Current] EXCEPT !.chain = Append(@, [kind |-> "reread", file |-> f])]
<1>1. Current \in DOMAIN watchers
  BY DEF Rebuild, Inv, TypeOK, Current
<1>2. W \in Watcher /\ W.offsets = watchers[Current].offsets /\ W.job = watchers[Current].job
  <2>1. [kind |-> "reread", file |-> f] \in Tasks
    BY DEF Tasks
  <2> QED
    BY <1>1, <2>1, AppendTask, WatcherParts DEF Inv, Watcher
<1>3. watchers' = [watchers EXCEPT ![Current] = W]
  BY DEF Rebuild
<1>4. OtherTypes' /\ UNCHANGED <<handOver, handed, interrupted, stored>>
  <2>1. rebuilt' \in [Files -> 0..MaxRebuilds] /\ held' \in [Files -> SUBSET Nat]
    BY BoundsAssumption DEF Rebuild, Inv, TypeOK
  <2> QED
    BY <2>1 DEF Rebuild, Inv, TypeOK, OtherTypes, disk, faults
<1> HIDE DEF W
<1> QED
  BY <1>1, <1>2, <1>3, <1>4, SilentWatcherStep

(* A hand-over that is cut off accounts for its lines as interrupted.      *)
LEMMA CutOffAccounts ==
    ASSUME TypeOK, handOver' = Nothing, interrupted' = CutOff, UNCHANGED handed
    PROVE  /\ \A f \in Files : Accounted(f)' = Accounted(f)
           /\ interrupted' \in [Files -> SUBSET Nat]
<1>1. \A f \in Files : Outstanding(f) \in SUBSET Nat
  BY DEF TypeOK, Outstanding, HandOvers
<1> QED
  BY <1>1 DEF TypeOK, CutOff, Accounted, Outstanding

LEMMA DiesInv ==
    ASSUME Inv, Dies, faulty < MaxFaults
    PROVE  Inv'
<1>1. NoSilentSkip' /\ HandOverInOrder' /\ AllHonest' /\ watchers' \in Seq(Watcher)
  BY DEF Dies, NoSilentSkip, HandOverInOrder, AllHonest
<1>2. faulty' \in 0..MaxFaults /\ waiting' \in Seq(Nat) /\ rebuilt' \in [Files -> 0..MaxRebuilds]
  BY BoundsAssumption DEF Dies, Inv, TypeOK
<1> QED
  BY <1>1, <1>2 DEF Inv, TypeOK, Dies, disk

LEMMA ThrowInv ==
    ASSUME Inv, handOver' = Nothing, interrupted' = CutOff, faulty' = faulty + 1,
           faulty < MaxFaults, watchers' \in Seq(Watcher), DOMAIN watchers' = DOMAIN watchers,
           \A w \in DOMAIN watchers : /\ watchers'[w].offsets = watchers[w].offsets
                                      /\ watchers'[w].job = watchers[w].job,
           UNCHANGED <<disk, stored, summarized, waiting, indexing,
                       skipped, handed, held, again, rebuilt, overlapped>>
    PROVE  Inv'
<1>1. /\ \A f \in Files : Accounted(f)' = Accounted(f)
      /\ interrupted' \in [Files -> SUBSET Nat]
  BY CutOffAccounts DEF Inv
<1>2. Accounts' = Accounts
  BY <1>1 DEF Accounts
<1>3. ASSUME NEW w \in DOMAIN watchers PROVE Honest(watchers'[w], Accounts')
  <2>1. watchers'[w] \in Watcher
    OBVIOUS
  <2> QED
    BY <1>2, <2>1, SameReads DEF Inv
<1>4. NoSilentSkip' /\ HandOverInOrder' /\ AllHonest'
  <2>1. watchers \in Seq(Watcher)
    BY DEF Inv, TypeOK
  <2>2. watchers' # <<>> => watchers # <<>>
    BY <2>1
  <2> QED
    BY <1>1, <1>3, <2>2 DEF Inv, NoSilentSkip, HandOverInOrder, AllHonest
<1>5. faulty' \in 0..MaxFaults
  BY BoundsAssumption DEF Inv, TypeOK
<1> QED
  BY <1>1, <1>4, <1>5 DEF Inv, TypeOK, disk

LEMMA ChainThrowsInv ==
    ASSUME Inv, ChainThrows
    PROVE  Inv'
<1>1. watchers' \in Seq(Watcher) /\ watchers' = watchers
  BY DEF ChainThrows, Inv, TypeOK
<1> QED
  BY <1>1, ThrowInv DEF ChainThrows

LEMMA ExceptOutside ==
    ASSUME NEW S, NEW s \in Seq(S), NEW i, i \notin DOMAIN s, NEW e
    PROVE  [s EXCEPT ![i] = e] = s
<1> DEFINE t == [s EXCEPT ![i] = e]
<1>1. t = [v \in DOMAIN s |-> IF v = i THEN e ELSE s[v]]
  OBVIOUS
<1>2. \A v \in DOMAIN s : t[v] = s[v]
  BY <1>1
<1>3. s = [v \in DOMAIN s |-> s[v]]
  BY DOMAIN s = 1..Len(s)
<1> QED
  BY <1>1, <1>2, <1>3, Zenon

LEMMA SwapThrowsInv ==
    ASSUME Inv, SwapThrows
    PROVE  Inv'
<1>1. watchers \in Seq(Watcher)
  BY DEF Inv, TypeOK
<1>2. watchers' = [watchers EXCEPT ![handOver.watcher].phase = "dead"]
  BY DEF SwapThrows
<1>3. \A w \in DOMAIN watchers : [watchers[w] EXCEPT !.phase = "dead"] \in Watcher
  BY WatcherParts DEF Inv, Watcher
<1>4. watchers' \in Seq(Watcher) /\ DOMAIN watchers' = DOMAIN watchers
  <2>1. CASE handOver.watcher \in DOMAIN watchers
    BY <1>1, <1>2, <1>3, <2>1
  <2>2. CASE handOver.watcher \notin DOMAIN watchers
    BY <1>1, <1>2, <2>2, ExceptOutside
  <2> QED
    BY <2>1, <2>2
<1>5. \A w \in DOMAIN watchers : /\ watchers'[w].offsets = watchers[w].offsets
                                 /\ watchers'[w].job = watchers[w].job
  BY <1>1, <1>2 DEF Watcher
<1> QED
  BY <1>4, <1>5, ThrowInv DEF SwapThrows

LEMMA NextInv == Inv /\ [Next]_vars => Inv'
<1> SUFFICES ASSUME Inv, [Next]_vars PROVE Inv'
  OBVIOUS
<1>1. ASSUME NEW f \in Files, Write(f) \/ IndexOne(f) \/ Rebuild(f)
      PROVE  Inv'
  BY <1>1, WriteInv, IndexOneInv, RebuildInv
<1>2. ASSUME NEW w \in DOMAIN watchers, NEW f \in Files,
             LoseNotice(w, f) \/ Scan(w, f) \/ Report(w, f) \/ WalkRead(w, f) \/ WalkDefer(w, f)
      PROVE  Inv'
  BY <1>2, LoseNoticeInv, ScanInv, ReportInv, WalkReadInv, WalkDeferInv
<1>3. ASSUME NEW w \in DOMAIN watchers, TakeTask(w) \/ Arm(w)
      PROVE  Inv'
  BY <1>3, TakeTaskInv, ArmInv
<1>4. ASSUME NEW w \in DOMAIN watchers, NEW side \in Sides, ReadStep(w, side)
      PROVE  Inv'
  BY <1>4, StatInv, PublishInv DEF ReadStep
<1>5. CASE HandOver \/ SetRoots \/ ChainThrows \/ SwapThrows \/ Boot
  BY <1>5, HandOverInv, SetRootsInv, ChainThrowsInv, SwapThrowsInv, BootInv
<1>6. CASE Crash \/ BootThrows
  BY <1>6, DiesInv DEF Crash, BootThrows
<1>7. ASSUME NEW i \in DOMAIN waiting, Swapped(i) PROVE Inv'
  BY <1>7, SwappedInv
<1>8. CASE UNCHANGED vars
  <2>1. OtherTypes' /\ UNCHANGED <<handOver, handed, interrupted, stored, watchers>>
    BY <1>8 DEF vars, Inv, TypeOK, OtherTypes, disk, history, faults
  <2> QED
    BY <2>1, StillStep
<1> QED
  BY <1>1, <1>2, <1>3, <1>4, <1>5, <1>6, <1>7, <1>8 DEF Next, WalkStep, WatchStep

THEOREM AlwaysInv == Spec => []Inv
<1>1. Inv /\ [Next]_vars => Inv'
  BY NextInv
<1> QED
  BY InitInv, <1>1, PTL DEF Spec

(* Types are kept for any files, watchers and bounds.                      *)
THEOREM TypeCorrect == Spec => []TypeOK
<1>1. Inv => TypeOK
  BY DEF Inv
<1> QED
  BY AlwaysInv, <1>1, PTL

(* No stored offset ever passes a line that was neither handed over nor    *)
(* cut off by a throw, in one life (tailJsonl, rereadFromStart, start).    *)
THEOREM NothingSkippedSilently == Spec => []NoSilentSkip
<1>1. Inv => NoSilentSkip
  BY DEF Inv
<1> QED
  BY AlwaysInv, <1>1, PTL

LEMMA StepInOrder ==
    ASSUME Inv, [Next]_vars
    PROVE  \A f \in Files : \A n \in handed'[f] \ handed[f] :
              1..(n - 1) \subseteq handed[f] \cup interrupted[f]
<1>1. CASE HandOver
  BY <1>1, HandOverInv
<1>2. CASE ~HandOver
  <2>1. handed' = handed \/ \A f \in Files : handed'[f] = {}
    <3>1. ASSUME NEW f \in Files, Write(f) \/ IndexOne(f) \/ Rebuild(f) PROVE handed' = handed
      BY <3>1 DEF Write, IndexOne, Rebuild, history
    <3>2. ASSUME NEW w \in DOMAIN watchers, NEW f \in Files,
                 LoseNotice(w, f) \/ Scan(w, f) \/ Report(w, f) \/ WalkRead(w, f) \/ WalkDefer(w, f)
          PROVE  handed' = handed
      BY <3>2 DEF LoseNotice, Scan, Report, WalkRead, WalkDefer, history
    <3>3. ASSUME NEW w \in DOMAIN watchers, TakeTask(w) \/ Arm(w) PROVE handed' = handed
      BY <3>3 DEF TakeTask, Arm, history
    <3>4. ASSUME NEW w \in DOMAIN watchers, NEW side \in Sides, ReadStep(w, side)
          PROVE  handed' = handed
      BY <3>4 DEF ReadStep, Stat, Publish, history
    <3>5. CASE SetRoots \/ ChainThrows \/ SwapThrows \/ Boot
      BY <3>5 DEF SetRoots, ChainThrows, SwapThrows, Boot, history
    <3>8. CASE Crash \/ BootThrows
      BY <3>8 DEF Crash, BootThrows, Dies
    <3>6. ASSUME NEW i \in DOMAIN waiting, Swapped(i) PROVE handed' = handed
      BY <3>6 DEF Swapped, history
    <3>7. CASE UNCHANGED vars
      BY <3>7 DEF vars, history
    <3> QED
      BY <1>2, <3>1, <3>2, <3>3, <3>4, <3>5, <3>6, <3>7, <3>8 DEF Next, WalkStep, WatchStep
  <2> QED
    BY <2>1
<1> QED
  BY <1>1, <1>2

(* A line reaches the monitor only after all earlier lines of its file did *)
(* or were cut off, however many reads of it are under way.                *)
THEOREM LinesInOrder == Spec => NoLineOvertakes
<1>1. Inv /\ [Next]_vars =>
        [\A f \in Files : \A n \in handed'[f] \ handed[f] :
            1..(n - 1) \subseteq handed[f] \cup interrupted[f]]_vars
  BY StepInOrder
<1> QED
  BY AlwaysInv, <1>1, PTL DEF Spec, NoLineOvertakes

----------------------------------------------------------------------------
(* A rebuild.  Since the panel of f began anew, every line below any       *)
(* offset has been handed over again, or will be: by a read under way, or  *)
(* by the reread that is queued.                                           *)

Held(f) == held[f] \cup interrupted[f] \cup Outstanding(f)

Covers(L, job, f, n) ==
    /\ job # Idle /\ job.file = f /\ n > job.from
    /\ n <= IF job.at = "opened" THEN L[f] ELSE job.size
Promises(L, W, f, n) ==
    \/ /\ n \in 1..L[f]
       /\ \E i \in DOMAIN W.chain : W.chain[i] = [kind |-> "reread", file |-> f]
    \/ \E side \in Sides : Covers(L, W.job[side], f, n)

Recoup(f) ==
    IF rebuilt[f] > 0
    THEN Held(f) \cup {n \in Nat : \E w \in DOMAIN watchers : Promises(lines, watchers[w], f, n)}
    ELSE Nat
Recoups == [f \in Files |-> Recoup(f)]

Within(L, W) ==
    /\ \A f \in Files : W.offsets[f] <= L[f]
    /\ \A side \in Sides : W.job[side] # Idle =>
         W.job[side].from <= L[W.job[side].file] /\ W.job[side].size <= L[W.job[side].file]

StoredRecouped == \A f \in Files : stored[f] <= lines[f] /\ 1..stored[f] \subseteq Recoup(f)
ReadsRecouped ==
    \A w \in DOMAIN watchers : Within(lines, watchers[w]) /\ Honest(watchers[w], Recoups)
RInv == Inv /\ StoredRecouped /\ ReadsRecouped

(* The lines of f that had to be there are there after the step, or all    *)
(* that are written will be.                                               *)
Regains(f) == Recoup(f) \subseteq Recoup(f)' \/ 1..lines[f] \subseteq Recoup(f)'
SameReading(w) ==
    /\ w \in DOMAIN watchers
    /\ watchers'[w].offsets = watchers[w].offsets /\ watchers'[w].job = watchers[w].job

LEMMA RecoupStep ==
    ASSUME RInv, \A f \in Files : lines[f] <= lines'[f] /\ lines'[f] \in Nat,
           \A f \in Files : Regains(f),
           \A f \in Files : \/ stored'[f] = stored[f]
                            \/ stored'[f] <= lines'[f] /\ 1..stored'[f] \subseteq Recoup(f)',
           \A w \in DOMAIN watchers' :
              \/ SameReading(w)
              \/ Within(lines', watchers'[w]) /\ Honest(watchers'[w], Recoups')
    PROVE  StoredRecouped' /\ ReadsRecouped'
<1>1. /\ stored \in [Files -> Nat] /\ lines \in [Files -> Nat]
      /\ \A w \in DOMAIN watchers : watchers[w] \in Watcher
  BY DEF RInv, Inv, TypeOK
<1>2. ASSUME NEW f \in Files, NEW k \in Nat, k <= lines[f], 1..k \subseteq Recoup(f)
      PROVE  1..k \subseteq Recoup(f)'
  <2>1. lines[f] \in Nat
    BY <1>1
  <2>2. 1..k \subseteq 1..lines[f]
    BY <1>2, <2>1
  <2>3. Recoup(f) \subseteq Recoup(f)' \/ 1..lines[f] \subseteq Recoup(f)'
    BY DEF Regains
  <2> QED
    BY <1>2, <2>2, <2>3
<1>3. StoredRecouped'
  <2> SUFFICES ASSUME NEW f \in Files
               PROVE  stored'[f] <= lines'[f] /\ 1..stored'[f] \subseteq Recoup(f)'
    BY DEF StoredRecouped
  <2>1. stored[f] \in Nat /\ lines[f] \in Nat /\ lines'[f] \in Nat /\ lines[f] <= lines'[f]
    BY <1>1
  <2>2. stored[f] <= lines[f] /\ 1..stored[f] \subseteq Recoup(f)
    BY DEF RInv, StoredRecouped
  <2>3. stored[f] <= lines'[f] /\ 1..stored[f] \subseteq Recoup(f)'
    BY <1>2, <2>1, <2>2
  <2> QED
    BY <2>3
<1>4. ASSUME NEW w \in DOMAIN watchers', SameReading(w)
      PROVE  Within(lines', watchers'[w]) /\ Honest(watchers'[w], Recoups')
  <2>1. /\ watchers[w] \in Watcher /\ w \in DOMAIN watchers
        /\ watchers'[w].offsets = watchers[w].offsets /\ watchers'[w].job = watchers[w].job
    BY <1>1, <1>4 DEF SameReading
  <2>2. Within(lines, watchers[w]) /\ Honest(watchers[w], Recoups)
    BY <2>1 DEF RInv, ReadsRecouped
  <2>3. \A f \in Files : watchers[w].offsets[f] \in Nat
    BY <2>1 DEF Watcher
  <2>4. \A side \in Sides : watchers[w].job[side] # Idle =>
           /\ watchers[w].job[side].file \in Files /\ watchers[w].job[side].from \in Nat
           /\ watchers[w].job[side].size \in Nat
    BY <2>1 DEF Watcher, Job
  <2>5. Within(lines', watchers[w])
    BY <1>1, <2>2, <2>3, <2>4 DEF Within
  <2>6. \A f \in Files : 1..watchers[w].offsets[f] \subseteq Recoups'[f]
    BY <1>2, <2>2, <2>3 DEF Honest, Within, Recoups
  <2>7. ASSUME NEW side \in Sides, watchers[w].job[side] # Idle
        PROVE  /\ 1..watchers[w].job[side].from \subseteq Recoups'[watchers[w].job[side].file]
               /\ watchers[w].job[side].at = "read" =>
                    watchers[w].job[side].from < watchers[w].job[side].size
    <3> DEFINE job == watchers[w].job[side]
    <3>1. /\ job.file \in Files /\ job.from \in Nat /\ job.from <= lines[job.file]
          /\ 1..job.from \subseteq Recoup(job.file)
          /\ job.at = "read" => job.from < job.size
      BY <2>2, <2>4, <2>7 DEF Honest, Within, Recoups
    <3> HIDE DEF job
    <3>2. PICK g \in Files : g = job.file
      BY <3>1
    <3>3. 1..job.from \subseteq Recoups'[job.file]
      <4>1. 1..job.from \subseteq Recoup(g)'
        BY <1>2, <3>1, <3>2
      <4> QED
        BY <3>2, <4>1 DEF Recoups
    <3> QED
      BY <3>1, <3>3 DEF job
  <2> QED
    BY <2>1, <2>5, <2>6, <2>7 DEF Within, Honest
<1> QED
  BY <1>3, <1>4 DEF ReadsRecouped

(* The reads and what is queued stay.                                      *)
Carries(W, V) ==
    /\ V.offsets = W.offsets /\ V.job = W.job
    /\ \A i \in DOMAIN W.chain : \E j \in DOMAIN V.chain : V.chain[j] = W.chain[i]

LEMMA CarriedPromise ==
    ASSUME NEW L, NEW M, NEW W, NEW V, NEW f, NEW n \in Nat, Promises(L, W, f, n),
           L[f] \in Nat, M[f] \in Nat, L[f] <= M[f],
           W.job \in [Sides -> Job \cup {Idle}], Carries(W, V)
    PROVE  Promises(M, V, f, n)
<1>1. CASE n \in 1..L[f] /\ \E i \in DOMAIN W.chain : W.chain[i] = [kind |-> "reread", file |-> f]
  BY <1>1 DEF Promises, Carries
<1>2. ASSUME NEW side \in Sides, Covers(L, W.job[side], f, n)
      PROVE  Covers(M, V.job[side], f, n)
  BY <1>2 DEF Covers, Carries, Job
<1> QED
  BY <1>1, <1>2 DEF Promises

(* Steps that neither read nor hand over.                                  *)
LEMMA CarryStep ==
    ASSUME RInv, Inv', UNCHANGED <<stored, rebuilt>>,
           \A f \in Files : lines[f] <= lines'[f],
           \A f \in Files : Held(f) \subseteq Held(f)',
           \A w \in DOMAIN watchers : w \in DOMAIN watchers' /\ Carries(watchers[w], watchers'[w]),
           \A w \in DOMAIN watchers' \ DOMAIN watchers : watchers'[w] = NewWatcher(stored)
    PROVE  RInv'
<1>1. /\ lines \in [Files -> Nat] /\ lines' \in [Files -> Nat] /\ stored \in [Files -> Nat]
      /\ \A w \in DOMAIN watchers : watchers[w].job \in [Sides -> Job \cup {Idle}]
  <2>1. lines' \in [Files -> 0..MaxLines] /\ lines \in [Files -> 0..MaxLines]
    BY DEF RInv, Inv, TypeOK
  <2>2. 0..MaxLines \subseteq Nat
    BY BoundsAssumption
  <2>3. stored \in [Files -> Nat]
    BY DEF RInv, Inv, TypeOK
  <2>4. \A w \in DOMAIN watchers : watchers[w].job \in [Sides -> Job \cup {Idle}]
    BY WatcherParts DEF RInv, Inv
  <2> QED
    BY <2>1, <2>2, <2>3, <2>4
<1>2. ASSUME NEW f \in Files PROVE Recoup(f) \subseteq Recoup(f)'
  <2>1. CASE ~(rebuilt[f] > 0)
    BY <2>1 DEF Recoup, Inv, TypeOK
  <2>2. CASE rebuilt[f] > 0
    <3>1. ASSUME NEW n \in Nat, NEW w \in DOMAIN watchers, Promises(lines, watchers[w], f, n)
          PROVE  w \in DOMAIN watchers' /\ Promises(lines', watchers'[w], f, n)
      <4>1. lines[f] \in Nat /\ lines'[f] \in Nat /\ lines[f] <= lines'[f]
        BY <1>1
      <4>2. w \in DOMAIN watchers' /\ Carries(watchers[w], watchers'[w])
        OBVIOUS
      <4> QED
        BY <1>1, <3>1, <4>1, <4>2, CarriedPromise
    <3>2. Held(f) \subseteq Held(f)'
      OBVIOUS
    <3> QED
      BY <2>2, <3>1, <3>2 DEF Recoup
  <2> QED
    BY <2>1, <2>2
<1>3. ASSUME NEW w \in DOMAIN watchers' \ DOMAIN watchers
      PROVE  Within(lines', watchers'[w]) /\ Honest(watchers'[w], Recoups')
  <2>1. /\ watchers'[w].offsets = stored /\ \A side \in Sides : watchers'[w].job[side] = Idle
    BY DEF NewWatcher
  <2>2. \A f \in Files : stored[f] <= lines'[f] /\ 1..stored[f] \subseteq Recoup(f)'
    <3>1. \A f \in Files : stored[f] <= lines[f] /\ 1..stored[f] \subseteq Recoup(f)
      BY DEF RInv, StoredRecouped
    <3>2. \A f \in Files : stored[f] \in Nat /\ lines[f] \in Nat /\ lines'[f] \in Nat
      BY <1>1
    <3> QED
      BY <1>2, <3>1, <3>2
  <2> QED
    BY <2>1, <2>2 DEF Within, Honest, Recoups
<1>4. \A w \in DOMAIN watchers : SameReading(w)
  BY DEF SameReading, Carries
<1>5. \A f \in Files : Regains(f)
  BY <1>2 DEF Regains
<1>6. StoredRecouped' /\ ReadsRecouped'
  BY <1>1, <1>3, <1>4, <1>5, RecoupStep
<1> QED
  BY <1>6 DEF RInv

(* A step that changes one watcher, and neither reads nor hands over.      *)
LEMMA CarryOne ==
    ASSUME RInv, Inv', UNCHANGED <<stored, rebuilt, held, interrupted, handOver>>,
           \A f \in Files : lines[f] <= lines'[f],
           NEW v \in DOMAIN watchers, NEW W, watchers' = [watchers EXCEPT ![v] = W],
           Carries(watchers[v], W)
    PROVE  RInv'
<1>1. DOMAIN watchers' = DOMAIN watchers
  OBVIOUS
<1>2. \A w \in DOMAIN watchers : Carries(watchers[w], watchers'[w])
  <2>1. \A w \in DOMAIN watchers : Carries(watchers[w], watchers[w])
    BY DEF Carries
  <2> QED
    BY <2>1
<1>3. \A f \in Files : Held(f) \subseteq Held(f)'
  BY DEF Held, Outstanding
<1> QED
  BY <1>1, <1>2, <1>3, CarryStep

LEMMA LinesStay ==
    ASSUME RInv, UNCHANGED lines
    PROVE  \A f \in Files : lines[f] <= lines'[f]
<1>1. lines \in [Files -> 0..MaxLines]
  BY DEF RInv, Inv, TypeOK
<1> QED
  BY <1>1, BoundsAssumption

LEMMA WriteRInv ==
    ASSUME RInv, Inv', NEW f \in Files, Write(f)
    PROVE  RInv'
<1> DEFINE Heard(w) == IF watchers[w].phase = "watching"
                         THEN [watchers[w] EXCEPT !.notice = @ \cup {f}] ELSE watchers[w]
<1>1. /\ watchers' = [w \in DOMAIN watchers |-> Heard(w)]
      /\ UNCHANGED <<stored, rebuilt, held, interrupted, handOver>>
  BY DEF Write, history
<1>2. \A g \in Files : lines[g] <= lines'[g]
  <2>1. lines \in [Files -> 0..MaxLines]
    BY DEF RInv, Inv, TypeOK
  <2> QED
    BY <2>1, BoundsAssumption DEF Write
<1>3. \A w \in DOMAIN watchers : Carries(watchers[w], Heard(w))
  <2>1. \A w \in DOMAIN watchers : watchers[w] \in Watcher
    BY WatcherParts DEF RInv, Inv
  <2> QED
    BY <2>1 DEF Carries, Watcher
<1>4. \A g \in Files : Held(g) \subseteq Held(g)'
  BY <1>1 DEF Held, Outstanding
<1> HIDE DEF Heard
<1> QED
  BY <1>1, <1>2, <1>3, <1>4, CarryStep

LEMMA AppendKeeps ==
    ASSUME NEW s \in Seq(Tasks), NEW task
    PROVE  \A i \in DOMAIN s : \E j \in DOMAIN Append(s, task) : Append(s, task)[j] = s[i]
<1>1. \A i \in DOMAIN s : i \in DOMAIN Append(s, task) /\ Append(s, task)[i] = s[i]
  OBVIOUS
<1> QED
  BY <1>1

LEMMA WatchRInv ==
    ASSUME RInv, Inv', NEW w \in DOMAIN watchers, NEW f \in Files,
           LoseNotice(w, f) \/ Scan(w, f) \/ Report(w, f) \/ WalkDefer(w, f)
    PROVE  RInv'
<1>1. watchers[w] \in Watcher /\ watchers[w].chain \in Seq(Tasks)
  BY WatcherParts DEF RInv, Inv
<1>2. UNCHANGED <<lines, stored, rebuilt, held, interrupted, handOver>>
  BY DEF LoseNotice, Scan, Report, WalkDefer, disk, history
<1>3. \E W : watchers' = [watchers EXCEPT ![w] = W] /\ Carries(watchers[w], W)
  <2>1. CASE LoseNotice(w, f)
    <3> DEFINE W == [watchers[w] EXCEPT !.notice = @ \ {f}]
    <3>1. Carries(watchers[w], W)
      BY <1>1 DEF Carries, Watcher
    <3>2. watchers' = [watchers EXCEPT ![w] = W]
      BY <2>1 DEF LoseNotice
    <3> QED
      BY <3>1, <3>2
  <2>2. CASE WalkDefer(w, f)
    <3> DEFINE W == [watchers[w] EXCEPT !.todo = @ \ {f}, !.deferred = @ \cup ({f} \ (ancient \cup summarized))]
    <3>1. Carries(watchers[w], W)
      BY <1>1 DEF Carries, Watcher
    <3>2. watchers' = [watchers EXCEPT ![w] = W]
      BY <2>2, <1>1 DEF WalkDefer, Watcher
    <3> QED
      BY <3>1, <3>2
  <2>3. CASE Scan(w, f)
    <3> DEFINE task == [kind |-> "tail", file |-> f]
               W == [watchers[w] EXCEPT !.chain = Append(@, task)]
    <3>1. Carries(watchers[w], W)
      <4>1. W.offsets = watchers[w].offsets /\ W.job = watchers[w].job
            /\ W.chain = Append(watchers[w].chain, task)
        BY <1>1 DEF Watcher
      <4> HIDE DEF W, task
      <4> QED
        BY <1>1, <4>1, AppendKeeps DEF Carries
    <3>2. watchers' = [watchers EXCEPT ![w] = W]
      BY <2>3 DEF Scan
    <3> QED
      BY <3>1, <3>2
  <2>4. CASE Report(w, f)
    <3> DEFINE task == [kind |-> "tail", file |-> f]
               W == [watchers[w] EXCEPT !.notice = @ \ {f}, !.chain = Append(@, task)]
    <3>1. Carries(watchers[w], W)
      <4>1. W.offsets = watchers[w].offsets /\ W.job = watchers[w].job
            /\ W.chain = Append(watchers[w].chain, task)
        BY <1>1 DEF Watcher
      <4> HIDE DEF W, task
      <4> QED
        BY <1>1, <4>1, AppendKeeps DEF Carries
    <3>2. watchers' = [watchers EXCEPT ![w] = W]
      BY <2>4, <1>1 DEF Report, Watcher
    <3> QED
      BY <3>1, <3>2
  <2> QED
    BY <2>1, <2>2, <2>3, <2>4
<1>4. PICK W : watchers' = [watchers EXCEPT ![w] = W] /\ Carries(watchers[w], W)
  BY <1>3
<1>5. \A g \in Files : lines[g] <= lines'[g]
  BY <1>2, LinesStay
<1> QED
  BY <1>2, <1>4, <1>5, CarryOne

(* Watchers that only change phase, notices or deferred files.             *)
LEMMA SameWorkStep ==
    ASSUME RInv, Inv', UNCHANGED <<lines, stored, rebuilt>>, DOMAIN watchers' = DOMAIN watchers,
           \A w \in DOMAIN watchers : /\ watchers'[w].offsets = watchers[w].offsets
                                      /\ watchers'[w].job = watchers[w].job
                                      /\ watchers'[w].chain = watchers[w].chain,
           \A f \in Files : Held(f) \subseteq Held(f)'
    PROVE  RInv'
<1>1. \A w \in DOMAIN watchers : w \in DOMAIN watchers' /\ Carries(watchers[w], watchers'[w])
  BY DEF Carries
<1>2. \A f \in Files : lines[f] <= lines'[f]
  BY LinesStay
<1> QED
  BY <1>1, <1>2, CarryStep

LEMMA HeldStays ==
    ASSUME UNCHANGED <<held, interrupted, handOver>>
    PROVE  \A f \in Files : Held(f) \subseteq Held(f)'
  BY DEF Held, Outstanding

LEMMA SettingRInv ==
    ASSUME RInv, Inv', SetRoots \/ (\E w \in DOMAIN watchers : Arm(w)) \/ (\E f \in Files : IndexOne(f))
                       \/ UNCHANGED vars
    PROVE  RInv'
<1>1. /\ UNCHANGED <<lines, stored, rebuilt>> /\ UNCHANGED <<held, interrupted, handOver>>
  BY DEF SetRoots, Arm, IndexOne, vars, disk, history
<1>2. watchers \in Seq(Watcher) /\ \A w \in DOMAIN watchers : watchers[w] \in Watcher
  BY DEF RInv, Inv, TypeOK
<1>3. /\ DOMAIN watchers' = DOMAIN watchers
      /\ \A w \in DOMAIN watchers : /\ watchers'[w].offsets = watchers[w].offsets
                                    /\ watchers'[w].job = watchers[w].job
                                    /\ watchers'[w].chain = watchers[w].chain
  <2>1. CASE SetRoots
    <3>1. watchers' = watchers
          \/ watchers' = [watchers EXCEPT ![Current].phase = "stopped", ![Current].notice = {}]
      BY <2>1 DEF SetRoots
    <3>2. CASE watchers' = [watchers EXCEPT ![Current].phase = "stopped", ![Current].notice = {}]
      BY <1>2, <3>2 DEF Watcher
    <3> QED
      BY <3>1, <3>2
  <2>2. ASSUME NEW w \in DOMAIN watchers, Arm(w)
        PROVE  /\ DOMAIN watchers' = DOMAIN watchers
               /\ \A v \in DOMAIN watchers : /\ watchers'[v].offsets = watchers[v].offsets
                                             /\ watchers'[v].job = watchers[v].job
                                             /\ watchers'[v].chain = watchers[v].chain
    <3>1. watchers' = [watchers EXCEPT ![w].phase = "watching", ![Current].deferred = {}]
      BY <2>2 DEF Arm
    <3> QED
      BY <1>2, <3>1 DEF Watcher
  <2>3. ASSUME UNCHANGED vars \/ \E f \in Files : IndexOne(f)
        PROVE  UNCHANGED watchers
    BY <2>3 DEF IndexOne, vars
  <2> QED
    BY <2>1, <2>2, <2>3
<1> QED
  BY <1>1, <1>3, HeldStays, SameWorkStep

LEMMA SwappedRInv ==
    ASSUME RInv, Inv', NEW i \in DOMAIN waiting, Swapped(i)
    PROVE  RInv'
<1> DEFINE New == NewWatcher(stored)
<1>1. /\ UNCHANGED <<lines, stored, rebuilt>> /\ UNCHANGED <<held, interrupted, handOver>>
      /\ watchers' = Append(watchers, New)
  BY DEF Swapped, disk, history
<1>2. watchers \in Seq(Watcher) /\ watchers' \in Seq(Watcher)
  BY DEF RInv, Inv, TypeOK
<1> HIDE DEF New
<1>3. /\ \A w \in DOMAIN watchers : w \in DOMAIN watchers' /\ watchers'[w] = watchers[w]
      /\ \A w \in DOMAIN watchers' \ DOMAIN watchers : watchers'[w] = New
  BY <1>1, <1>2
<1>4. \A w \in DOMAIN watchers : w \in DOMAIN watchers' /\ Carries(watchers[w], watchers'[w])
  BY <1>3 DEF Carries
<1>5. \A f \in Files : lines[f] <= lines'[f]
  BY <1>1, LinesStay
<1>6. \A f \in Files : Held(f) \subseteq Held(f)'
  BY <1>1, HeldStays
<1> QED
  BY <1>1, <1>3, <1>4, <1>5, <1>6, CarryStep DEF New

(* A life begins with every offset at 0.                                   *)
LEMMA BootRInv ==
    ASSUME RInv, Inv', Boot
    PROVE  RInv'
<1>1. /\ \A f \in Files : stored'[f] = 0 /\ 1..stored'[f] = {}
      /\ watchers' = <<NewWatcher(stored')>> /\ lines' = lines
  BY DEF Boot
<1>2. \A f \in Files : lines[f] \in Nat /\ 0 <= lines[f]
  BY BoundsAssumption DEF RInv, Inv, TypeOK
<1>3. StoredRecouped'
  BY <1>1, <1>2 DEF StoredRecouped
<1>4. /\ \A f \in Files : NewWatcher(stored').offsets[f] = 0
      /\ \A side \in Sides : NewWatcher(stored').job[side] = Idle
  BY <1>1 DEF NewWatcher
<1>5. Within(lines', NewWatcher(stored')) /\ Honest(NewWatcher(stored'), Recoups')
  BY <1>1, <1>2, <1>4 DEF Within, Honest
<1>6. ReadsRecouped'
  BY <1>1, <1>5 DEF ReadsRecouped
<1> QED
  BY <1>3, <1>6 DEF RInv

LEMMA HandOverRInv ==
    ASSUME RInv, Inv', HandOver
    PROVE  RInv'
<1> DEFINE f == handOver.file
           n == handOver.next
<1>1. /\ UNCHANGED <<lines, stored, rebuilt, watchers, interrupted>>
      /\ held' = [held EXCEPT ![f] = @ \cup {n}]
      /\ handOver' = IF n = handOver.upTo THEN Nothing ELSE [handOver EXCEPT !.next = n + 1]
      /\ handOver # Nothing
  BY DEF HandOver, Quiet, disk
<1>2. handOver \in HandOvers /\ f \in Files /\ n \in Nat /\ handOver.upTo \in Nat
      /\ held \in [Files -> SUBSET Nat]
  <2>1. handOver \in HandOvers /\ held \in [Files -> SUBSET Nat]
    BY <1>1 DEF RInv, Inv, TypeOK
  <2> QED
    BY <2>1 DEF HandOvers
<1>3. ASSUME NEW g \in Files, NEW i \in Outstanding(g) PROVE i \in Held(g)'
  <2>1. g = f /\ i \in n..handOver.upTo
    BY <1>1, <1>3 DEF Outstanding
  <2>2. CASE i = n
    BY <1>1, <1>2, <2>1, <2>2 DEF Held
  <2>3. CASE i # n
    <3>1. n # handOver.upTo /\ i \in (n + 1)..handOver.upTo
      BY <1>2, <2>1, <2>3
    <3>2. handOver' = [handOver EXCEPT !.next = n + 1]
      BY <1>1, <3>1
    <3>3. /\ handOver'.file = f /\ handOver'.next = n + 1 /\ handOver'.upTo = handOver.upTo
          /\ handOver'.watcher # 0
      BY <1>2, <3>2 DEF HandOvers
    <3>4. handOver' # Nothing
      BY <3>3 DEF Nothing
    <3> HIDE DEF f, n
    <3> QED
      BY <2>1, <3>1, <3>3, <3>4 DEF Held, Outstanding
  <2> QED
    BY <2>2, <2>3
<1>4. \A g \in Files : Held(g) \subseteq Held(g)'
  <2>1. \A g \in Files : held[g] \subseteq held'[g] /\ interrupted[g] = interrupted'[g]
    BY <1>1, <1>2
  <2> QED
    BY <1>3, <2>1 DEF Held
<1> QED
  BY <1>1, <1>4, SameWorkStep

LEMMA CutOffRInv ==
    ASSUME RInv, Inv', ChainThrows \/ SwapThrows
    PROVE  RInv'
<1>1. UNCHANGED <<lines, stored, rebuilt, held>> /\ handOver' = Nothing /\ interrupted' = CutOff
  BY DEF ChainThrows, SwapThrows, disk
<1>2. \A f \in Files : Held(f) \subseteq Held(f)'
  BY <1>1 DEF Held, CutOff, Outstanding
<1>3. watchers \in Seq(Watcher) /\ \A w \in DOMAIN watchers : watchers[w] \in Watcher
  BY DEF RInv, Inv, TypeOK
<1>4. watchers' = watchers \/ watchers' = [watchers EXCEPT ![handOver.watcher].phase = "dead"]
  BY DEF ChainThrows, SwapThrows
<1>5. /\ DOMAIN watchers' = DOMAIN watchers
      /\ \A w \in DOMAIN watchers : /\ watchers'[w].offsets = watchers[w].offsets
                                    /\ watchers'[w].job = watchers[w].job
                                    /\ watchers'[w].chain = watchers[w].chain
  <2>1. CASE watchers' = [watchers EXCEPT ![handOver.watcher].phase = "dead"]
    <3>1. DOMAIN watchers' = DOMAIN watchers
      BY <2>1
    <3>2. ASSUME NEW w \in DOMAIN watchers
          PROVE  watchers'[w] = watchers[w] \/ watchers'[w] = [watchers[w] EXCEPT !.phase = "dead"]
      BY <2>1
    <3> QED
      BY <1>3, <3>1, <3>2 DEF Watcher
  <2> QED
    BY <1>4, <2>1
<1> QED
  BY <1>1, <1>2, <1>5, SameWorkStep

(* A step of one read: what watcher v promised, it still promises or has   *)
(* handed over, and its offsets and reads stand on what they stood on.     *)
Keeps(W, V) ==
    \A f \in Files, n \in Nat :
       Promises(lines, W, f, n) => Promises(lines, V, f, n) \/ n \in Held(f)'
LEMMA ReadingStep ==
    ASSUME RInv, Inv', UNCHANGED <<lines, rebuilt>>,
           NEW v \in DOMAIN watchers, NEW W \in Watcher, watchers' = [watchers EXCEPT ![v] = W],
           \A f \in Files : Held(f) \subseteq Held(f)',
           Keeps(watchers[v], W),
           \A f \in Files : stored'[f] <= lines[f] /\ 1..stored'[f] \subseteq Recoup(f),
           Within(lines, W), Honest(W, Recoups)
    PROVE  RInv'
<1>1. DOMAIN watchers' = DOMAIN watchers /\ watchers'[v] = W
      /\ \A w \in DOMAIN watchers \ {v} : watchers'[w] = watchers[w]
  OBVIOUS
<1>2. lines' = lines /\ \A f \in Files : lines[f] \in Nat
  <2>1. lines \in [Files -> 0..MaxLines]
    BY DEF RInv, Inv, TypeOK
  <2> QED
    BY <2>1, BoundsAssumption
<1>3. ASSUME NEW f \in Files PROVE Recoup(f) \subseteq Recoup(f)'
  <2>1. CASE ~(rebuilt[f] > 0)
    BY <2>1 DEF Recoup
  <2>2. CASE rebuilt[f] > 0
    <3>1. ASSUME NEW n \in Nat, NEW w \in DOMAIN watchers, Promises(lines, watchers[w], f, n)
          PROVE  n \in Held(f)' \/ \E u \in DOMAIN watchers' : Promises(lines', watchers'[u], f, n)
      <4>1. CASE w = v
        <5>1. Promises(lines, W, f, n) \/ n \in Held(f)'
          BY <3>1, <4>1 DEF Keeps
        <5> QED
          BY <1>1, <1>2, <5>1
      <4>2. CASE w # v
        BY <1>1, <1>2, <3>1, <4>2
      <4> QED
        BY <4>1, <4>2
    <3>2. Held(f) \subseteq Held(f)'
      OBVIOUS
    <3> QED
      BY <2>2, <3>1, <3>2 DEF Recoup
  <2> QED
    BY <2>1, <2>2
<1>4. \A f \in Files : Recoups[f] \subseteq Recoups'[f]
  BY <1>3 DEF Recoups
<1>5. Within(lines', W) /\ Honest(W, Recoups')
  BY <1>2, <1>4, HonestGrows
<1>6. \A w \in DOMAIN watchers' : SameReading(w) \/ (Within(lines', watchers'[w]) /\ Honest(watchers'[w], Recoups'))
  BY <1>1, <1>5 DEF SameReading
<1>7. \A f \in Files : stored'[f] <= lines'[f] /\ 1..stored'[f] \subseteq Recoup(f)'
  BY <1>2, <1>3
<1>8. \A f \in Files : lines[f] <= lines'[f] /\ lines'[f] \in Nat
  BY <1>2
<1>9. \A f \in Files : Regains(f)
  BY <1>3 DEF Regains
<1> QED
  BY <1>6, <1>7, <1>8, <1>9, RecoupStep DEF RInv

(* What RInv says of one watcher.                                          *)
LEMMA ReadingParts ==
    ASSUME RInv, NEW w \in DOMAIN watchers
    PROVE  /\ Within(lines, watchers[w]) /\ Honest(watchers[w], Recoups)
           /\ watchers[w] \in Watcher /\ watchers[w].offsets \in [Files -> Nat]
           /\ watchers[w].chain \in Seq(Tasks) /\ watchers[w].job \in [Sides -> Job \cup {Idle}]
           /\ \A f \in Files : /\ watchers[w].offsets[f] <= lines[f] /\ lines[f] \in Nat
                               /\ 1..watchers[w].offsets[f] \subseteq Recoup(f)
<1>1. /\ watchers[w] \in Watcher /\ watchers[w].offsets \in [Files -> Nat]
      /\ watchers[w].chain \in Seq(Tasks) /\ watchers[w].job \in [Sides -> Job \cup {Idle}]
  BY WatcherParts DEF RInv, Inv
<1>2. Within(lines, watchers[w]) /\ Honest(watchers[w], Recoups)
  BY DEF RInv, ReadsRecouped
<1>3. \A f \in Files : lines[f] \in Nat
  <2>1. lines \in [Files -> 0..MaxLines]
    BY DEF RInv, Inv, TypeOK
  <2> QED
    BY <2>1, BoundsAssumption
<1> QED
  BY <1>1, <1>2, <1>3 DEF Within, Honest, Recoups

(* W is V with a read of f opened on an idle side, at V's offset or at the *)
(* start; a reread that left the chain is that read.                       *)
Opens(V, W, side, f, from) ==
    /\ V.job[side] = Idle /\ W.job = [V.job EXCEPT ![side] = Opened(f, from)]
    /\ from = 0 \/ from = V.offsets[f]
    /\ W.offsets = [V.offsets EXCEPT ![f] = from]
    /\ \A i \in DOMAIN V.chain :
         \/ \E j \in DOMAIN W.chain : W.chain[j] = V.chain[i]
         \/ V.chain[i] = [kind |-> "tail", file |-> f]
         \/ V.chain[i] = [kind |-> "reread", file |-> f] /\ from = 0

(* A read that is opened at an offset of its watcher, or at the start.     *)
LEMMA OpenedStep ==
    ASSUME RInv, Inv', UNCHANGED <<lines, rebuilt, held, interrupted, handOver>>,
           NEW v \in DOMAIN watchers, NEW W \in Watcher, watchers' = [watchers EXCEPT ![v] = W],
           NEW side \in Sides, NEW f \in Files, NEW from \in Nat,
           Opens(watchers[v], W, side, f, from),
           stored' = stored \/ stored' = [stored EXCEPT ![f] = 0]
    PROVE  RInv'
<1>1. /\ Within(lines, watchers[v]) /\ Honest(watchers[v], Recoups)
      /\ watchers[v].offsets \in [Files -> Nat] /\ watchers[v].chain \in Seq(Tasks)
      /\ watchers[v].job \in [Sides -> Job \cup {Idle}]
      /\ \A g \in Files : /\ watchers[v].offsets[g] <= lines[g] /\ lines[g] \in Nat
                          /\ 1..watchers[v].offsets[g] \subseteq Recoup(g)
  BY ReadingParts
<1>0. /\ watchers[v].job[side] = Idle
      /\ W.job = [watchers[v].job EXCEPT ![side] = Opened(f, from)]
      /\ from = 0 \/ from = watchers[v].offsets[f]
      /\ W.offsets = [watchers[v].offsets EXCEPT ![f] = from]
  BY DEF Opens
<1>9. \A i \in DOMAIN watchers[v].chain :
        \/ \E j \in DOMAIN W.chain : W.chain[j] = watchers[v].chain[i]
        \/ watchers[v].chain[i] = [kind |-> "tail", file |-> f]
        \/ watchers[v].chain[i] = [kind |-> "reread", file |-> f] /\ from = 0
  BY DEF Opens
<1>2. from <= lines[f] /\ 1..from \subseteq Recoup(f)
  BY <1>0, <1>1
<1>3. \A s \in Sides : W.job[s] = watchers[v].job[s] \/ (s = side /\ W.job[s] = Opened(f, from))
  BY <1>0, <1>1
<1>4. Within(lines, W)
  <2>1. \A g \in Files : W.offsets[g] <= lines[g]
    BY <1>0, <1>1, <1>2
  <2>2. ASSUME NEW s \in Sides, W.job[s] # Idle
        PROVE  W.job[s].from <= lines[W.job[s].file] /\ W.job[s].size <= lines[W.job[s].file]
    BY <1>1, <1>2, <1>3, <2>2 DEF Within, Opened
  <2> QED
    BY <2>1, <2>2 DEF Within
<1>5. Honest(W, Recoups)
  <2>1. \A g \in Files : 1..W.offsets[g] \subseteq Recoups[g]
    BY <1>0, <1>1, <1>2 DEF Recoups
  <2>2. ASSUME NEW s \in Sides, W.job[s] # Idle
        PROVE  /\ 1..W.job[s].from \subseteq Recoups[W.job[s].file]
               /\ W.job[s].at = "read" => W.job[s].from < W.job[s].size
    <3>1. CASE W.job[s] = watchers[v].job[s]
      BY <1>1, <2>2, <3>1 DEF Honest
    <3>2. CASE W.job[s] = Opened(f, from)
      BY <1>2, <3>2 DEF Opened, Recoups
    <3> QED
      BY <1>3, <3>1, <3>2
  <2> QED
    BY <2>1, <2>2 DEF Honest
<1>6. Keeps(watchers[v], W)
  <2> SUFFICES ASSUME NEW g \in Files, NEW n \in Nat, Promises(lines, watchers[v], g, n)
               PROVE  Promises(lines, W, g, n)
    BY DEF Keeps
  <2>1. ASSUME NEW s \in Sides, Covers(lines, watchers[v].job[s], g, n)
        PROVE  Promises(lines, W, g, n)
    <3>1. s # side
      BY <1>0, <2>1 DEF Covers
    <3>2. W.job[s] = watchers[v].job[s]
      BY <1>0, <1>1, <3>1
    <3> QED
      BY <2>1, <3>2 DEF Promises
  <2>2. ASSUME n \in 1..lines[g], NEW i \in DOMAIN watchers[v].chain,
               watchers[v].chain[i] = [kind |-> "reread", file |-> g]
        PROVE  Promises(lines, W, g, n)
    <3>1. CASE \E j \in DOMAIN W.chain : W.chain[j] = watchers[v].chain[i]
      BY <2>2, <3>1 DEF Promises
    <3>2. CASE watchers[v].chain[i] = [kind |-> "reread", file |-> f] /\ from = 0
      <4>1. g = f
        BY <2>2, <3>2
      <4>2. W.job[side] = Opened(f, 0) /\ Opened(f, 0) # Idle
        BY <1>0, <1>1, <3>2 DEF Opened, Idle
      <4>3. Covers(lines, W.job[side], g, n)
        BY <1>1, <2>2, <4>1, <4>2 DEF Covers, Opened
      <4> QED
        BY <4>3 DEF Promises
    <3>3. ASSUME watchers[v].chain[i] = [kind |-> "tail", file |-> f] PROVE FALSE
      <4>1. [kind |-> "tail", file |-> f].kind = "tail" /\ [kind |-> "reread", file |-> g].kind = "reread"
        OBVIOUS
      <4> QED
        BY <2>2, <3>3, <4>1
    <3> QED
      BY <1>9, <3>1, <3>2, <3>3
  <2> QED
    BY <2>1, <2>2 DEF Promises
<1>7. \A g \in Files : stored'[g] <= lines[g] /\ 1..stored'[g] \subseteq Recoup(g)
  <2>1. stored \in [Files -> Nat] /\ \A g \in Files : stored[g] <= lines[g] /\ 1..stored[g] \subseteq Recoup(g)
    BY DEF RInv, Inv, TypeOK, StoredRecouped
  <2>2. ASSUME NEW g \in Files
        PROVE  stored'[g] <= lines[g] /\ 1..stored'[g] \subseteq Recoup(g)
    <3>1. stored'[g] = stored[g] \/ stored'[g] = 0
      BY <2>1
    <3>2. 0 <= lines[g] /\ 1..0 = {}
      BY <1>1
    <3> QED
      BY <2>1, <3>1, <3>2
  <2> QED
    BY <2>2
<1>8. \A g \in Files : Held(g) \subseteq Held(g)'
  BY HeldStays
<1> QED
  BY <1>4, <1>5, <1>6, <1>7, <1>8, ReadingStep

LEMMA WalkReadRInv ==
    ASSUME RInv, Inv', NEW w \in DOMAIN watchers, NEW f \in Files, WalkRead(w, f)
    PROVE  RInv'
<1> DEFINE from == watchers[w].offsets[f]
           W == [watchers[w] EXCEPT !.todo = @ \ {f}, !.job["walk"] = Opened(f, from)]
<1>1. watchers[w] \in Watcher /\ watchers[w].offsets \in [Files -> Nat] /\ from \in Nat
      /\ watchers[w].chain \in Seq(Tasks) /\ watchers[w].job \in [Sides -> Job \cup {Idle}]
  BY ReadingParts
<1>2. /\ W \in Watcher /\ W.offsets = watchers[w].offsets /\ W.chain = watchers[w].chain
      /\ W.job = [watchers[w].job EXCEPT !["walk"] = Opened(f, from)]
  <2>1. Opened(f, from) \in Job
    BY <1>1 DEF Opened, Job
  <2> HIDE DEF from
  <2> QED
    BY <1>1, <2>1 DEF Watcher, Sides
<1>3. watchers' = [watchers EXCEPT ![w] = W]
  BY <1>1 DEF WalkRead, Watcher
<1>4. /\ watchers[w].job["walk"] = Idle /\ "walk" \in Sides
      /\ UNCHANGED <<lines, rebuilt, held, interrupted, handOver, stored>>
  BY DEF WalkRead, disk, history, Sides
<1> HIDE DEF W
<1>5. W.offsets = [watchers[w].offsets EXCEPT ![f] = from]
  <2>1. \A g \in Files : watchers[w].offsets[g] = [watchers[w].offsets EXCEPT ![f] = from][g]
    BY <1>1
  <2> QED
    BY <1>1, <1>2, <2>1
<1>6. \A i \in DOMAIN watchers[w].chain : \E j \in DOMAIN W.chain : W.chain[j] = watchers[w].chain[i]
  BY <1>2
<1> HIDE DEF from
<1>7. from = watchers[w].offsets[f]
  BY DEF from
<1>8. Opens(watchers[w], W, "walk", f, from)
  BY <1>2, <1>4, <1>5, <1>6, <1>7 DEF Opens
<1>9. W \in Watcher /\ from \in Nat
  BY <1>1, <1>2
<1>10. UNCHANGED <<lines, rebuilt, held, interrupted, handOver>> /\ stored' = stored
  BY <1>4
<1> QED
  BY <1>3, <1>4, <1>8, <1>9, <1>10, OpenedStep

LEMMA TakeTaskRInv ==
    ASSUME RInv, Inv', NEW w \in DOMAIN watchers, TakeTask(w)
    PROVE  RInv'
<1> DEFINE task == Head(watchers[w].chain)
           f == task.file
           from == IF task.kind = "reread" THEN 0 ELSE watchers[w].offsets[f]
           W == [watchers[w] EXCEPT !.chain = Tail(@), !.offsets[f] = from,
                                    !.job["chain"] = Opened(f, from)]
<1>1. /\ watchers[w] \in Watcher /\ watchers[w].offsets \in [Files -> Nat]
      /\ watchers[w].chain \in Seq(Tasks) /\ watchers[w].job \in [Sides -> Job \cup {Idle}]
  BY ReadingParts
<1>2. watchers[w].chain # <<>> /\ task \in Tasks /\ Tail(watchers[w].chain) \in Seq(Tasks)
  <2>1. watchers[w].chain # <<>>
    BY DEF TakeTask
  <2> QED
    BY <1>1, <2>1, HeadTailProperties
<1>3. f \in Files /\ from \in Nat /\ (from = 0 \/ from = watchers[w].offsets[f])
  BY <1>1, <1>2 DEF Tasks
<1>4. watchers' = [watchers EXCEPT ![w] = W]
  <2>1. watchers' = [watchers EXCEPT ![w].chain = Tail(@), ![w].offsets[f] = from,
                                     ![w].job["chain"] = Opened(f, from)]
    BY DEF TakeTask
  <2> HIDE DEF task, f, from
  <2> QED
    BY <1>1, <2>1 DEF Watcher
<1>5. /\ W \in Watcher /\ W.chain = Tail(watchers[w].chain)
      /\ W.offsets = [watchers[w].offsets EXCEPT ![f] = from]
      /\ W.job = [watchers[w].job EXCEPT !["chain"] = Opened(f, from)]
  <2>1. Opened(f, from) \in Job
    BY <1>3 DEF Opened, Job
  <2> HIDE DEF task, f, from
  <2> QED
    BY <1>1, <1>2, <1>3, <2>1 DEF Watcher, Sides
<1>6. /\ watchers[w].job["chain"] = Idle /\ "chain" \in Sides
      /\ UNCHANGED <<lines, rebuilt, held, interrupted, handOver>>
      /\ stored' = stored \/ stored' = [stored EXCEPT ![f] = 0]
  BY DEF TakeTask, disk, history, Sides
<1> HIDE DEF W
<1>7. \A i \in DOMAIN watchers[w].chain :
        \/ \E j \in DOMAIN W.chain : W.chain[j] = watchers[w].chain[i]
        \/ watchers[w].chain[i] = [kind |-> "tail", file |-> f]
        \/ watchers[w].chain[i] = [kind |-> "reread", file |-> f] /\ from = 0
  <2> SUFFICES ASSUME NEW i \in DOMAIN watchers[w].chain
               PROVE  \/ \E j \in DOMAIN W.chain : W.chain[j] = watchers[w].chain[i]
                      \/ watchers[w].chain[i] = [kind |-> "tail", file |-> f]
                      \/ watchers[w].chain[i] = [kind |-> "reread", file |-> f] /\ from = 0
    OBVIOUS
  <2>1. CASE i = 1
    <3>1. watchers[w].chain[i] = task
      BY <1>1, <1>2, <2>1
    <3>2. CASE task.kind = "reread"
      <4>1. task = [kind |-> "reread", file |-> f]
        BY <1>2, <3>2 DEF Tasks
      <4> QED
        BY <3>1, <3>2, <4>1
    <3>3. CASE task.kind = "tail"
      <4>1. task = [kind |-> "tail", file |-> f]
        BY <1>2, <3>3 DEF Tasks
      <4> QED
        BY <3>1, <4>1
    <3> QED
      BY <1>2, <3>2, <3>3 DEF Tasks
  <2>2. CASE i # 1
    <3>1. i - 1 \in DOMAIN W.chain /\ W.chain[i - 1] = watchers[w].chain[i]
      BY <1>1, <1>2, <1>5, <2>2, HeadTailProperties
    <3> QED
      BY <3>1
  <2> QED
    BY <2>1, <2>2
<1> HIDE DEF task, f, from
<1>8. Opens(watchers[w], W, "chain", f, from)
  BY <1>3, <1>5, <1>6, <1>7 DEF Opens
<1>9. W \in Watcher /\ "chain" \in Sides
  BY <1>5, <1>6
<1>10. stored' = stored \/ stored' = [stored EXCEPT ![f] = 0]
  BY <1>6
<1>11. UNCHANGED <<lines, rebuilt, held, interrupted, handOver>>
  BY <1>6
<1> QED
  BY <1>3, <1>4, <1>8, <1>9, <1>10, <1>11, OpenedStep

(* A step of the read on one side.                                         *)
LEMMA KeepsOthers ==
    ASSUME NEW V \in Watcher, NEW W, NEW side \in Sides, NEW new,
           W.chain = V.chain, W.job = [V.job EXCEPT ![side] = new],
           \A f \in Files, n \in Nat :
              Covers(lines, V.job[side], f, n) => Covers(lines, new, f, n) \/ n \in Held(f)'
    PROVE  Keeps(V, W)
<1>1. V.job \in [Sides -> Job \cup {Idle}]
  BY DEF Watcher
<1> SUFFICES ASSUME NEW f \in Files, NEW n \in Nat, Promises(lines, V, f, n)
             PROVE  Promises(lines, W, f, n) \/ n \in Held(f)'
  BY DEF Keeps
<1>2. ASSUME NEW s \in Sides, Covers(lines, V.job[s], f, n)
      PROVE  Covers(lines, W.job[s], f, n) \/ n \in Held(f)'
  <2>1. CASE s = side
    <3>1. W.job[s] = new
      BY <1>1, <2>1
    <3> QED
      BY <1>2, <2>1, <3>1
  <2>2. CASE s # side
    <3>1. W.job[s] = V.job[s]
      BY <1>1, <2>2
    <3> QED
      BY <1>2, <3>1
  <2> QED
    BY <2>1, <2>2
<1> QED
  BY <1>2 DEF Promises

(* The parts of a read under way.                                          *)
LEMMA ReadParts ==
    ASSUME RInv, NEW w \in DOMAIN watchers, NEW side \in Sides, watchers[w].job[side] # Idle
    PROVE  \E f \in Files, from \in Nat, size \in Nat :
             /\ watchers[w].job[side] \in Job
             /\ f = watchers[w].job[side].file /\ from = watchers[w].job[side].from
             /\ size = watchers[w].job[side].size
             /\ from <= lines[f] /\ size <= lines[f] /\ 1..from \subseteq Recoup(f)
             /\ watchers[w].job[side].at = "read" => from < size
<1> DEFINE job == watchers[w].job[side]
<1>1. /\ Within(lines, watchers[w]) /\ Honest(watchers[w], Recoups)
      /\ watchers[w].job \in [Sides -> Job \cup {Idle}]
  BY ReadingParts
<1>2. job \in Job /\ job.file \in Files /\ job.from \in Nat /\ job.size \in Nat
  BY <1>1 DEF Job
<1>3. /\ job.from <= lines[job.file] /\ job.size <= lines[job.file]
      /\ 1..job.from \subseteq Recoups[job.file] /\ (job.at = "read" => job.from < job.size)
  BY <1>1 DEF Within, Honest
<1>4. PICK f \in Files : f = job.file
  BY <1>2
<1>5. 1..job.from \subseteq Recoup(f)
  BY <1>3, <1>4 DEF Recoups
<1> QED
  BY <1>2, <1>3, <1>4, <1>5

LEMMA StatRInv ==
    ASSUME RInv, Inv', NEW w \in DOMAIN watchers, NEW side \in Sides, Stat(w, side)
    PROVE  RInv'
<1> DEFINE job == watchers[w].job[side]
<1>1. PICK f \in Files, from \in Nat, size \in Nat :
        /\ job \in Job /\ f = job.file /\ from = job.from /\ size = job.size
        /\ from <= lines[f] /\ size <= lines[f] /\ 1..from \subseteq Recoup(f)
  BY ReadParts DEF Stat
<1> DEFINE new == IF lines[f] <= from THEN Idle ELSE [job EXCEPT !.at = "read", !.size = lines[f]]
           W == [watchers[w] EXCEPT !.job[side] = new]
<1>2. /\ Within(lines, watchers[w]) /\ Honest(watchers[w], Recoups) /\ watchers[w] \in Watcher
      /\ watchers[w].job \in [Sides -> Job \cup {Idle}] /\ lines[f] \in Nat
  BY ReadingParts
<1>3. \/ new = Idle /\ lines[f] <= from
      \/ /\ new \in Job /\ new # Idle /\ new.at = "read" /\ new.file = f /\ new.from = from
         /\ new.size = lines[f] /\ from < lines[f]
  <2>1. CASE lines[f] <= from
    BY <2>1
  <2>2. CASE ~(lines[f] <= from)
    <3>1. new = [job EXCEPT !.at = "read", !.size = lines[f]] /\ from < lines[f]
      BY <1>2, <2>2
    <3> HIDE DEF new, job
    <3>2. new \in Job /\ new.file = f /\ new.from = from /\ new.size = lines[f] /\ new.at = "read"
      BY <1>1, <1>2, <3>1 DEF Job
    <3>3. new # Idle
      BY <3>2 DEF Idle
    <3> QED
      BY <3>1, <3>2, <3>3
  <2> QED
    BY <2>1, <2>2
<1>4. job.at = "opened" /\ job # Idle
  BY DEF Stat
<1>5. watchers' = [watchers EXCEPT ![w] = W]
  <2>1. watchers' = [watchers EXCEPT ![w].job[side] = new]
    BY <1>1 DEF Stat
  <2> HIDE DEF new, job
  <2> QED
    BY <1>2, <2>1 DEF Watcher
<1>6. /\ W \in Watcher /\ W.offsets = watchers[w].offsets /\ W.chain = watchers[w].chain
      /\ W.job = [watchers[w].job EXCEPT ![side] = new]
  <2> HIDE DEF new, job
  <2> QED
    BY <1>2, <1>3 DEF Watcher
<1>7. UNCHANGED <<lines, rebuilt, stored>> /\ UNCHANGED <<held, interrupted, handOver>>
  BY DEF Stat, disk, history
<1> HIDE DEF W, new
<1>8. Keeps(watchers[w], W)
  <2>1. \A g \in Files, n \in Nat : Covers(lines, job, g, n) => Covers(lines, new, g, n)
    BY <1>1, <1>2, <1>3, <1>4 DEF Covers
  <2> HIDE DEF job
  <2>2. \A g \in Files, n \in Nat :
          Covers(lines, watchers[w].job[side], g, n) => Covers(lines, new, g, n) \/ n \in Held(g)'
    BY <2>1 DEF job
  <2> QED
    BY <1>2, <1>6, <2>2, KeepsOthers
<1>9. \A s \in Sides : W.job[s] = watchers[w].job[s] \/ (s = side /\ W.job[s] = new)
  BY <1>2, <1>6
<1>10. Within(lines, W) /\ Honest(W, Recoups)
  <2>1. ASSUME NEW s \in Sides, W.job[s] # Idle
        PROVE  /\ W.job[s].from <= lines[W.job[s].file] /\ W.job[s].size <= lines[W.job[s].file]
               /\ 1..W.job[s].from \subseteq Recoups[W.job[s].file]
               /\ W.job[s].at = "read" => W.job[s].from < W.job[s].size
    <3>1. CASE W.job[s] = watchers[w].job[s]
      BY <1>2, <2>1, <3>1 DEF Within, Honest
    <3>2. CASE W.job[s] = new
      BY <1>1, <1>2, <1>3, <2>1, <3>2 DEF Recoups
    <3> QED
      BY <1>9, <3>1, <3>2
  <2>2. \A g \in Files : W.offsets[g] <= lines[g] /\ 1..W.offsets[g] \subseteq Recoups[g]
    BY <1>2, <1>6 DEF Within, Honest
  <2> QED
    BY <2>1, <2>2 DEF Within, Honest
<1>11. \A g \in Files : stored'[g] <= lines[g] /\ 1..stored'[g] \subseteq Recoup(g)
  BY <1>7 DEF RInv, StoredRecouped
<1>12. \A g \in Files : Held(g) \subseteq Held(g)'
  BY <1>7, HeldStays
<1>13. UNCHANGED <<lines, rebuilt>> /\ W \in Watcher
  BY <1>6, <1>7
<1> QED
  BY <1>5, <1>8, <1>10, <1>11, <1>12, <1>13, ReadingStep

(* The lines the read promised are outstanding once it publishes.          *)
LEMMA PublishRInv ==
    ASSUME RInv, Inv', NEW w \in DOMAIN watchers, NEW side \in Sides, Publish(w, side)
    PROVE  RInv'
<1>1. PICK f \in Files, from \in Nat, size \in Nat :
        /\ f = watchers[w].job[side].file /\ from = watchers[w].job[side].from
        /\ size = watchers[w].job[side].size
        /\ from <= lines[f] /\ size <= lines[f] /\ 1..from \subseteq Recoup(f) /\ from < size
  BY ReadParts DEF Publish
<1> DEFINE W == [watchers[w] EXCEPT !.offsets[f] = size, !.job[side] = Idle]
<1>2. /\ Within(lines, watchers[w]) /\ Honest(watchers[w], Recoups) /\ watchers[w] \in Watcher
      /\ watchers[w].offsets \in [Files -> Nat]
      /\ watchers[w].job \in [Sides -> Job \cup {Idle}]
      /\ \A g \in Files : lines[g] \in Nat
  BY ReadingParts
<1>3. /\ handOver = Nothing
      /\ handOver' = [watcher |-> w, side |-> side, file |-> f,
                      next |-> from + 1, upTo |-> size]
      /\ stored' = [stored EXCEPT ![f] = size]
      /\ watchers' = [watchers EXCEPT ![w].offsets[f] = size, ![w].job[side] = Idle]
      /\ UNCHANGED <<held, interrupted, lines, rebuilt>>
      /\ watchers[w].job[side] # Idle /\ watchers[w].job[side].at = "read"
  BY <1>1 DEF Publish, Quiet, disk, history
<1>4. handOver' # Nothing
  <2>1. handOver'.watcher = w /\ w # 0 /\ Nothing.watcher = 0
    BY <1>3 DEF RInv, Inv, TypeOK, Nothing
  <2> QED
    BY <2>1
<1>5. Outstanding(f)' = (from + 1)..size
  BY <1>3, <1>4 DEF Outstanding
<1>6. \A g \in Files : Held(g) \subseteq Held(g)'
  BY <1>3 DEF Held, Outstanding
<1>7. /\ W \in Watcher /\ W.chain = watchers[w].chain
      /\ W.offsets = [watchers[w].offsets EXCEPT ![f] = size]
      /\ W.job = [watchers[w].job EXCEPT ![side] = Idle]
  BY <1>2 DEF Watcher
<1>8. watchers' = [watchers EXCEPT ![w] = W]
  BY <1>2, <1>3 DEF Watcher
<1> HIDE DEF W
<1>9. Keeps(watchers[w], W)
  <2>1. ASSUME NEW g \in Files, NEW n \in Nat, Covers(lines, watchers[w].job[side], g, n)
        PROVE  n \in Held(g)'
    <3>1. g = f /\ n > from /\ n <= size
      BY <1>1, <1>3, <2>1 DEF Covers
    <3>2. n \in (from + 1)..size
      BY <3>1
    <3>3. n \in Outstanding(f)'
      BY <1>5, <3>2
    <3> QED
      BY <3>1, <3>3 DEF Held
  <2> QED
    BY <1>2, <1>7, <2>1, KeepsOthers
<1>10. 1..size \subseteq Recoup(f)
  <2> SUFFICES ASSUME NEW n \in 1..size PROVE n \in Recoup(f)
    OBVIOUS
  <2>1. CASE n \in 1..from
    BY <1>1, <2>1
  <2>2. CASE n \notin 1..from
    <3>1. Covers(lines, watchers[w].job[side], f, n)
      BY <1>1, <1>3, <2>2 DEF Covers
    <3>2. Promises(lines, watchers[w], f, n)
      BY <3>1 DEF Promises
    <3> QED
      BY <3>2 DEF Recoup
  <2> QED
    BY <2>1, <2>2
<1>11. Within(lines, W) /\ Honest(W, Recoups)
  <2>1. ASSUME NEW s \in Sides, W.job[s] # Idle
        PROVE  /\ W.job[s].from <= lines[W.job[s].file] /\ W.job[s].size <= lines[W.job[s].file]
               /\ 1..W.job[s].from \subseteq Recoups[W.job[s].file]
               /\ W.job[s].at = "read" => W.job[s].from < W.job[s].size
    <3>1. W.job[s] = watchers[w].job[s]
      BY <1>2, <1>7, <2>1
    <3> QED
      BY <1>2, <2>1, <3>1 DEF Within, Honest
  <2>2. ASSUME NEW g \in Files
        PROVE  W.offsets[g] <= lines[g] /\ 1..W.offsets[g] \subseteq Recoups[g]
    <3>1. CASE g = f
      BY <1>1, <1>2, <1>7, <1>10, <3>1 DEF Recoups
    <3>2. CASE g # f
      BY <1>2, <1>7, <3>2 DEF Within, Honest
    <3> QED
      BY <3>1, <3>2
  <2> QED
    BY <2>1, <2>2 DEF Within, Honest
<1>12. \A g \in Files : stored'[g] <= lines[g] /\ 1..stored'[g] \subseteq Recoup(g)
  <2>1. stored \in [Files -> Nat] /\ \A g \in Files : stored[g] <= lines[g] /\ 1..stored[g] \subseteq Recoup(g)
    BY DEF RInv, Inv, TypeOK, StoredRecouped
  <2>2. ASSUME NEW g \in Files
        PROVE  stored'[g] <= lines[g] /\ 1..stored'[g] \subseteq Recoup(g)
    <3>1. CASE g = f
      BY <1>1, <1>3, <1>10, <2>1, <3>1
    <3>2. CASE g # f
      BY <1>3, <2>1, <3>2
    <3> QED
      BY <3>1, <3>2
  <2> QED
    BY <2>2
<1>13. UNCHANGED <<lines, rebuilt>> /\ W \in Watcher
  BY <1>3, <1>7
<1> QED
  BY <1>6, <1>8, <1>9, <1>11, <1>12, <1>13, ReadingStep

(* The panel begins anew, and the reread that is queued will bring back    *)
(* every line there is.                                                    *)
LEMMA RebuildRInv ==
    ASSUME RInv, Inv', NEW f \in Files, Rebuild(f)
    PROVE  RInv'
<1> DEFINE task == [kind |-> "reread", file |-> f]
           W == [watchers[Current] EXCEPT !.chain = Append(@, task)]
<1>1. /\ UNCHANGED <<lines, stored, interrupted, handOver>>
      /\ rebuilt' = [rebuilt EXCEPT ![f] = @ + 1] /\ held' = [held EXCEPT ![f] = {}]
      /\ rebuilt \in [Files -> Nat]
      /\ watchers' = [watchers EXCEPT ![Current].chain = Append(@, task)]
  BY BoundsAssumption DEF Rebuild, disk, RInv, Inv, TypeOK
<1>2. Current \in DOMAIN watchers /\ watchers \in Seq(Watcher)
  BY DEF Rebuild, RInv, Inv, TypeOK, Current
<1>3. watchers[Current] \in Watcher /\ watchers[Current].chain \in Seq(Tasks)
  BY <1>2, ReadingParts
<1>4. /\ W.offsets = watchers[Current].offsets /\ W.job = watchers[Current].job
      /\ W.chain = Append(watchers[Current].chain, task)
  BY <1>3 DEF Watcher
<1>5. watchers' = [watchers EXCEPT ![Current] = W]
  BY <1>1
<1>6. task \in Tasks
  BY DEF Tasks
<1> HIDE DEF W, task
<1>7. Carries(watchers[Current], W)
  BY <1>3, <1>4, AppendKeeps DEF Carries
<1>8. \A w \in DOMAIN watchers : w \in DOMAIN watchers' /\ Carries(watchers[w], watchers'[w])
  <2>1. \A w \in DOMAIN watchers : Carries(watchers[w], watchers[w])
    BY DEF Carries
  <2> QED
    BY <1>2, <1>5, <1>7, <2>1
<1>9. \A w \in DOMAIN watchers' : SameReading(w)
  <2>1. DOMAIN watchers' = DOMAIN watchers
    BY <1>5
  <2> QED
    BY <1>8, <2>1 DEF Carries, SameReading
<1>10. lines' = lines /\ \A g \in Files : lines[g] \in Nat
  BY <1>1, <1>2, ReadingParts
<1>11. ASSUME NEW g \in Files PROVE Regains(g)
  <2>1. CASE g = f
    <3>1. rebuilt'[f] > 0
      BY <1>1
    <3>2. /\ Len(W.chain) \in DOMAIN W.chain
          /\ W.chain[Len(W.chain)] = [kind |-> "reread", file |-> f]
      <4>1. W.chain \in Seq(Tasks) /\ Len(W.chain) = Len(watchers[Current].chain) + 1
            /\ W.chain[Len(watchers[Current].chain) + 1] = task
        BY <1>3, <1>4, <1>6
      <4> QED
        BY <1>3, <4>1 DEF task
    <3>3. \A n \in 1..lines[f] : Promises(lines, W, f, n)
      BY <3>2 DEF Promises
    <3>4. PICK v \in DOMAIN watchers' : watchers'[v] = W
      BY <1>2, <1>5
    <3>5. 1..lines[f] \subseteq {n \in Nat : \E w \in DOMAIN watchers' : Promises(lines', watchers'[w], f, n)}
      BY <1>10, <3>3, <3>4
    <3>6. 1..lines[f] \subseteq Recoup(f)'
      BY <3>1, <3>5 DEF Recoup
    <3> QED
      BY <2>1, <3>6 DEF Regains
  <2>2. CASE g # f /\ rebuilt[g] > 0
    <3>1. Held(g) \subseteq Held(g)'
      <4>1. held \in [Files -> SUBSET Nat]
        BY DEF RInv, Inv, TypeOK
      <4> QED
        BY <1>1, <2>2, <4>1 DEF Held, Outstanding
    <3>2. ASSUME NEW n \in Nat, NEW w \in DOMAIN watchers, Promises(lines, watchers[w], g, n)
          PROVE  w \in DOMAIN watchers' /\ Promises(lines', watchers'[w], g, n)
      <4>1. /\ w \in DOMAIN watchers' /\ Carries(watchers[w], watchers'[w])
            /\ watchers[w].job \in [Sides -> Job \cup {Idle}]
        BY <1>8, ReadingParts
      <4>2. lines[g] \in Nat /\ lines'[g] \in Nat /\ lines[g] <= lines'[g]
        BY <1>10
      <4> QED
        BY <3>2, <4>1, <4>2, CarriedPromise
    <3>3. rebuilt'[g] > 0
      BY <1>1, <2>2
    <3> QED
      BY <2>2, <3>1, <3>2, <3>3 DEF Regains, Recoup
  <2>3. CASE g # f /\ ~(rebuilt[g] > 0)
    BY <1>1, <2>3 DEF Regains, Recoup
  <2> QED
    BY <2>1, <2>2, <2>3
<1>12. \A g \in Files : lines[g] <= lines'[g] /\ lines'[g] \in Nat
  BY <1>10
<1>13. \A g \in Files : stored'[g] = stored[g]
  BY <1>1
<1> QED
  BY <1>9, <1>11, <1>12, <1>13, RecoupStep DEF RInv

LEMMA DiesRInv ==
    ASSUME RInv, Inv', Crash \/ BootThrows
    PROVE  RInv'
<1>1. UNCHANGED <<lines, stored>> /\ (\A f \in Files : rebuilt'[f] = 0) /\ watchers' = <<>>
  BY DEF Crash, BootThrows, Dies, disk
<1>2. \A f \in Files : Recoup(f)' = Nat
  BY <1>1 DEF Recoup
<1>3. stored \in [Files -> Nat] /\ \A f \in Files : stored[f] <= lines[f]
  BY DEF RInv, Inv, TypeOK, StoredRecouped
<1>4. StoredRecouped'
  <2>1. \A f \in Files : 1..stored[f] \subseteq Nat
    BY <1>3
  <2> QED
    BY <1>1, <1>2, <1>3, <2>1 DEF StoredRecouped
<1>5. ReadsRecouped'
  BY <1>1 DEF ReadsRecouped
<1> QED
  BY <1>4, <1>5 DEF RInv

LEMMA InitRInv == Init => RInv
<1> SUFFICES ASSUME Init PROVE RInv
  OBVIOUS
<1>1. Inv
  BY InitInv
<1>2. \A f \in Files : stored[f] = 0 /\ lines[f] \in Nat
  BY <1>1, BoundsAssumption DEF Init, Inv, TypeOK
<1>3. StoredRecouped
  BY <1>2 DEF StoredRecouped
<1>4. ReadsRecouped
  BY DEF Init, ReadsRecouped
<1> QED
  BY <1>1, <1>3, <1>4 DEF RInv

LEMMA NextRInv == RInv /\ [Next]_vars => RInv'
<1> SUFFICES ASSUME RInv, [Next]_vars PROVE RInv'
  OBVIOUS
<1>0. Inv'
  BY NextInv DEF RInv
<1>1. ASSUME NEW f \in Files, Write(f) \/ IndexOne(f) \/ Rebuild(f)
      PROVE  RInv'
  BY <1>0, <1>1, WriteRInv, SettingRInv, RebuildRInv
<1>2. ASSUME NEW w \in DOMAIN watchers, NEW f \in Files,
             LoseNotice(w, f) \/ Scan(w, f) \/ Report(w, f) \/ WalkRead(w, f) \/ WalkDefer(w, f)
      PROVE  RInv'
  BY <1>0, <1>2, WatchRInv, WalkReadRInv
<1>3. ASSUME NEW w \in DOMAIN watchers, TakeTask(w) \/ Arm(w)
      PROVE  RInv'
  BY <1>0, <1>3, TakeTaskRInv, SettingRInv
<1>4. ASSUME NEW w \in DOMAIN watchers, NEW side \in Sides, ReadStep(w, side)
      PROVE  RInv'
  BY <1>0, <1>4, StatRInv, PublishRInv DEF ReadStep
<1>5. CASE HandOver \/ SetRoots \/ ChainThrows \/ SwapThrows \/ Boot
  BY <1>0, <1>5, HandOverRInv, SettingRInv, CutOffRInv, BootRInv
<1>6. CASE Crash \/ BootThrows
  BY <1>0, <1>6, DiesRInv
<1>7. ASSUME NEW i \in DOMAIN waiting, Swapped(i) PROVE RInv'
  BY <1>0, <1>7, SwappedRInv
<1>8. CASE UNCHANGED vars
  BY <1>0, <1>8, SettingRInv
<1> QED
  BY <1>1, <1>2, <1>3, <1>4, <1>5, <1>6, <1>7, <1>8 DEF Next, WalkStep, WatchStep

(* When no read of a rebuilt file is queued or under way, its panel has    *)
(* been handed every line below the stored offset again, or a throw cut it *)
(* off (rebuildPanel, rereadFromStart, tailJsonl).                         *)
THEOREM RebuildsComplete == Spec => []RebuildIsComplete
<1>1. RInv => RebuildIsComplete
  <2> SUFFICES ASSUME RInv, NEW f \in Files, rebuilt[f] > 0,
                      \A w \in DOMAIN watchers : ~Rereads(w, f)
               PROVE  1..stored[f] \subseteq held[f] \cup interrupted[f] \cup Outstanding(f)
    BY DEF RebuildIsComplete
  <2>2. \A w \in DOMAIN watchers, n \in Nat : ~Promises(lines, watchers[w], f, n)
    BY DEF Rereads, Promises, Covers
  <2>3. Recoup(f) = Held(f)
    BY <2>2 DEF Recoup
  <2> QED
    BY <2>3 DEF RInv, StoredRecouped, Held
<1>2. Spec => []RInv
  BY InitRInv, NextRInv, PTL DEF Spec
<1> QED
  BY <1>1, <1>2, PTL

----------------------------------------------------------------------------
(* A line twice.  While no swap overlapped a start or another swap, only   *)
(* the current watcher does anything, it never walks and tails a file that *)
(* was not rebuilt at the same time, and its offset of such a file is the  *)
(* stored one: what was handed over lies below the next read.              *)

Resting(W) ==
    /\ W.phase \in {"stopped", "dead"} /\ W.notice = {} /\ W.chain = <<>>
    /\ \A side \in Sides : W.job[side] = Idle

(* The walk reads only while walking, the chain tails only once watching;  *)
(* a reread is of a file that was rebuilt.                                 *)
Orderly(W, R) ==
    /\ W.phase # "walking" => W.job["walk"] = Idle
    /\ W.phase # "watching" => W.notice = {}
    /\ \A i \in DOMAIN W.chain :
          \/ R[W.chain[i].file] > 0
          \/ W.chain[i].kind = "tail" /\ W.phase \in {"watching", "stopped"}
    /\ W.job["chain"] # Idle => W.phase \in {"watching", "stopped"} \/ R[W.job["chain"].file] > 0

ReadsFrom(W, f, k) ==
    /\ W.offsets[f] = k
    /\ \A side \in Sides : W.job[side] # Idle /\ W.job[side].file = f => W.job[side].from = k

OthersRest == \A w \in DOMAIN watchers : w # Current => Resting(watchers[w])
CurrentOrderly == watchers # <<>> => Orderly(watchers[Current], rebuilt)
SwapWaits ==
    waiting # <<>> => /\ waiting = <<Current>> /\ watchers # <<>>
                      /\ watchers[Current].phase \in {"stopped", "dead"}
HandOverHere ==
    handOver # Nothing =>
      /\ watchers # <<>> /\ handOver.watcher = Current
      /\ watchers[Current].job[handOver.side] = Idle
      /\ handOver.side = "walk" => watchers[Current].phase = "walking"
HandedBelow(f) ==
    /\ f \notin again /\ handed[f] \subseteq 1..stored[f]
    /\ handOver # Nothing /\ handOver.file = f =>
         handOver.upTo = stored[f] /\ \A n \in handed[f] : n < handOver.next
Settled(f) == HandedBelow(f) /\ (watchers # <<>> => ReadsFrom(watchers[Current], f, stored[f]))
Tidy == /\ OthersRest /\ CurrentOrderly /\ SwapWaits /\ HandOverHere
        /\ \A f \in Files : rebuilt[f] = 0 => Settled(f)
(* A server that is down was told nothing.                                 *)
Unborn == watchers = <<>> => handOver = Nothing /\ \A f \in Files : handed[f] = {}
OInv == Inv /\ (overlapped \/ Tidy) /\ Unborn

LEMMA CurrentParts ==
    ASSUME Inv
    PROVE  /\ watchers \in Seq(Watcher) /\ Current \in Nat /\ rebuilt \in [Files -> Nat]
           /\ DOMAIN watchers = 1..Current
           /\ watchers # <<>> <=> Current \in DOMAIN watchers
           /\ \A w \in DOMAIN watchers : watchers[w] \in Watcher
  BY BoundsAssumption DEF Inv, TypeOK, Current

(* A step between two hand-overs that leaves all but the current watcher.  *)
LEMMA CurrentStep ==
    ASSUME Inv, Inv', Tidy, handOver = Nothing, handOver' = Nothing,
           UNCHANGED <<waiting, handed, again>>,
           DOMAIN watchers' = DOMAIN watchers,
           \A w \in DOMAIN watchers : w # Current => watchers'[w] = watchers[w],
           \A f \in Files : rebuilt'[f] = 0 => rebuilt[f] = 0 /\ stored'[f] = stored[f],
           watchers # <<>> =>
             /\ Orderly(watchers'[Current], rebuilt')
             /\ waiting # <<>> => watchers'[Current].phase \in {"stopped", "dead"}
             /\ \A f \in Files : rebuilt'[f] = 0 => ReadsFrom(watchers'[Current], f, stored[f])
    PROVE  Tidy'
<1>1. Current' = Current /\ (watchers' # <<>> <=> watchers # <<>>)
  <2>1. DOMAIN watchers = 1..Current /\ Current \in Nat
        /\ (watchers # <<>> <=> Current \in DOMAIN watchers)
    BY CurrentParts
  <2>2. DOMAIN watchers' = 1..Current' /\ Current' \in Nat
        /\ (watchers' # <<>> <=> Current' \in DOMAIN watchers')
    BY CurrentParts DEF Inv, TypeOK, Current
  <2> HIDE DEF Current
  <2> QED
    BY <2>1, <2>2
<1>2. OthersRest'
  BY <1>1 DEF Tidy, OthersRest
<1>3. CurrentOrderly' /\ SwapWaits'
  BY <1>1 DEF Tidy, CurrentOrderly, SwapWaits
<1>4. HandOverHere'
  BY DEF HandOverHere
<1>5. \A f \in Files : rebuilt'[f] = 0 => Settled(f)'
  <2> SUFFICES ASSUME NEW f \in Files, rebuilt'[f] = 0 PROVE Settled(f)'
    OBVIOUS
  <2>1. Settled(f) /\ stored'[f] = stored[f]
    BY DEF Tidy
  <2>2. HandedBelow(f)'
    BY <2>1 DEF Settled, HandedBelow
  <2>3. watchers' # <<>> => ReadsFrom(watchers'[Current], f, stored'[f])
    BY <1>1, <2>1
  <2> QED
    BY <1>1, <2>2, <2>3 DEF Settled
<1> QED
  BY <1>2, <1>3, <1>4, <1>5 DEF Tidy

(* A watcher that acts is the current one.                                 *)
LEMMA ActsNow ==
    ASSUME Inv, Tidy, NEW w \in DOMAIN watchers,
           ~Resting(watchers[w])
    PROVE  w = Current /\ watchers # <<>>
  BY CurrentParts DEF Tidy, OthersRest

LEMMA OneStep ==
    ASSUME Inv, Inv', Tidy, handOver = Nothing, handOver' = Nothing,
           UNCHANGED <<waiting, handed, again, rebuilt>>,
           \A f \in Files : rebuilt[f] = 0 => stored'[f] = stored[f],
           NEW w \in DOMAIN watchers, ~Resting(watchers[w]),
           NEW W, watchers' = [watchers EXCEPT ![w] = W],
           Orderly(W, rebuilt), W.phase = watchers[w].phase \/ watchers[w].phase \notin {"stopped", "dead"},
           \A f \in Files : rebuilt[f] = 0 => ReadsFrom(W, f, stored[f])
    PROVE  Tidy'
<1>1. w = Current /\ watchers # <<>>
  BY ActsNow
<1>2. DOMAIN watchers' = DOMAIN watchers /\ watchers'[w] = W
      /\ \A v \in DOMAIN watchers : v # w => watchers'[v] = watchers[v]
  OBVIOUS
<1>3. waiting # <<>> => W.phase \in {"stopped", "dead"}
  BY <1>1 DEF Tidy, SwapWaits
<1>4. rebuilt' = rebuilt
  OBVIOUS
<1> QED
  BY <1>1, <1>2, <1>3, <1>4, CurrentStep

LEMMA ActingParts ==
    ASSUME Inv, Tidy, NEW w \in DOMAIN watchers, ~Resting(watchers[w])
    PROVE  /\ w = Current /\ Orderly(watchers[w], rebuilt)
           /\ \A f \in Files : rebuilt[f] = 0 => ReadsFrom(watchers[w], f, stored[f])
           /\ watchers[w] \in Watcher /\ watchers[w].offsets \in [Files -> Nat]
           /\ watchers[w].chain \in Seq(Tasks) /\ watchers[w].job \in [Sides -> Job \cup {Idle}]
           /\ rebuilt \in [Files -> Nat]
<1>1. w = Current /\ watchers # <<>>
  BY ActsNow
<1>2. Orderly(watchers[w], rebuilt) /\ \A f \in Files : rebuilt[f] = 0 => ReadsFrom(watchers[w], f, stored[f])
  BY <1>1 DEF Tidy, CurrentOrderly, Settled
<1>3. /\ watchers[w] \in Watcher /\ watchers[w].offsets \in [Files -> Nat]
      /\ watchers[w].chain \in Seq(Tasks) /\ watchers[w].job \in [Sides -> Job \cup {Idle}]
  BY WatcherParts DEF Inv
<1> QED
  BY <1>1, <1>2, <1>3, CurrentParts

(* A watcher that reads the same, with the same chain or a tail more.      *)
LEMMA SameReadsFrom ==
    ASSUME NEW V, NEW W, W.offsets = V.offsets, W.job = V.job, NEW f, NEW k, ReadsFrom(V, f, k)
    PROVE  ReadsFrom(W, f, k)
  BY DEF ReadsFrom

LEMMA NoticeTidy ==
    ASSUME Inv, Inv', Tidy, NEW w \in DOMAIN watchers, NEW f \in Files,
           LoseNotice(w, f) \/ WalkDefer(w, f)
    PROVE  Tidy'
<1>1. /\ handOver = Nothing /\ handOver' = Nothing
      /\ UNCHANGED <<waiting, handed, again, rebuilt, stored>>
  BY DEF LoseNotice, WalkDefer, Quiet, history
<1>2. ~Resting(watchers[w])
  BY DEF LoseNotice, WalkDefer, Resting
<1>3. /\ Orderly(watchers[w], rebuilt) /\ watchers[w] \in Watcher
      /\ \A g \in Files : rebuilt[g] = 0 => ReadsFrom(watchers[w], g, stored[g])
  BY <1>2, ActingParts
<1>4. \E W : /\ watchers' = [watchers EXCEPT ![w] = W]
             /\ W.offsets = watchers[w].offsets /\ W.job = watchers[w].job
             /\ W.chain = watchers[w].chain /\ W.phase = watchers[w].phase
             /\ W.notice \subseteq watchers[w].notice
  <2>1. CASE LoseNotice(w, f)
    <3> DEFINE W == [watchers[w] EXCEPT !.notice = @ \ {f}]
    <3>1. watchers' = [watchers EXCEPT ![w] = W]
      BY <2>1 DEF LoseNotice
    <3>2. /\ W.offsets = watchers[w].offsets /\ W.job = watchers[w].job
          /\ W.chain = watchers[w].chain /\ W.phase = watchers[w].phase
          /\ W.notice \subseteq watchers[w].notice
      BY <1>3 DEF Watcher
    <3> QED
      BY <3>1, <3>2
  <2>2. CASE WalkDefer(w, f)
    <3> DEFINE W == [watchers[w] EXCEPT !.todo = @ \ {f}, !.deferred = @ \cup ({f} \ (ancient \cup summarized))]
    <3>1. watchers' = [watchers EXCEPT ![w] = W]
      BY <2>2, <1>3 DEF WalkDefer, Watcher
    <3>2. /\ W.offsets = watchers[w].offsets /\ W.job = watchers[w].job
          /\ W.chain = watchers[w].chain /\ W.phase = watchers[w].phase
          /\ W.notice \subseteq watchers[w].notice
      BY <1>3 DEF Watcher
    <3> QED
      BY <3>1, <3>2
  <2> QED
    BY <2>1, <2>2
<1>5. PICK W : /\ watchers' = [watchers EXCEPT ![w] = W]
               /\ W.offsets = watchers[w].offsets /\ W.job = watchers[w].job
               /\ W.chain = watchers[w].chain /\ W.phase = watchers[w].phase
               /\ W.notice \subseteq watchers[w].notice
  BY <1>4
<1>6. Orderly(W, rebuilt)
  BY <1>3, <1>5 DEF Orderly
<1>7. \A g \in Files : rebuilt[g] = 0 => ReadsFrom(W, g, stored[g])
  BY <1>3, <1>5, SameReadsFrom
<1> QED
  BY <1>1, <1>2, <1>5, <1>6, <1>7, OneStep

LEMMA TailTidy ==
    ASSUME Inv, Inv', Tidy, NEW w \in DOMAIN watchers, NEW f \in Files,
           Scan(w, f) \/ Report(w, f)
    PROVE  Tidy'
<1> DEFINE task == [kind |-> "tail", file |-> f]
<1>1. /\ handOver = Nothing /\ handOver' = Nothing
      /\ UNCHANGED <<waiting, handed, again, rebuilt, stored>>
  BY DEF Scan, Report, Quiet, history
<1>2. ~Resting(watchers[w])
  BY DEF Scan, Report, Resting
<1>3. /\ Orderly(watchers[w], rebuilt) /\ watchers[w] \in Watcher
      /\ watchers[w].chain \in Seq(Tasks)
      /\ \A g \in Files : rebuilt[g] = 0 => ReadsFrom(watchers[w], g, stored[g])
  BY <1>2, ActingParts
<1>4. watchers[w].phase = "watching"
  BY <1>3 DEF Scan, Report, Orderly
<1>5. \E W : /\ watchers' = [watchers EXCEPT ![w] = W]
             /\ W.offsets = watchers[w].offsets /\ W.job = watchers[w].job
             /\ W.chain = Append(watchers[w].chain, task) /\ W.phase = "watching"
  <2>1. CASE Scan(w, f)
    <3> DEFINE W == [watchers[w] EXCEPT !.chain = Append(@, task)]
    <3>1. watchers' = [watchers EXCEPT ![w] = W]
      BY <2>1 DEF Scan
    <3>2. /\ W.offsets = watchers[w].offsets /\ W.job = watchers[w].job
          /\ W.chain = Append(watchers[w].chain, task) /\ W.phase = "watching"
      BY <1>3, <1>4 DEF Watcher
    <3> QED
      BY <3>1, <3>2
  <2>2. CASE Report(w, f)
    <3> DEFINE W == [watchers[w] EXCEPT !.notice = @ \ {f}, !.chain = Append(@, task)]
    <3>1. watchers' = [watchers EXCEPT ![w] = W]
      BY <2>2, <1>3 DEF Report, Watcher
    <3>2. /\ W.offsets = watchers[w].offsets /\ W.job = watchers[w].job
          /\ W.chain = Append(watchers[w].chain, task) /\ W.phase = "watching"
      BY <1>3, <1>4 DEF Watcher
    <3> QED
      BY <3>1, <3>2
  <2> QED
    BY <2>1, <2>2
<1>6. PICK W : /\ watchers' = [watchers EXCEPT ![w] = W]
               /\ W.offsets = watchers[w].offsets /\ W.job = watchers[w].job
               /\ W.chain = Append(watchers[w].chain, task) /\ W.phase = "watching"
  BY <1>5
<1>7. Orderly(W, rebuilt)
  <2>1. \A i \in DOMAIN W.chain :
            \/ i \in DOMAIN watchers[w].chain /\ W.chain[i] = watchers[w].chain[i]
            \/ W.chain[i] = task
    BY <1>3, <1>6
  <2>2. \A i \in DOMAIN W.chain : rebuilt[W.chain[i].file] > 0 \/ W.chain[i].kind = "tail"
    BY <1>3, <2>1 DEF Orderly
  <2>3. W.job["walk"] = Idle
    BY <1>3, <1>4, <1>6 DEF Orderly
  <2> QED
    BY <1>6, <2>2, <2>3 DEF Orderly
<1>8. \A g \in Files : rebuilt[g] = 0 => ReadsFrom(W, g, stored[g])
  BY <1>3, <1>6, SameReadsFrom
<1>9. W.phase = watchers[w].phase
  BY <1>4, <1>6
<1> QED
  BY <1>1, <1>2, <1>6, <1>7, <1>8, <1>9, OneStep

LEMMA ArmTidy ==
    ASSUME Inv, Inv', Tidy, NEW w \in DOMAIN watchers, Arm(w)
    PROVE  Tidy'
<1>1. /\ handOver = Nothing /\ handOver' = Nothing
      /\ UNCHANGED <<waiting, handed, again, rebuilt, stored>>
  BY DEF Arm, Quiet, history
<1>2. ~Resting(watchers[w]) /\ watchers[w].phase = "walking" /\ watchers[w].job["walk"] = Idle
  BY DEF Arm, Resting
<1>3. /\ Orderly(watchers[w], rebuilt) /\ watchers[w] \in Watcher /\ w = Current
      /\ \A g \in Files : rebuilt[g] = 0 => ReadsFrom(watchers[w], g, stored[g])
  BY <1>2, ActingParts
<1> DEFINE W == [watchers[w] EXCEPT !.phase = "watching", !.deferred = {}]
<1>4. watchers' = [watchers EXCEPT ![w] = W]
  <2>1. watchers' = [watchers EXCEPT ![w].phase = "watching", ![w].deferred = {}]
    BY <1>3 DEF Arm
  <2> QED
    BY <1>3, <2>1 DEF Watcher
<1>5. /\ W.offsets = watchers[w].offsets /\ W.job = watchers[w].job
      /\ W.chain = watchers[w].chain /\ W.phase = "watching"
  BY <1>3 DEF Watcher
<1> HIDE DEF W
<1>6. Orderly(W, rebuilt)
  BY <1>2, <1>3, <1>5 DEF Orderly
<1>7. \A g \in Files : rebuilt[g] = 0 => ReadsFrom(W, g, stored[g])
  BY <1>3, <1>5, SameReadsFrom
<1>8. watchers[w].phase \notin {"stopped", "dead"}
  BY <1>2
<1> QED
  BY <1>1, <1>2, <1>4, <1>6, <1>7, <1>8, OneStep

LEMMA WalkReadTidy ==
    ASSUME Inv, Inv', Tidy, NEW w \in DOMAIN watchers, NEW f \in Files, WalkRead(w, f)
    PROVE  Tidy'
<1> DEFINE new == Opened(f, watchers[w].offsets[f])
           W == [watchers[w] EXCEPT !.todo = @ \ {f}, !.job["walk"] = new]
<1>1. /\ handOver = Nothing /\ handOver' = Nothing
      /\ UNCHANGED <<waiting, handed, again, rebuilt, stored>>
  BY DEF WalkRead, Quiet, history
<1>2. ~Resting(watchers[w]) /\ watchers[w].phase = "walking"
  BY DEF WalkRead, Resting
<1>3. /\ Orderly(watchers[w], rebuilt) /\ watchers[w] \in Watcher
      /\ watchers[w].job \in [Sides -> Job \cup {Idle}]
      /\ \A g \in Files : rebuilt[g] = 0 => ReadsFrom(watchers[w], g, stored[g])
  BY <1>2, ActingParts
<1>4. watchers' = [watchers EXCEPT ![w] = W]
  BY <1>3 DEF WalkRead, Watcher
<1>5. new.file = f /\ new.from = watchers[w].offsets[f]
  BY DEF Opened
<1> HIDE DEF new
<1>6. /\ W.offsets = watchers[w].offsets /\ W.job = [watchers[w].job EXCEPT !["walk"] = new]
      /\ W.chain = watchers[w].chain /\ W.phase = "walking" /\ W.notice = watchers[w].notice
  BY <1>2, <1>3 DEF Watcher
<1> HIDE DEF W
<1>7. /\ W.job["walk"] = new /\ W.job["chain"] = watchers[w].job["chain"]
      /\ \A side \in Sides : W.job[side] = new \/ W.job[side] = watchers[w].job[side]
  BY <1>3, <1>6 DEF Sides
<1>8. Orderly(W, rebuilt)
  BY <1>2, <1>3, <1>6, <1>7 DEF Orderly
<1>9. \A g \in Files : rebuilt[g] = 0 => ReadsFrom(W, g, stored[g])
  BY <1>3, <1>5, <1>6, <1>7 DEF ReadsFrom
<1>10. W.phase = watchers[w].phase
  BY <1>2, <1>6
<1> QED
  BY <1>1, <1>2, <1>4, <1>8, <1>9, <1>10, OneStep

LEMMA TakeTaskTidy ==
    ASSUME Inv, Inv', Tidy, NEW w \in DOMAIN watchers, TakeTask(w)
    PROVE  Tidy'
<1> DEFINE task == Head(watchers[w].chain)
           f == task.file
           from == IF task.kind = "reread" THEN 0 ELSE watchers[w].offsets[f]
           new == Opened(f, from)
           W == [watchers[w] EXCEPT !.chain = Tail(@), !.offsets[f] = from, !.job["chain"] = new]
<1>1. /\ handOver = Nothing /\ handOver' = Nothing
      /\ UNCHANGED <<waiting, handed, again, rebuilt>>
      /\ stored' = IF task.kind = "reread" THEN [stored EXCEPT ![f] = 0] ELSE stored
      /\ watchers' = [watchers EXCEPT ![w].chain = Tail(@), ![w].offsets[f] = from,
                                      ![w].job["chain"] = new]
  BY DEF TakeTask, Quiet, history
<1>2. ~Resting(watchers[w]) /\ watchers[w].chain # <<>>
  BY DEF TakeTask, Resting
<1>3. /\ Orderly(watchers[w], rebuilt) /\ watchers[w] \in Watcher
      /\ watchers[w].offsets \in [Files -> Nat] /\ watchers[w].chain \in Seq(Tasks)
      /\ watchers[w].job \in [Sides -> Job \cup {Idle}]
      /\ \A g \in Files : rebuilt[g] = 0 => ReadsFrom(watchers[w], g, stored[g])
  BY <1>2, ActingParts
<1>4. /\ task \in Tasks /\ Tail(watchers[w].chain) \in Seq(Tasks) /\ f \in Files
      /\ task = watchers[w].chain[1] /\ 1 \in DOMAIN watchers[w].chain
      /\ \A i \in DOMAIN Tail(watchers[w].chain) :
            i + 1 \in DOMAIN watchers[w].chain /\ Tail(watchers[w].chain)[i] = watchers[w].chain[i + 1]
  <2>1. task \in Tasks /\ Tail(watchers[w].chain) \in Seq(Tasks)
    BY <1>2, <1>3, HeadTailProperties
  <2>2. /\ task = watchers[w].chain[1] /\ 1 \in DOMAIN watchers[w].chain
        /\ \A i \in DOMAIN Tail(watchers[w].chain) :
              i + 1 \in DOMAIN watchers[w].chain /\ Tail(watchers[w].chain)[i] = watchers[w].chain[i + 1]
    BY <1>2, <1>3, HeadTailProperties
  <2> QED
    BY <2>1, <2>2 DEF Tasks
<1>5. new.file = f /\ new.from = from
  BY DEF Opened
<1>6. /\ rebuilt[f] > 0 \/ (task.kind = "tail" /\ watchers[w].phase \in {"watching", "stopped"})
      /\ rebuilt[f] = 0 => from = watchers[w].offsets[f] /\ stored' = stored
  <2>1. rebuilt[f] > 0 \/ (task.kind = "tail" /\ watchers[w].phase \in {"watching", "stopped"})
    BY <1>3, <1>4 DEF Orderly
  <2>2. rebuilt[f] = 0 => task.kind = "tail"
    <3> HIDE DEF task, f, W
    <3> QED
      BY <2>1
  <2>3. task.kind = "tail" => from = watchers[w].offsets[f] /\ stored' = stored
    BY <1>1
  <2> HIDE DEF task, f, W, from, new
  <2> QED
    BY <2>1, <2>2, <2>3
<1>7. stored' = stored \/ stored' = [stored EXCEPT ![f] = 0]
  BY <1>1
<1> HIDE DEF task, f, from, new
<1>8. /\ W.offsets = [watchers[w].offsets EXCEPT ![f] = from]
      /\ W.job = [watchers[w].job EXCEPT !["chain"] = new]
      /\ W.chain = Tail(watchers[w].chain) /\ W.phase = watchers[w].phase
      /\ W.notice = watchers[w].notice
  BY <1>3 DEF Watcher
<1>9. watchers' = [watchers EXCEPT ![w] = W]
  BY <1>1, <1>3 DEF Watcher
<1> HIDE DEF W
<1>10. /\ W.job["chain"] = new /\ W.job["walk"] = watchers[w].job["walk"]
       /\ \A side \in Sides : W.job[side] = new \/ W.job[side] = watchers[w].job[side]
  BY <1>3, <1>8 DEF Sides
<1>11. Orderly(W, rebuilt)
  <2>1. \A i \in DOMAIN W.chain :
          \/ rebuilt[W.chain[i].file] > 0
          \/ W.chain[i].kind = "tail" /\ W.phase \in {"watching", "stopped"}
    BY <1>3, <1>4, <1>8 DEF Orderly
  <2>2. W.phase \in {"watching", "stopped"} \/ rebuilt[W.job["chain"].file] > 0
    BY <1>5, <1>6, <1>8, <1>10
  <2>3. /\ W.phase # "walking" => W.job["walk"] = Idle
        /\ W.phase # "watching" => W.notice = {}
    BY <1>3, <1>8, <1>10 DEF Orderly
  <2> QED
    BY <2>1, <2>2, <2>3 DEF Orderly
<1>12. \A g \in Files : rebuilt[g] = 0 => ReadsFrom(W, g, stored[g])
  <2> SUFFICES ASSUME NEW g \in Files, rebuilt[g] = 0 PROVE ReadsFrom(W, g, stored[g])
    OBVIOUS
  <2>1. ReadsFrom(watchers[w], g, stored[g])
    BY <1>3
  <2>2. g = f => from = stored[g]
    BY <1>6, <2>1 DEF ReadsFrom
  <2>3. W.offsets[g] = stored[g]
    BY <1>3, <1>8, <2>1, <2>2 DEF ReadsFrom
  <2>4. \A side \in Sides : W.job[side] # Idle /\ W.job[side].file = g => W.job[side].from = stored[g]
    BY <1>5, <1>10, <2>1, <2>2 DEF ReadsFrom
  <2> QED
    BY <2>3, <2>4 DEF ReadsFrom
<1>13. \A g \in Files : rebuilt[g] = 0 => stored'[g] = stored[g]
  <2>1. stored \in [Files -> Nat]
    BY DEF Inv, TypeOK
  <2> QED
    BY <1>6, <1>7, <2>1
<1>14. W.phase = watchers[w].phase
  BY <1>8
<1> QED
  BY <1>1, <1>2, <1>9, <1>11, <1>12, <1>13, <1>14, OneStep

LEMMA StatTidy ==
    ASSUME Inv, Inv', Tidy, NEW w \in DOMAIN watchers, NEW side \in Sides, Stat(w, side)
    PROVE  Tidy'
<1> DEFINE job == watchers[w].job[side]
           new == IF lines[job.file] <= job.from THEN Idle
                  ELSE [job EXCEPT !.at = "read", !.size = lines[job.file]]
           W == [watchers[w] EXCEPT !.job[side] = new]
<1>1. /\ handOver = Nothing /\ handOver' = Nothing /\ job # Idle
      /\ UNCHANGED <<waiting, handed, again, rebuilt, stored>>
      /\ watchers' = [watchers EXCEPT ![w].job[side] = new]
  BY DEF Stat, Quiet, history
<1>2. ~Resting(watchers[w])
  BY <1>1 DEF Resting
<1>3. /\ Orderly(watchers[w], rebuilt) /\ watchers[w] \in Watcher
      /\ watchers[w].job \in [Sides -> Job \cup {Idle}]
      /\ \A g \in Files : rebuilt[g] = 0 => ReadsFrom(watchers[w], g, stored[g])
  BY <1>2, ActingParts
<1>4. new = Idle \/ (new.file = job.file /\ new.from = job.from)
  <2>1. job \in Job
    BY <1>1, <1>3
  <2> HIDE DEF job
  <2> QED
    BY <2>1 DEF Job
<1> HIDE DEF new
<1>5. /\ W.offsets = watchers[w].offsets /\ W.chain = watchers[w].chain
      /\ W.job = [watchers[w].job EXCEPT ![side] = new]
      /\ W.phase = watchers[w].phase /\ W.notice = watchers[w].notice
  BY <1>3 DEF Watcher
<1>6. watchers' = [watchers EXCEPT ![w] = W]
  BY <1>1, <1>3 DEF Watcher
<1> HIDE DEF W
<1>7. \A s \in Sides : \/ W.job[s] = Idle \/ W.job[s] = watchers[w].job[s]
                       \/ watchers[w].job[s] # Idle /\ W.job[s].file = watchers[w].job[s].file
                          /\ W.job[s].from = watchers[w].job[s].from
  <2>1. ASSUME NEW s \in Sides
        PROVE  \/ W.job[s] = Idle \/ W.job[s] = watchers[w].job[s]
               \/ watchers[w].job[s] # Idle /\ W.job[s].file = watchers[w].job[s].file
                  /\ W.job[s].from = watchers[w].job[s].from
    <3>1. CASE s = side
      <4>1. W.job[s] = new
        BY <1>3, <1>5, <3>1
      <4> QED
        BY <1>1, <1>4, <3>1, <4>1
    <3>2. CASE s # side
      BY <1>3, <1>5, <3>2
    <3> QED
      BY <3>1, <3>2
  <2> QED
    BY <2>1
<1> HIDE DEF job
<1>8. "walk" \in Sides /\ "chain" \in Sides
  BY DEF Sides
<1>9. Orderly(W, rebuilt)
  BY <1>3, <1>5, <1>7, <1>8 DEF Orderly
<1>10. \A g \in Files : rebuilt[g] = 0 => ReadsFrom(W, g, stored[g])
  BY <1>3, <1>5, <1>7 DEF ReadsFrom
<1>11. W.phase = watchers[w].phase
  BY <1>5
<1> QED
  BY <1>1, <1>2, <1>6, <1>9, <1>10, <1>11, OneStep

LEMMA WriteTidy ==
    ASSUME Inv, Inv', Tidy, NEW f \in Files, Write(f)
    PROVE  Tidy'
<1> DEFINE Heard(w) == IF watchers[w].phase = "watching"
                         THEN [watchers[w] EXCEPT !.notice = @ \cup {f}] ELSE watchers[w]
<1>1. /\ handOver = Nothing /\ handOver' = Nothing
      /\ UNCHANGED <<waiting, handed, again, rebuilt, stored>>
      /\ watchers' = [w \in DOMAIN watchers |-> Heard(w)]
  BY DEF Write, Quiet, history
<1>2. \A w \in DOMAIN watchers :
        /\ Heard(w).offsets = watchers[w].offsets /\ Heard(w).job = watchers[w].job
        /\ Heard(w).chain = watchers[w].chain /\ Heard(w).phase = watchers[w].phase
        /\ watchers[w].phase # "watching" => Heard(w) = watchers[w]
  <2>1. \A w \in DOMAIN watchers : watchers[w] \in Watcher
    BY CurrentParts
  <2> QED
    BY <2>1 DEF Watcher
<1> HIDE DEF Heard
<1>3. \A w \in DOMAIN watchers : w # Current => watchers'[w] = watchers[w]
  <2>1. \A w \in DOMAIN watchers : w # Current => watchers[w].phase # "watching"
    BY DEF Tidy, OthersRest, Resting
  <2> QED
    BY <1>1, <1>2, <2>1
<1>4. ASSUME watchers # <<>>
      PROVE  /\ Orderly(watchers'[Current], rebuilt')
             /\ waiting # <<>> => watchers'[Current].phase \in {"stopped", "dead"}
             /\ \A g \in Files : rebuilt'[g] = 0 => ReadsFrom(watchers'[Current], g, stored[g])
  <2>1. Current \in DOMAIN watchers
    BY <1>4, CurrentParts
  <2>2. /\ Orderly(watchers[Current], rebuilt)
        /\ waiting # <<>> => watchers[Current].phase \in {"stopped", "dead"}
        /\ \A g \in Files : rebuilt[g] = 0 => ReadsFrom(watchers[Current], g, stored[g])
    BY <1>4 DEF Tidy, CurrentOrderly, SwapWaits, Settled
  <2>3. /\ watchers'[Current].offsets = watchers[Current].offsets
        /\ watchers'[Current].job = watchers[Current].job
        /\ watchers'[Current].chain = watchers[Current].chain
        /\ watchers'[Current].phase = watchers[Current].phase
        /\ watchers[Current].phase # "watching" => watchers'[Current] = watchers[Current]
    BY <1>1, <1>2, <2>1
  <2>4. Orderly(watchers'[Current], rebuilt)
    BY <2>2, <2>3 DEF Orderly
  <2>5. \A g \in Files : rebuilt[g] = 0 => ReadsFrom(watchers'[Current], g, stored[g])
    BY <2>2, <2>3, SameReadsFrom
  <2>6. rebuilt' = rebuilt
    BY <1>1
  <2> QED
    BY <2>2, <2>3, <2>4, <2>5, <2>6
<1>5. DOMAIN watchers' = DOMAIN watchers
  BY <1>1
<1>6. \A g \in Files : rebuilt'[g] = 0 => rebuilt[g] = 0 /\ stored'[g] = stored[g]
  BY <1>1
<1>7. UNCHANGED <<waiting, handed, again>>
  BY <1>1
<1> QED
  BY <1>1, <1>3, <1>4, <1>5, <1>6, <1>7, CurrentStep

LEMMA IndexOneTidy ==
    ASSUME Tidy, (\E f \in Files : IndexOne(f)) \/ UNCHANGED vars
    PROVE  Tidy'
<1>1. UNCHANGED <<watchers, waiting, handOver, stored, handed, again, rebuilt>>
  BY DEF IndexOne, vars, history
<1>2. Current' = Current
  BY <1>1 DEF Current
<1>3. OthersRest' /\ CurrentOrderly' /\ SwapWaits' /\ HandOverHere'
  BY <1>1, <1>2 DEF Tidy, OthersRest, CurrentOrderly, SwapWaits, HandOverHere
<1>4. \A f \in Files : rebuilt'[f] = 0 => Settled(f)'
  BY <1>1, <1>2 DEF Tidy, Settled, HandedBelow
<1> QED
  BY <1>3, <1>4 DEF Tidy

LEMMA RebuildTidy ==
    ASSUME Inv, Inv', Tidy, NEW f \in Files, Rebuild(f)
    PROVE  Tidy'
<1> DEFINE task == [kind |-> "reread", file |-> f]
           W == [watchers[Current] EXCEPT !.chain = Append(@, task)]
<1>1. /\ handOver = Nothing /\ handOver' = Nothing /\ waiting = <<>> /\ watchers # <<>>
      /\ UNCHANGED <<waiting, handed, again, stored>>
      /\ watchers' = [watchers EXCEPT ![Current] = W]
      /\ rebuilt' = [rebuilt EXCEPT ![f] = @ + 1]
  BY DEF Rebuild, Quiet
<1>2. /\ Current \in DOMAIN watchers /\ watchers[Current] \in Watcher
      /\ rebuilt \in [Files -> Nat] /\ watchers[Current].chain \in Seq(Tasks)
      /\ watchers[Current].job \in [Sides -> Job \cup {Idle}]
  BY <1>1, CurrentParts, WatcherParts DEF Inv
<1>3. /\ W.offsets = watchers[Current].offsets /\ W.job = watchers[Current].job
      /\ W.chain = Append(watchers[Current].chain, task) /\ W.phase = watchers[Current].phase
      /\ W.notice = watchers[Current].notice
  BY <1>2 DEF Watcher
<1>4. task.file = f
  OBVIOUS
<1> HIDE DEF W, task
<1>5. /\ Orderly(watchers[Current], rebuilt)
      /\ \A g \in Files : rebuilt[g] = 0 => ReadsFrom(watchers[Current], g, stored[g])
  BY <1>1 DEF Tidy, CurrentOrderly, Settled
<1>6. /\ \A g \in Files : rebuilt'[g] = 0 => rebuilt[g] = 0
      /\ \A g \in Files : rebuilt[g] > 0 => rebuilt'[g] > 0
      /\ rebuilt'[f] > 0
  BY <1>1, <1>2
<1>7. Orderly(W, rebuilt')
  <2>1. ASSUME NEW i \in DOMAIN W.chain
        PROVE  \/ rebuilt'[W.chain[i].file] > 0
               \/ W.chain[i].kind = "tail" /\ W.phase \in {"watching", "stopped"}
    <3>1. (i \in DOMAIN watchers[Current].chain /\ W.chain[i] = watchers[Current].chain[i])
          \/ W.chain[i] = task
      BY <1>2, <1>3
    <3>2. CASE W.chain[i] = task
      <4>1. W.chain[i].file = f
        BY <1>4, <3>2
      <4> QED
        BY <1>6, <4>1
    <3>3. CASE i \in DOMAIN watchers[Current].chain /\ W.chain[i] = watchers[Current].chain[i]
      <4>1. W.chain[i].file \in Files
        <5> DEFINE c == watchers[Current].chain
        <5>1. c \in Seq(Tasks) /\ i \in DOMAIN c /\ W.chain[i] = c[i]
          BY <1>2, <3>3
        <5> HIDE DEF c
        <5>2. c[i] \in Tasks
          BY <5>1
        <5> QED
          BY <5>1, <5>2 DEF Tasks
      <4> QED
        BY <1>3, <1>5, <1>6, <3>3, <4>1 DEF Orderly
    <3> QED
      BY <3>1, <3>2, <3>3
  <2>2. W.job["chain"] # Idle => W.phase \in {"watching", "stopped"} \/ rebuilt'[W.job["chain"].file] > 0
    <3>1. "chain" \in Sides
      BY DEF Sides
    <3>2. W.job["chain"] # Idle => W.job["chain"].file \in Files
      BY <1>2, <1>3, <3>1 DEF Job
    <3> QED
      BY <1>3, <1>5, <1>6, <3>2 DEF Orderly
  <2>3. /\ W.phase # "walking" => W.job["walk"] = Idle
        /\ W.phase # "watching" => W.notice = {}
    BY <1>3, <1>5 DEF Orderly
  <2> QED
    BY <2>1, <2>2, <2>3 DEF Orderly
<1>8. \A g \in Files : rebuilt'[g] = 0 => ReadsFrom(W, g, stored[g])
  BY <1>3, <1>5, <1>6, SameReadsFrom
<1>9. /\ DOMAIN watchers' = DOMAIN watchers /\ watchers'[Current] = W
      /\ \A w \in DOMAIN watchers : w # Current => watchers'[w] = watchers[w]
  BY <1>1, <1>2
<1>10. \A g \in Files : rebuilt'[g] = 0 => rebuilt[g] = 0 /\ stored'[g] = stored[g]
  BY <1>1, <1>6
<1>11. UNCHANGED <<waiting, handed, again>>
  BY <1>1
<1> QED
  BY <1>1, <1>7, <1>8, <1>9, <1>10, <1>11, CurrentStep

(* Publishing moves the stored offset and the watcher's together, and no   *)
(* other read of the file is under way.                                    *)
LEMMA PublishTidy ==
    ASSUME Inv, Inv', Tidy, NEW w \in DOMAIN watchers, NEW side \in Sides, Publish(w, side)
    PROVE  Tidy'
<1> DEFINE job == watchers[w].job[side]
           W == [watchers[w] EXCEPT !.offsets[job.file] = job.size, !.job[side] = Idle]
<1>1. /\ handOver = Nothing /\ job # Idle /\ job.at = "read"
      /\ handOver' = [watcher |-> w, side |-> side, file |-> job.file,
                      next |-> job.from + 1, upTo |-> job.size]
      /\ UNCHANGED <<waiting, handed, again, rebuilt>>
      /\ stored' = [stored EXCEPT ![job.file] = job.size]
      /\ watchers' = [watchers EXCEPT ![w].offsets[job.file] = job.size, ![w].job[side] = Idle]
  BY DEF Publish, Quiet, history
<1>2. ~Resting(watchers[w])
  BY <1>1 DEF Resting
<1>3. /\ w = Current /\ Orderly(watchers[w], rebuilt) /\ watchers[w] \in Watcher
      /\ watchers[w].offsets \in [Files -> Nat]
      /\ watchers[w].job \in [Sides -> Job \cup {Idle}]
      /\ \A g \in Files : rebuilt[g] = 0 => ReadsFrom(watchers[w], g, stored[g])
  BY <1>2, ActingParts
<1>4. /\ job \in Job /\ job.file \in Files /\ job.from \in Nat /\ job.size \in Nat
      /\ job.from < job.size
  <2>1. Honest(watchers[w], Accounts)
    BY WatcherParts DEF Inv
  <2> QED
    BY <1>1, <1>3, <2>1 DEF Job, Honest
<1>5. PICK f \in Files, from \in Nat, size \in Nat :
        f = job.file /\ from = job.from /\ size = job.size /\ from < size
  BY <1>4
<1>6. /\ W.offsets = [watchers[w].offsets EXCEPT ![f] = size]
      /\ W.job = [watchers[w].job EXCEPT ![side] = Idle] /\ W.chain = watchers[w].chain
      /\ W.phase = watchers[w].phase /\ W.notice = watchers[w].notice
  BY <1>3, <1>5 DEF Watcher
<1>7. watchers' = [watchers EXCEPT ![w] = W]
  BY <1>1, <1>3 DEF Watcher
<1> HIDE DEF W
<1>8. /\ handOver'.watcher = w /\ handOver'.side = side /\ handOver'.file = f
      /\ handOver'.next = from + 1 /\ handOver'.upTo = size
  BY <1>1, <1>5
<1>9. /\ DOMAIN watchers' = DOMAIN watchers /\ watchers'[w] = W
      /\ \A v \in DOMAIN watchers : v # w => watchers'[v] = watchers[v]
  BY <1>7
<1>10. /\ Current' = Current /\ watchers' # <<>>
  <2>1. DOMAIN watchers = 1..Current /\ Current \in Nat
        /\ (watchers # <<>> <=> Current \in DOMAIN watchers)
    BY CurrentParts
  <2>2. DOMAIN watchers' = 1..Current' /\ Current' \in Nat
        /\ (watchers' # <<>> <=> Current' \in DOMAIN watchers')
    BY CurrentParts DEF Inv, TypeOK, Current
  <2> HIDE DEF Current
  <2> QED
    BY <1>9, <2>1, <2>2
<1>11. \A s \in Sides : W.job[s] = Idle \/ (s # side /\ W.job[s] = watchers[w].job[s])
  BY <1>3, <1>6
<1>12. OthersRest'
  BY <1>3, <1>9, <1>10 DEF Tidy, OthersRest
<1>13. CurrentOrderly'
  <2>1. "walk" \in Sides /\ "chain" \in Sides
    BY DEF Sides
  <2>2. Orderly(W, rebuilt)
    BY <1>3, <1>6, <1>11, <2>1 DEF Orderly
  <2>3. rebuilt' = rebuilt
    BY <1>1
  <2> QED
    BY <1>3, <1>9, <1>10, <2>2, <2>3 DEF CurrentOrderly
<1>14. SwapWaits'
  BY <1>1, <1>3, <1>6, <1>9, <1>10 DEF Tidy, SwapWaits
<1>15. HandOverHere'
  <2>1. W.job[side] = Idle
    BY <1>3, <1>6
  <2>2. side = "walk" => W.phase = "walking"
    BY <1>1, <1>3, <1>6 DEF Orderly
  <2> QED
    BY <1>3, <1>8, <1>9, <1>10, <2>1, <2>2 DEF HandOverHere
<1>16. ASSUME NEW g \in Files, rebuilt'[g] = 0 PROVE Settled(g)'
  <2>1. Settled(g) /\ rebuilt[g] = 0 /\ stored \in [Files -> Nat] /\ handed \in [Files -> SUBSET Nat]
    BY <1>1, <1>16 DEF Tidy, Inv, TypeOK
  <2>2. CASE g # f
    <3>1. stored'[g] = stored[g]
      BY <1>1, <1>5, <2>1, <2>2
    <3>2. HandedBelow(g)'
      BY <1>1, <1>8, <2>1, <2>2, <3>1 DEF Settled, HandedBelow
    <3>3. ReadsFrom(W, g, stored[g])
      <4>1. ReadsFrom(watchers[w], g, stored[g])
        BY <1>3, <2>1
      <4> QED
        BY <1>3, <1>6, <1>11, <2>2, <4>1 DEF ReadsFrom
    <3> QED
      BY <1>3, <1>9, <1>10, <3>1, <3>2, <3>3 DEF Settled
  <2>3. CASE g = f
    <3>1. from = stored[f] /\ stored'[f] = size
      BY <1>1, <1>3, <1>5, <2>1, <2>3 DEF ReadsFrom
    <3>2. handed[f] \subseteq 1..from /\ f \notin again
      BY <2>1, <2>3, <3>1 DEF Settled, HandedBelow
    <3>3. HandedBelow(f)'
      <4>1. f \notin again' /\ handed'[f] = handed[f]
        BY <1>1, <3>2
      <4>2. handed'[f] \subseteq 1..stored'[f]
        BY <1>5, <3>1, <3>2, <4>1
      <4>3. handOver'.upTo = stored'[f] /\ \A n \in handed'[f] : n < handOver'.next
        BY <1>5, <1>8, <3>1, <3>2, <4>1
      <4> QED
        BY <4>1, <4>2, <4>3 DEF HandedBelow
    <3>4. \A s \in Sides : W.job[s] # Idle => W.job[s].file # f
      <4> SUFFICES ASSUME NEW s \in Sides, W.job[s] # Idle, W.job[s].file = f PROVE FALSE
        OBVIOUS
      <4>1. s # side /\ watchers[w].job[s] # Idle /\ watchers[w].job[s].file = f
        BY <1>11
      <4>2. watchers[w].job["walk"] # Idle /\ watchers[w].job["chain"] # Idle
            /\ watchers[w].job["chain"].file = f
        BY <1>1, <1>5, <4>1 DEF Sides
      <4>3. watchers[w].phase = "walking" /\ ~(rebuilt[f] > 0)
        BY <1>3, <2>1, <2>3, <4>2 DEF Orderly
      <4> QED
        BY <1>3, <4>2, <4>3 DEF Orderly
    <3>5. W.offsets[f] = size
      BY <1>3, <1>6
    <3>6. ReadsFrom(W, f, size)
      BY <3>4, <3>5 DEF ReadsFrom
    <3> QED
      BY <1>3, <1>9, <1>10, <2>3, <3>1, <3>3, <3>6 DEF Settled
  <2> QED
    BY <2>2, <2>3
<1> QED
  BY <1>12, <1>13, <1>14, <1>15, <1>16 DEF Tidy

LEMMA HandOverTidy ==
    ASSUME Inv, Inv', Tidy, HandOver
    PROVE  Tidy'
<1> DEFINE f == handOver.file
           n == handOver.next
<1>1. /\ handOver # Nothing
      /\ handed' = [handed EXCEPT ![f] = @ \cup {n}]
      /\ again' = IF n \in handed[f] THEN again \cup {f} ELSE again
      /\ handOver' = IF n = handOver.upTo THEN Nothing ELSE [handOver EXCEPT !.next = n + 1]
      /\ UNCHANGED <<stored, watchers, waiting, rebuilt>>
  BY DEF HandOver, Quiet
<1>2. /\ handOver \in HandOvers /\ f \in Files /\ n \in Nat /\ handOver.upTo \in Nat
      /\ n > 0 /\ n <= handOver.upTo
      /\ handed \in [Files -> SUBSET Nat]
  <2>1. handOver \in HandOvers /\ handed \in [Files -> SUBSET Nat]
    BY <1>1 DEF Inv, TypeOK
  <2> QED
    BY <1>1, <2>1 DEF Inv, HandOverInOrder, HandOvers
<1>3. \/ handOver' = Nothing
      \/ /\ handOver'.watcher = handOver.watcher /\ handOver'.side = handOver.side
         /\ handOver'.file = f /\ handOver'.next = n + 1 /\ handOver'.upTo = handOver.upTo
  <2>1. CASE n = handOver.upTo
    BY <1>1, <2>1
  <2>2. CASE n # handOver.upTo
    <3>1. handOver' = [handOver EXCEPT !.next = n + 1]
      BY <1>1, <2>2
    <3> HIDE DEF n, f
    <3>2. /\ handOver'.watcher = handOver.watcher /\ handOver'.side = handOver.side
          /\ handOver'.file = handOver.file /\ handOver'.next = n + 1
          /\ handOver'.upTo = handOver.upTo
      BY <1>2, <3>1 DEF HandOvers
    <3> QED
      BY <3>2 DEF f
  <2> QED
    BY <2>1, <2>2
<1>4. Current' = Current
  BY <1>1 DEF Current
<1> HIDE DEF n
<1>5. OthersRest' /\ CurrentOrderly' /\ SwapWaits'
  BY <1>1, <1>4 DEF Tidy, OthersRest, CurrentOrderly, SwapWaits
<1>6. HandOverHere'
  BY <1>1, <1>3, <1>4 DEF Tidy, HandOverHere
<1>7. ASSUME NEW g \in Files, rebuilt'[g] = 0 PROVE Settled(g)'
  <2>1. Settled(g)
    BY <1>1, <1>7 DEF Tidy
  <2>2. CASE g # f
    <3>1. handed'[g] = handed[g] /\ (g \in again' => g \in again)
      BY <1>1, <1>2, <2>2
    <3>2. handOver' # Nothing => handOver'.file # g
      BY <1>3, <2>2
    <3> HIDE DEF f
    <3>3. HandedBelow(g)'
      BY <1>1, <2>1, <3>1, <3>2 DEF Settled, HandedBelow
    <3> QED
      BY <1>1, <1>4, <2>1, <3>3 DEF Settled
  <2>3. CASE g = f
    <3>1. /\ handOver.upTo = stored[g] /\ \A m \in handed[g] : m < n
          /\ g \notin again /\ handed[g] \subseteq 1..stored[g]
      BY <1>1, <2>1, <2>3 DEF Settled, HandedBelow, n
    <3>2. handed'[g] = handed[g] \cup {n}
      BY <1>1, <1>2, <2>3
    <3>3. n \notin handed[g]
      BY <1>2, <3>1
    <3>4. g \notin again'
      BY <1>1, <2>3, <3>1, <3>3
    <3>5. handed'[g] \subseteq 1..stored[g]
      BY <1>2, <3>1, <3>2
    <3>6. \A m \in handed'[g] : m < n + 1
      <4>1. handed[g] \in SUBSET Nat
        BY <1>2, <2>3
      <4> QED
        BY <1>2, <3>1, <3>2, <4>1
    <3>7. handOver' # Nothing => handOver'.upTo = stored[g] /\ handOver'.next = n + 1
      BY <1>3, <3>1
    <3> HIDE DEF f
    <3>8. HandedBelow(g)'
      BY <1>1, <3>4, <3>5, <3>6, <3>7 DEF HandedBelow
    <3> QED
      BY <1>1, <1>4, <2>1, <3>8 DEF Settled
  <2> QED
    BY <2>2, <2>3
<1> QED
  BY <1>5, <1>6, <1>7 DEF Tidy

LEMMA SetRootsTidy ==
    ASSUME Inv, Inv', Tidy, SetRoots, ~overlapped'
    PROVE  Tidy'
<1>1. /\ handOver = Nothing /\ handOver' = Nothing /\ watchers # <<>>
      /\ UNCHANGED <<handed, again, rebuilt, stored>>
      /\ waiting = <<>> /\ waiting' = <<Current>> /\ watchers[Current].phase # "walking"
      /\ watchers' = IF watchers[Current].phase = "watching"
                       THEN [watchers EXCEPT ![Current].phase = "stopped", ![Current].notice = {}]
                       ELSE watchers
  <2>1. waiting = <<>> /\ watchers[Current].phase # "walking" /\ watchers # <<>>
        /\ waiting' = Append(waiting, Current)
    BY DEF SetRoots
  <2>2. waiting' = <<Current>>
    BY <2>1
  <2> QED
    BY <2>1, <2>2 DEF SetRoots, Quiet, history
<1>2. /\ Current \in DOMAIN watchers /\ watchers[Current] \in Watcher
      /\ Orderly(watchers[Current], rebuilt)
      /\ \A g \in Files : rebuilt[g] = 0 => ReadsFrom(watchers[Current], g, stored[g])
  BY <1>1, CurrentParts DEF Tidy, CurrentOrderly, Settled
<1>3. \E W : /\ watchers' = [watchers EXCEPT ![Current] = W]
             /\ W.offsets = watchers[Current].offsets /\ W.job = watchers[Current].job
             /\ W.chain = watchers[Current].chain /\ W.notice = {}
             /\ W.phase \in {"stopped", "dead"}
             /\ \/ W.phase = watchers[Current].phase
                \/ /\ watchers[Current].phase = "watching"
                   /\ W.phase = "stopped"
  <2>1. CASE watchers[Current].phase = "watching"
    <3> DEFINE W == [watchers[Current] EXCEPT !.phase = "stopped", !.notice = {}]
    <3>1. watchers' = [watchers EXCEPT ![Current] = W]
      BY <1>1, <1>2, <2>1 DEF Watcher
    <3>2. /\ W.offsets = watchers[Current].offsets /\ W.job = watchers[Current].job
          /\ W.chain = watchers[Current].chain /\ W.notice = {} /\ W.phase = "stopped"
      BY <1>2 DEF Watcher
    <3> QED
      BY <2>1, <3>1, <3>2
  <2>2. CASE watchers[Current].phase # "watching"
    <3>1. watchers' = [watchers EXCEPT ![Current] = watchers[Current]]
      BY <1>1, <1>2, <2>2, CurrentParts
    <3>2. watchers[Current].notice = {} /\ watchers[Current].phase \in {"stopped", "dead"}
      BY <1>1, <1>2, <2>2 DEF Orderly, Watcher
    <3> QED
      BY <3>1, <3>2
  <2> QED
    BY <2>1, <2>2
<1>4. PICK W : /\ watchers' = [watchers EXCEPT ![Current] = W]
               /\ W.offsets = watchers[Current].offsets /\ W.job = watchers[Current].job
               /\ W.chain = watchers[Current].chain /\ W.notice = {}
               /\ W.phase \in {"stopped", "dead"}
               /\ \/ W.phase = watchers[Current].phase
                  \/ /\ watchers[Current].phase = "watching"
                     /\ W.phase = "stopped"
  BY <1>3
<1>5. /\ DOMAIN watchers' = DOMAIN watchers /\ watchers'[Current] = W
      /\ \A v \in DOMAIN watchers : v # Current => watchers'[v] = watchers[v]
  BY <1>2, <1>4
<1>6. Current' = Current /\ watchers' # <<>>
  <2>1. DOMAIN watchers = 1..Current /\ Current \in Nat
        /\ (watchers # <<>> <=> Current \in DOMAIN watchers)
    BY CurrentParts
  <2>2. DOMAIN watchers' = 1..Current' /\ Current' \in Nat
        /\ (watchers' # <<>> <=> Current' \in DOMAIN watchers')
    BY CurrentParts DEF Inv, TypeOK, Current
  <2> HIDE DEF Current
  <2> QED
    BY <1>1, <1>5, <2>1, <2>2
<1>7. OthersRest'
  BY <1>5, <1>6 DEF Tidy, OthersRest
<1>8. CurrentOrderly'
  <2>1. Orderly(W, rebuilt)
    BY <1>1, <1>2, <1>4 DEF Orderly
  <2> QED
    BY <1>1, <1>5, <1>6, <2>1 DEF CurrentOrderly
<1>9. SwapWaits'
  BY <1>1, <1>4, <1>5, <1>6 DEF SwapWaits
<1>10. HandOverHere'
  BY <1>1 DEF HandOverHere
<1>11. ASSUME NEW g \in Files, rebuilt'[g] = 0 PROVE Settled(g)'
  <2>1. Settled(g) /\ ReadsFrom(W, g, stored[g])
    BY <1>1, <1>2, <1>4, <1>11, SameReadsFrom DEF Tidy
  <2>2. HandedBelow(g)'
    BY <1>1, <2>1 DEF Settled, HandedBelow
  <2> QED
    BY <1>1, <1>5, <1>6, <2>1, <2>2 DEF Settled
<1> QED
  BY <1>7, <1>8, <1>9, <1>10, <1>11 DEF Tidy

(* The stopped watcher has come to rest when the next one begins, and that *)
(* one begins at the stored offsets; at the start of a life these are 0.    *)
LEMMA JoinTidy ==
    ASSUME Inv, Inv', Tidy, Unborn, Boot \/ \E i \in DOMAIN waiting : Swapped(i)
    PROVE  Tidy'
<1> DEFINE New == NewWatcher(stored')
<1>1. /\ UNCHANGED <<handed, again, rebuilt, handOver>>
      /\ watchers' = Append(watchers, New)
      /\ \A g \in Files : stored'[g] = stored[g] \/ handed[g] = {}
  <2>1. CASE Boot
    <3>1. watchers' = Append(watchers, New) /\ watchers = <<>>
      BY <2>1 DEF Boot
    <3> QED
      BY <2>1, <3>1 DEF Boot, history, Unborn
  <2>2. ASSUME NEW i \in DOMAIN waiting, Swapped(i)
        PROVE  /\ UNCHANGED <<handed, again, rebuilt, handOver, stored>>
               /\ watchers' = Append(watchers, New)
    BY <2>2 DEF Swapped, history
  <2> QED
    BY <2>1, <2>2
<1>7. /\ New.offsets = stored' /\ New.chain = <<>> /\ New.notice = {}
      /\ New.phase = "walking" /\ \A side \in Sides : New.job[side] = Idle
  BY DEF NewWatcher
<1> HIDE DEF New
<1>2. watchers \in Seq(Watcher) /\ watchers' \in Seq(Watcher) /\ stored \in [Files -> Nat]
  BY DEF Inv, TypeOK
<1>3. /\ Current' = Current + 1 /\ Current \in Nat /\ watchers' # <<>>
      /\ DOMAIN watchers = 1..Current /\ DOMAIN watchers' = 1..(Current + 1)
      /\ watchers'[Current + 1] = New
      /\ \A w \in DOMAIN watchers : watchers'[w] = watchers[w]
  BY <1>1, <1>2 DEF Current
<1>4. handOver = Nothing /\ handOver' = Nothing
  <2>1. CASE Boot
    BY <1>1, <2>1 DEF Tidy, HandOverHere, Boot
  <2>2. CASE \E i \in DOMAIN waiting : Swapped(i)
    BY <1>1, <2>2 DEF Swapped, Quiet
  <2> QED
    BY <2>1, <2>2
<1>5. waiting' = <<>> /\ (watchers # <<>> => Resting(watchers[Current]))
  <2>1. CASE Boot
    BY <2>1 DEF Boot, Tidy, SwapWaits
  <2>2. ASSUME NEW i \in DOMAIN waiting, Swapped(i)
        PROVE  waiting' = <<>> /\ (watchers # <<>> => Resting(watchers[Current]))
    <3>1. waiting \in Seq(Nat) /\ waiting # <<>>
      BY <2>2 DEF Inv, TypeOK
    <3>2. waiting = <<Current>> /\ i = 1
      BY <2>2, <3>1 DEF Tidy, SwapWaits
    <3>3. waiting' = <<>>
      <4>1. Len(waiting) - 1 = 0
        BY <3>2
      <4>2. waiting' = [j \in 1..0 |-> IF j < i THEN waiting[j] ELSE waiting[j + 1]]
        BY <2>2, <4>1 DEF Swapped
      <4>3. waiting' \in Seq(Nat) /\ DOMAIN waiting' = 1..0
        BY <4>2 DEF Inv, TypeOK
      <4> QED
        BY <4>3
    <3>4. /\ watchers[Current].phase \in {"stopped", "dead"} /\ watchers[Current].chain = <<>>
          /\ watchers[Current].job["chain"] = Idle /\ Orderly(watchers[Current], rebuilt)
      BY <2>2, <3>1, <3>2 DEF Tidy, SwapWaits, CurrentOrderly, Swapped, AtRest
    <3>5. Resting(watchers[Current])
      BY <3>4 DEF Resting, Orderly, Sides
    <3> QED
      BY <3>3, <3>5
  <2> QED
    BY <2>1, <2>2
<1>6. OthersRest'
  <2> SUFFICES ASSUME NEW w \in DOMAIN watchers', w # Current'
               PROVE  Resting(watchers'[w])
    BY DEF OthersRest
  <2>1. w \in DOMAIN watchers /\ watchers'[w] = watchers[w]
    BY <1>3
  <2>2. CASE w = Current
    <3>1. watchers # <<>>
      BY <2>1, <2>2, CurrentParts
    <3> QED
      BY <1>5, <2>1, <2>2, <3>1
  <2>3. CASE w # Current
    BY <2>1, <2>3 DEF Tidy, OthersRest
  <2> QED
    BY <2>2, <2>3
<1>8. Orderly(New, rebuilt)
  <2>1. "walk" \in Sides /\ "chain" \in Sides
    BY DEF Sides
  <2> QED
    BY <1>7, <2>1 DEF Orderly
<1>9. CurrentOrderly' /\ SwapWaits' /\ HandOverHere'
  BY <1>1, <1>3, <1>4, <1>5, <1>8 DEF CurrentOrderly, SwapWaits, HandOverHere
<1>10. ASSUME NEW g \in Files, rebuilt'[g] = 0 PROVE Settled(g)'
  <2>1. Settled(g)
    BY <1>1, <1>10 DEF Tidy
  <2>2. HandedBelow(g)'
    BY <1>1, <1>4, <2>1 DEF Settled, HandedBelow
  <2>3. ReadsFrom(New, g, stored'[g])
    BY <1>7 DEF ReadsFrom
  <2> QED
    BY <1>3, <2>2, <2>3 DEF Settled
<1> QED
  BY <1>6, <1>9, <1>10 DEF Tidy

LEMMA DiesTidy ==
    ASSUME Crash \/ BootThrows
    PROVE  Tidy' /\ Unborn'
<1>1. /\ watchers' = <<>> /\ waiting' = <<>> /\ handOver' = Nothing /\ again' = {}
      /\ \A f \in Files : handed'[f] = {}
  BY DEF Crash, BootThrows, Dies
<1>2. OthersRest' /\ CurrentOrderly' /\ SwapWaits' /\ HandOverHere'
  BY <1>1 DEF OthersRest, CurrentOrderly, SwapWaits, HandOverHere
<1>3. \A g \in Files : Settled(g)'
  BY <1>1 DEF Settled, HandedBelow
<1> QED
  BY <1>1, <1>2, <1>3 DEF Tidy, Unborn

LEMMA ThrowsTidy ==
    ASSUME Inv, Inv', Tidy, ChainThrows \/ SwapThrows
    PROVE  Tidy'
<1>1. /\ handOver # Nothing /\ handOver' = Nothing
      /\ UNCHANGED <<waiting, handed, again, rebuilt, stored>>
      /\ \/ watchers' = watchers
         \/ /\ handOver.side = "walk"
            /\ watchers' = [watchers EXCEPT ![handOver.watcher].phase = "dead"]
  BY DEF ChainThrows, SwapThrows, Quiet
<1>2. /\ watchers # <<>> /\ handOver.watcher = Current /\ Current \in DOMAIN watchers
      /\ watchers[Current] \in Watcher /\ watchers[Current].job[handOver.side] = Idle
      /\ handOver.side = "walk" => watchers[Current].phase = "walking"
      /\ Orderly(watchers[Current], rebuilt)
      /\ \A g \in Files : rebuilt[g] = 0 => ReadsFrom(watchers[Current], g, stored[g])
  BY <1>1, CurrentParts DEF Tidy, HandOverHere, CurrentOrderly, Settled
<1>3. \E W : /\ watchers' = [watchers EXCEPT ![Current] = W]
             /\ W.offsets = watchers[Current].offsets /\ W.job = watchers[Current].job
             /\ W.chain = watchers[Current].chain /\ W.notice = watchers[Current].notice
             /\ \/ W.phase = watchers[Current].phase
                \/ /\ watchers[Current].phase = "walking" /\ W.phase = "dead"
                   /\ watchers[Current].job["walk"] = Idle
  <2>1. CASE watchers' = watchers
    <3>1. watchers' = [watchers EXCEPT ![Current] = watchers[Current]]
      BY <1>2, <2>1, CurrentParts
    <3> QED
      BY <3>1
  <2>2. CASE handOver.side = "walk" /\ watchers' = [watchers EXCEPT ![handOver.watcher].phase = "dead"]
    <3> DEFINE W == [watchers[Current] EXCEPT !.phase = "dead"]
    <3>1. watchers' = [watchers EXCEPT ![Current] = W]
      BY <1>2, <2>2
    <3>2. /\ W.offsets = watchers[Current].offsets /\ W.job = watchers[Current].job
          /\ W.chain = watchers[Current].chain /\ W.notice = watchers[Current].notice
          /\ W.phase = "dead"
      BY <1>2 DEF Watcher
    <3> QED
      BY <1>2, <2>2, <3>1, <3>2
  <2> QED
    BY <1>1, <2>1, <2>2
<1>4. PICK W : /\ watchers' = [watchers EXCEPT ![Current] = W]
               /\ W.offsets = watchers[Current].offsets /\ W.job = watchers[Current].job
               /\ W.chain = watchers[Current].chain /\ W.notice = watchers[Current].notice
               /\ \/ W.phase = watchers[Current].phase
                  \/ /\ watchers[Current].phase = "walking" /\ W.phase = "dead"
                     /\ watchers[Current].job["walk"] = Idle
  BY <1>3
<1>5. /\ DOMAIN watchers' = DOMAIN watchers /\ watchers'[Current] = W
      /\ \A v \in DOMAIN watchers : v # Current => watchers'[v] = watchers[v]
  BY <1>2, <1>4
<1>6. Current' = Current /\ watchers' # <<>>
  <2>1. DOMAIN watchers = 1..Current /\ Current \in Nat
        /\ (watchers # <<>> <=> Current \in DOMAIN watchers)
    BY CurrentParts
  <2>2. DOMAIN watchers' = 1..Current' /\ Current' \in Nat
        /\ (watchers' # <<>> <=> Current' \in DOMAIN watchers')
    BY CurrentParts DEF Inv, TypeOK, Current
  <2> HIDE DEF Current
  <2> QED
    BY <1>2, <1>5, <2>1, <2>2
<1>7. OthersRest'
  BY <1>5, <1>6 DEF Tidy, OthersRest
<1>8. CurrentOrderly'
  <2>1. Orderly(W, rebuilt)
    BY <1>2, <1>4 DEF Orderly
  <2> QED
    BY <1>1, <1>5, <1>6, <2>1 DEF CurrentOrderly
<1>9. SwapWaits'
  BY <1>1, <1>4, <1>5, <1>6 DEF Tidy, SwapWaits
<1>10. HandOverHere'
  BY <1>1 DEF HandOverHere
<1>11. ASSUME NEW g \in Files, rebuilt'[g] = 0 PROVE Settled(g)'
  <2>1. Settled(g) /\ ReadsFrom(W, g, stored[g])
    BY <1>1, <1>2, <1>4, <1>11, SameReadsFrom DEF Tidy
  <2>2. HandedBelow(g)'
    BY <1>1, <2>1 DEF Settled, HandedBelow
  <2> QED
    BY <1>1, <1>5, <1>6, <2>1, <2>2 DEF Settled
<1> QED
  BY <1>7, <1>8, <1>9, <1>10, <1>11 DEF Tidy

LEMMA InitOInv == Init => OInv
<1> SUFFICES ASSUME Init PROVE OInv
  OBVIOUS
<1>1. Inv
  BY InitInv
<1>2. OthersRest /\ CurrentOrderly /\ SwapWaits /\ HandOverHere
  BY DEF Init, OthersRest, CurrentOrderly, SwapWaits, HandOverHere
<1>3. \A f \in Files : Settled(f)
  BY DEF Init, Settled, HandedBelow
<1>4. Unborn
  BY DEF Init, Unborn
<1> QED
  BY <1>1, <1>2, <1>3, <1>4 DEF OInv, Tidy

(* In one life, an overlap of swaps stays known, and the server stays up.  *)
LEMMA LifeGoesOn ==
    ASSUME Inv, Inv', [Next]_vars, ~(Crash \/ BootThrows)
    PROVE  /\ overlapped => overlapped'
           /\ Unborn => Unborn'
<1> DEFINE Goes == (overlapped => overlapped') /\ (Unborn => Unborn')
<1>0. watchers \in Seq(Watcher) /\ watchers' \in Seq(Watcher)
  BY DEF Inv, TypeOK
<1>1. ASSUME NEW f \in Files, Write(f) \/ IndexOne(f) \/ Rebuild(f) PROVE Goes
  <2>1. CASE Write(f)
    <3>1. DOMAIN watchers' = DOMAIN watchers
      BY <2>1 DEF Write
    <3>2. watchers' # <<>> \/ watchers = <<>>
      BY <1>0, <3>1
    <3> QED
      BY <2>1, <3>2 DEF Write, faults, history, Unborn
  <2>2. CASE IndexOne(f)
    BY <2>2 DEF IndexOne, faults, Unborn
  <2>3. CASE Rebuild(f)
    <3>1. watchers # <<>> /\ DOMAIN watchers' = DOMAIN watchers /\ (overlapped => overlapped')
      BY <2>3 DEF Rebuild, faults
    <3>2. watchers' # <<>>
      BY <1>0, <3>1
    <3> QED
      BY <3>1, <3>2 DEF Unborn
  <2> QED
    BY <1>1, <2>1, <2>2, <2>3
<1>2. ASSUME NEW w \in DOMAIN watchers,
             \/ \E f \in Files : LoseNotice(w, f) \/ Scan(w, f) \/ Report(w, f)
                                 \/ WalkRead(w, f) \/ WalkDefer(w, f)
             \/ TakeTask(w) \/ Arm(w) \/ \E side \in Sides : ReadStep(w, side)
      PROVE  Goes
  <2>1. DOMAIN watchers' = DOMAIN watchers /\ (overlapped => overlapped')
    <3>1. CASE \E f \in Files : LoseNotice(w, f) \/ Scan(w, f) \/ Report(w, f)
      BY <3>1 DEF LoseNotice, Scan, Report, faults
    <3>2. CASE \E f \in Files : WalkRead(w, f) \/ WalkDefer(w, f)
      BY <3>2 DEF WalkRead, WalkDefer, faults
    <3>3. CASE TakeTask(w)
      BY <3>3 DEF TakeTask, faults
    <3>4. CASE Arm(w)
      BY <3>4 DEF Arm, faults
    <3>5. CASE \E side \in Sides : ReadStep(w, side)
      BY <3>5 DEF ReadStep, Stat, Publish, faults
    <3> QED
      BY <1>2, <3>1, <3>2, <3>3, <3>4, <3>5
  <2>2. watchers' # <<>>
    BY <1>0, <2>1
  <2> QED
    BY <2>1, <2>2 DEF Unborn
<1>3. CASE HandOver
  BY <1>3 DEF HandOver, faults, Unborn, Quiet
<1>4. CASE ChainThrows \/ UNCHANGED vars
  BY <1>4 DEF ChainThrows, vars, history, faults, Unborn
<1>5. CASE SwapThrows
  <2>1. handOver # Nothing /\ DOMAIN watchers' = DOMAIN watchers /\ (overlapped => overlapped')
    BY <1>5 DEF SwapThrows, Quiet
  <2>2. Unborn => watchers' # <<>>
    BY <1>0, <2>1 DEF Unborn
  <2> QED
    BY <2>1, <2>2 DEF Unborn
<1>6. CASE SetRoots
  <2>1. watchers # <<>> /\ DOMAIN watchers' = DOMAIN watchers /\ (overlapped => overlapped')
    BY <1>6 DEF SetRoots
  <2>2. watchers' # <<>>
    BY <1>0, <2>1
  <2> QED
    BY <2>1, <2>2 DEF Unborn
<1>7. CASE Boot
  <2>1. (overlapped => overlapped') /\ watchers' # <<>>
    BY <1>7 DEF Boot, faults
  <2> QED
    BY <2>1 DEF Unborn
<1>8. ASSUME NEW i \in DOMAIN waiting, Swapped(i) PROVE Goes
  <2>1. (overlapped => overlapped') /\ watchers' = Append(watchers, NewWatcher(stored))
    BY <1>8 DEF Swapped, faults
  <2>2. watchers' # <<>>
    BY <1>0, <2>1
  <2> QED
    BY <2>1, <2>2 DEF Unborn
<1> QED
  BY <1>1, <1>2, <1>3, <1>4, <1>5, <1>6, <1>7, <1>8 DEF Next, WalkStep, WatchStep

LEMMA NextOInv == OInv /\ [Next]_vars => OInv'
<1> SUFFICES ASSUME OInv, [Next]_vars PROVE OInv'
  OBVIOUS
<1>1. Inv /\ Inv'
  BY NextInv DEF OInv
<1>2. CASE Crash \/ BootThrows
  BY <1>1, <1>2, DiesTidy DEF OInv
<1> SUFFICES ASSUME ~(Crash \/ BootThrows), ~overlapped' PROVE Tidy'
  BY <1>1, <1>2, LifeGoesOn DEF OInv
<1>3. Tidy /\ Unborn
  BY <1>1, LifeGoesOn DEF OInv
<1>4. ASSUME NEW f \in Files, Write(f) \/ IndexOne(f) \/ Rebuild(f)
      PROVE  Tidy'
  BY <1>1, <1>3, <1>4, WriteTidy, IndexOneTidy, RebuildTidy
<1>5. ASSUME NEW w \in DOMAIN watchers, NEW f \in Files,
             LoseNotice(w, f) \/ Scan(w, f) \/ Report(w, f) \/ WalkRead(w, f) \/ WalkDefer(w, f)
      PROVE  Tidy'
  BY <1>1, <1>3, <1>5, NoticeTidy, TailTidy, WalkReadTidy
<1>6. ASSUME NEW w \in DOMAIN watchers, TakeTask(w) \/ Arm(w)
      PROVE  Tidy'
  BY <1>1, <1>3, <1>6, TakeTaskTidy, ArmTidy
<1>7. ASSUME NEW w \in DOMAIN watchers, NEW side \in Sides, ReadStep(w, side)
      PROVE  Tidy'
  BY <1>1, <1>3, <1>7, StatTidy, PublishTidy DEF ReadStep
<1>8. CASE HandOver \/ SetRoots \/ ChainThrows \/ SwapThrows \/ Boot
  BY <1>1, <1>3, <1>8, HandOverTidy, SetRootsTidy, ThrowsTidy, JoinTidy
<1>9. ASSUME NEW i \in DOMAIN waiting, Swapped(i) PROVE Tidy'
  BY <1>1, <1>3, <1>9, JoinTidy
<1>10. CASE UNCHANGED vars
  BY <1>3, <1>10, IndexOneTidy
<1> QED
  BY <1>4, <1>5, <1>6, <1>7, <1>8, <1>9, <1>10 DEF Next, WalkStep, WatchStep


(* A line is handed over once in a life of the server, across swaps,       *)
(* unless a rebuild asked for it again or swaps overlapped (tailJsonl,     *)
(* setRoots, stop).                                                        *)
THEOREM LinesOnce == Spec => []OncePerLine
<1>1. OInv => OncePerLine
  <2> SUFFICES ASSUME OInv, NEW f \in again, ~overlapped PROVE rebuilt[f] > 0
    BY DEF OncePerLine
  <2>1. Tidy /\ f \in Files /\ rebuilt[f] \in Nat
    BY CurrentParts DEF OInv, Inv, TypeOK
  <2>2. rebuilt[f] # 0
    BY <2>1 DEF Tidy, Settled, HandedBelow
  <2> QED
    BY <2>1, <2>2
<1>2. Spec => []OInv
  BY InitOInv, NextOInv, PTL DEF Spec
<1> QED
  BY <1>1, <1>2, PTL
=============================================================================
