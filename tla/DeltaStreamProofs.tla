--------------------------- MODULE DeltaStreamProofs ---------------------------
(***************************************************************************)
(* DeltaStream for every set of panels, every caps and bounds: a client    *)
(* that was told everything is in step with the server, and shows a tail   *)
(* of each transcript.                                                     *)
(*                                                                         *)
(* What a client will show is what the messages under way will make of     *)
(* what it shows.  So everything is stated of a queue and one panel: the   *)
(* last message that says a status says the server's, a panel the server   *)
(* has forgotten is removed after every message that shows it, and the     *)
(* events that follow a list of events continue it.  Such a fact survives  *)
(* one more message at the end (Emit) and one less at the head (Deliver).  *)
(*                                                                         *)
(* What was fired between the snapshot and the listener excuses the facts  *)
(* it bears on until the next snapshot, which states them all anew.  And   *)
(* of a panel on its way out no list of events is promised, because a      *)
(* rebuild starts its numbers over: what counts is what follows the last   *)
(* removal under way.                                                      *)
(***************************************************************************)
EXTENDS DeltaStream, SequenceTheorems, TLAPS

Events == 1..MaxPushed
Shown == [status : Statuses, events : Seq(Events), removing : BOOLEAN]
Served == [status : Statuses, binned : BOOLEAN, events : Seq(Events)]
Deltas ==
    [op : {"snapshot"}, panels : UNION {[S -> Shown] : S \in SUBSET Panels}]
    \cup [op : {"panel_upsert", "panel_status"}, id : Panels, status : Statuses]
    \cup [op : {"reseed"}, id : Panels, status : Statuses, events : Seq(Events)]
    \cup [op : {"panel_remove"}, id : Panels]
    \cup [op : {"event_append"}, id : Panels, event : Events]
Fired == {d \in Deltas : d.op # "snapshot"}
Losses == Panels \X {"status", "event", "removal"}

ServerShape ==
    /\ DOMAIN panels \subseteq Panels /\ panels \in [DOMAIN panels -> Served]
    /\ aged \subseteq DOMAIN panels
    /\ pushed \in [Panels -> 0..MaxPushed]
ViewShape(v) == DOMAIN v \subseteq Panels /\ v \in [DOMAIN v -> Shown]
Shape ==
    /\ ServerShape /\ ViewShape(view)
    /\ link \in {"down", "greeted", "attached"}
    /\ queue \in Seq(Deltas)
    /\ timers \in [Panels -> Nat]
    /\ missed \subseteq Losses
    /\ outages \in 0..MaxOutages

----------------------------------------------------------------------------
(* Lists of events.                                                        *)

Newest(s) == s[Len(s)]
Unbroken(s) == \A i \in 1..(Len(s) - 1) : s[i + 1] = s[i] + 1

LEMMA LastFewFacts ==
    ASSUME NEW s \in Seq(Events), NEW n \in Nat \ {0}
    PROVE  /\ LastFew(s, n) \in Seq(Events) /\ Len(LastFew(s, n)) <= n
           /\ s # <<>> => LastFew(s, n) # <<>> /\ Newest(LastFew(s, n)) = Newest(s)
           /\ s = <<>> => LastFew(s, n) = <<>>
           /\ Unbroken(s) => Unbroken(LastFew(s, n))
<1> DEFINE from == IF Len(s) > n THEN Len(s) - n + 1 ELSE 1
           few == SubSeq(s, from, Len(s))
<1>1. Len(s) \in Nat /\ from \in Nat \ {0} /\ from <= Len(s) + 1
      /\ (IF from <= Len(s) THEN Len(s) - from + 1 ELSE 0) <= n
      /\ (s # <<>> => from <= Len(s)) /\ (s = <<>> => from > Len(s))
  OBVIOUS
<1>2. LastFew(s, n) = few
  BY DEF LastFew
<1> HIDE DEF from
<1>3. \A i \in from..Len(s) : s[i] \in Events
  BY <1>1, ElementOfSeq
<1>4. /\ few \in Seq(Events)
      /\ Len(few) = IF from <= Len(s) THEN Len(s) - from + 1 ELSE 0
      /\ \A i \in 1..(Len(s) - from + 1) : few[i] = s[from + i - 1]
  BY <1>1, <1>3, SubSeqProperties
<1> HIDE DEF few
<1>5. Len(few) <= n /\ (s # <<>> => few # <<>> /\ Newest(few) = Newest(s))
  <2>1. Len(few) <= n
    BY <1>1, <1>4
  <2>2. ASSUME s # <<>> PROVE few # <<>> /\ Newest(few) = Newest(s)
    <3>1. Len(few) = Len(s) - from + 1 /\ Len(few) \in 1..(Len(s) - from + 1)
      BY <1>1, <1>4, <2>2
    <3>2. few[Len(few)] = s[Len(s)]
      BY <1>1, <1>4, <3>1
    <3> QED
      BY <3>1, <3>2 DEF Newest
  <2> QED
    BY <2>1, <2>2
<1>6. s = <<>> => few = <<>>
  BY <1>1, <1>4
<1>7. Unbroken(s) => Unbroken(few)
  <2> SUFFICES ASSUME Unbroken(s), NEW i \in 1..(Len(few) - 1) PROVE few[i + 1] = few[i] + 1
    BY DEF Unbroken
  <2>1. Len(few) = Len(s) - from + 1 /\ i \in 1..(Len(s) - from + 1) /\ i + 1 \in 1..(Len(s) - from + 1)
    BY <1>1, <1>4
  <2>2. few[i] = s[from + i - 1] /\ few[i + 1] = s[from + (i + 1) - 1]
    BY <1>4, <2>1
  <2>3. from + i - 1 \in 1..(Len(s) - 1)
    BY <1>1, <2>1
  <2>4. s[(from + i - 1) + 1] = s[from + i - 1] + 1
    BY <2>3 DEF Unbroken
  <2> QED
    BY <1>1, <2>2, <2>3, <2>4
<1> QED
  BY <1>2, <1>4, <1>5, <1>6, <1>7

LEMMA AppendFacts ==
    ASSUME NEW s \in Seq(Events), NEW n \in Events
    PROVE  /\ Append(s, n) \in Seq(Events) /\ Append(s, n) # <<>>
           /\ Newest(Append(s, n)) = n
           /\ Unbroken(s) /\ (s # <<>> => n = Newest(s) + 1) => Unbroken(Append(s, n))
<1> DEFINE t == Append(s, n)
<1>1. /\ t \in Seq(Events) /\ Len(t) = Len(s) + 1 /\ Len(s) \in Nat
      /\ \A i \in 1..Len(s) : t[i] = s[i]
      /\ t[Len(s) + 1] = n
  BY AppendProperties
<1> HIDE DEF t
<1>2. t # <<>> /\ Newest(t) = n
  BY <1>1 DEF Newest
<1>3. ASSUME Unbroken(s), s # <<>> => n = Newest(s) + 1, NEW i \in 1..(Len(t) - 1)
      PROVE  t[i + 1] = t[i] + 1
  <2>1. CASE i = Len(s)
    BY <1>1, <1>3, <2>1 DEF Newest
  <2>2. CASE i # Len(s)
    <3>1. i \in 1..Len(s) /\ i + 1 \in 1..Len(s) /\ i \in 1..(Len(s) - 1)
      BY <1>1, <2>2
    <3>2. s[i + 1] = s[i] + 1
      BY <1>3, <3>1 DEF Unbroken
    <3> QED
      BY <1>1, <3>1, <3>2
  <2> QED
    BY <2>1, <2>2
<1>4. Unbroken(s) /\ (s # <<>> => n = Newest(s) + 1) => Unbroken(t)
  BY <1>3 DEF Unbroken
<1> QED
  BY <1>1, <1>2, <1>4 DEF t

(* The server's list and the client's list, with their caps.               *)
LEMMA CappedFacts ==
    ASSUME NEW s \in Seq(Events), s # <<>>, Unbroken(s)
    PROVE  /\ Capped(s) \in Seq(Events) /\ Capped(s) # <<>>
           /\ Newest(Capped(s)) = Newest(s) /\ Unbroken(Capped(s))
<1>1. CASE Len(s) > MaxEvents
  <2>1. Len(s) \in Nat /\ Evict \in Nat \ {0} /\ Evict < Len(s)
    BY <1>1, CapsAssumption
  <2>2. Capped(s) = LastFew(s, Len(s) - Evict)
    <3>1. Len(s) > Len(s) - Evict /\ Len(s) - (Len(s) - Evict) + 1 = Evict + 1
      BY <2>1
    <3> QED
      BY <1>1, <3>1 DEF Capped, LastFew
  <2>3. Len(s) - Evict \in Nat \ {0}
    BY <2>1
  <2> QED
    BY <2>2, <2>3, LastFewFacts
<1>2. CASE ~(Len(s) > MaxEvents)
  BY <1>2 DEF Capped
<1> QED
  BY <1>1, <1>2

LEMMA AppendCappedFacts ==
    ASSUME NEW s \in Seq(Events), NEW n \in Events
    PROVE  /\ AppendCapped(s, n) \in Seq(Events) /\ AppendCapped(s, n) # <<>>
           /\ Len(AppendCapped(s, n)) <= LiveWindow
           /\ Newest(AppendCapped(s, n)) = n
           /\ Unbroken(s) /\ (s # <<>> => n = Newest(s) + 1) => Unbroken(AppendCapped(s, n))
<1> DEFINE t == Append(s, n)
<1>1. /\ t \in Seq(Events) /\ t # <<>> /\ Newest(t) = n
      /\ Unbroken(s) /\ (s # <<>> => n = Newest(s) + 1) => Unbroken(t)
  BY AppendFacts
<1> HIDE DEF t
<1>2. /\ LiveWindow \in Nat \ {0} /\ LiveWindow - EvictChunk \in Nat \ {0}
      /\ LiveWindow - EvictChunk <= LiveWindow /\ Len(t) \in Nat
  BY <1>1, CapsAssumption
<1>3. CASE Len(t) > LiveWindow
  <2>1. AppendCapped(s, n) = LastFew(t, LiveWindow - EvictChunk)
    BY <1>3 DEF AppendCapped, t
  <2>2. Len(LastFew(t, LiveWindow - EvictChunk)) <= LiveWindow - EvictChunk
        /\ LastFew(t, LiveWindow - EvictChunk) \in Seq(Events)
    BY <1>1, <1>2, LastFewFacts
  <2>3. Len(LastFew(t, LiveWindow - EvictChunk)) <= LiveWindow
    BY <1>2, <2>2
  <2> QED
    BY <1>1, <1>2, <2>1, <2>3, LastFewFacts
<1>4. CASE ~(Len(t) > LiveWindow)
  <2>1. AppendCapped(s, n) = t
    BY <1>4 DEF AppendCapped, t
  <2> QED
    BY <1>1, <1>2, <1>4, <2>1
<1> QED
  BY <1>3, <1>4

----------------------------------------------------------------------------
(* What a message does to panel p.                                         *)

IsAppend(m, p) == m.op = "event_append" /\ m.id = p
IsRemove(m, p) == m.op = "panel_remove" /\ m.id = p
Shows(m, p) ==
    \/ m.op = "snapshot" /\ p \in DOMAIN m.panels
    \/ m.op \in {"panel_upsert", "reseed"} /\ m.id = p
Speaks(m, p) ==
    m.op = "snapshot" \/ (m.op \in {"panel_upsert", "reseed", "panel_status"} /\ m.id = p)
Says(m, p, st) ==
    IF m.op = "snapshot" THEN p \in DOMAIN m.panels => m.panels[p].status = st
                         ELSE m.status = st
(* It leaves p with n as its newest event.                                 *)
Leaves(m, p, n) ==
    \/ IsAppend(m, p) /\ m.event = n
    \/ m.op = "reseed" /\ m.id = p /\ m.events # <<>> /\ n = Newest(m.events)
    \/ /\ m.op = "snapshot" /\ p \in DOMAIN m.panels /\ m.panels[p].events # <<>>
       /\ n = Newest(m.panels[p].events)
Whole(m) ==
    /\ m.op = "reseed" => Unbroken(m.events)
    /\ m.op = "snapshot" => \A p \in DOMAIN m.panels : Unbroken(m.panels[p].events)

LEMMA DeltaParts ==
    ASSUME NEW m \in Deltas
    PROVE  /\ m.op \in {"snapshot", "panel_upsert", "panel_status", "reseed",
                        "panel_remove", "event_append"}
           /\ m.op # "snapshot" => m.id \in Panels
           /\ m.op \in {"panel_upsert", "panel_status", "reseed"} => m.status \in Statuses
           /\ m.op = "reseed" => m.events \in Seq(Events)
           /\ m.op = "event_append" => m.event \in Events
           /\ m.op = "snapshot" => /\ DOMAIN m.panels \subseteq Panels
                                   /\ m.panels \in [DOMAIN m.panels -> Shown]
<1>1. ASSUME m.op = "snapshot"
      PROVE  DOMAIN m.panels \subseteq Panels /\ m.panels \in [DOMAIN m.panels -> Shown]
  <2>1. m \in [op : {"snapshot"}, panels : UNION {[S -> Shown] : S \in SUBSET Panels}]
    BY <1>1 DEF Deltas
  <2>2. PICK S \in SUBSET Panels : m.panels \in [S -> Shown]
    BY <2>1
  <2> QED
    BY <2>2
<1>2. /\ m.op # "snapshot" => m.id \in Panels
      /\ m.op \in {"panel_upsert", "panel_status", "reseed"} => m.status \in Statuses
      /\ m.op = "reseed" => m.events \in Seq(Events)
      /\ m.op = "event_append" => m.event \in Events
      /\ m.op \in {"snapshot", "panel_upsert", "panel_status", "reseed",
                   "panel_remove", "event_append"}
  BY DEF Deltas
<1> QED
  BY <1>1, <1>2

(* The last word on p's status is st.                                      *)
StatusTold(q, v, p, st) ==
    /\ \A i \in 1..Len(q) :
         Speaks(q[i], p) /\ (\A j \in (i + 1)..Len(q) : ~Speaks(q[j], p)) => Says(q[i], p, st)
    /\ (\A i \in 1..Len(q) : ~Speaks(q[i], p)) /\ p \in DOMAIN v => v[p].status = st

(* p will be gone, or its timeout runs.                                    *)
GoneTold(q, v, t, p) ==
    /\ \A i \in 1..Len(q) : Shows(q[i], p) => \E j \in (i + 1)..Len(q) : IsRemove(q[j], p)
    /\ (\A i \in 1..Len(q) : q[i].op # "snapshot") /\ p \in DOMAIN v =>
         t[p] > 0 \/ \E j \in 1..Len(q) : IsRemove(q[j], p)

(* The next event of p after message i is n + 1, and there is none if n is *)
(* the newest of all.                                                      *)
Continues(q, p, i, n, top) ==
    \/ n = top /\ \A j \in (i + 1)..Len(q) : ~IsAppend(q[j], p)
    \/ \E j \in (i + 1)..Len(q) :
         /\ IsAppend(q[j], p) /\ q[j].event = n + 1
         /\ \A k \in (i + 1)..(j - 1) : ~IsAppend(q[k], p)
Stays(q, p, i) == \A j \in (i + 1)..Len(q) : ~IsRemove(q[j], p)
Plain(q) == \A i \in 1..Len(q) : q[i].op # "snapshot"
EventsTold(q, v, t, p, top) ==
    /\ \A i \in 1..Len(q) : \A n \in Events :
         Leaves(q[i], p, n) /\ Stays(q, p, i) => Continues(q, p, i, n, top)
    /\ Plain(q) /\ Stays(q, p, 0) /\ t[p] = 0 /\ p \in DOMAIN v =>
         /\ Unbroken(v[p].events)
         /\ v[p].events # <<>> => Continues(q, p, 0, Newest(v[p].events), top)

Sound(q) ==
    \A i \in 1..Len(q) : Whole(q[i]) /\ (i > 1 => q[i].op # "snapshot")

----------------------------------------------------------------------------
(* One more message.                                                       *)

LEMMA StatusAppend ==
    ASSUME NEW q \in Seq(Deltas), NEW m \in Deltas, NEW v, NEW p, NEW st,
           \/ ~Speaks(m, p) /\ StatusTold(q, v, p, st)
           \/ Speaks(m, p) /\ Says(m, p, st)
    PROVE  StatusTold(Append(q, m), v, p, st)
<1> DEFINE r == Append(q, m)
<1>1. /\ Len(q) \in Nat /\ Len(r) = Len(q) + 1
      /\ \A i \in 1..Len(q) : r[i] = q[i]
      /\ r[Len(q) + 1] = m
  BY AppendProperties
<1> HIDE DEF r
<1>2. ASSUME NEW i \in 1..Len(r), Speaks(r[i], p), \A j \in (i + 1)..Len(r) : ~Speaks(r[j], p)
      PROVE  Says(r[i], p, st)
  <2>1. CASE i = Len(q) + 1
    BY <1>1, <1>2, <2>1
  <2>2. CASE i # Len(q) + 1
    <3>1. i \in 1..Len(q) /\ Len(q) + 1 \in (i + 1)..Len(r)
      BY <1>1, <2>2
    <3>2. ~Speaks(m, p)
      BY <1>1, <1>2, <3>1
    <3>3. \A j \in (i + 1)..Len(q) : j \in 1..Len(q) /\ j \in (i + 1)..Len(r)
      BY <1>1, <3>1
    <3>4. Speaks(q[i], p) /\ \A j \in (i + 1)..Len(q) : ~Speaks(q[j], p)
      BY <1>1, <1>2, <3>1, <3>3
    <3> QED
      BY <1>1, <3>1, <3>2, <3>4 DEF StatusTold
  <2> QED
    BY <2>1, <2>2
<1>3. ASSUME \A i \in 1..Len(r) : ~Speaks(r[i], p), p \in DOMAIN v
      PROVE  v[p].status = st
  <2>1. Len(q) + 1 \in 1..Len(r) /\ \A i \in 1..Len(q) : i \in 1..Len(r)
    BY <1>1
  <2>2. ~Speaks(m, p) /\ \A i \in 1..Len(q) : ~Speaks(q[i], p)
    BY <1>1, <1>3, <2>1
  <2> QED
    BY <1>3, <2>2 DEF StatusTold
<1> QED
  BY <1>2, <1>3 DEF StatusTold, r

LEMMA GoneAppend ==
    ASSUME NEW q \in Seq(Deltas), NEW m \in Deltas, NEW v, NEW t, NEW p,
           \/ ~Shows(m, p) /\ GoneTold(q, v, t, p)
           \/ IsRemove(m, p)
    PROVE  GoneTold(Append(q, m), v, t, p)
<1> DEFINE r == Append(q, m)
<1>1. /\ Len(q) \in Nat /\ Len(r) = Len(q) + 1
      /\ \A i \in 1..Len(q) : r[i] = q[i]
      /\ r[Len(q) + 1] = m
  BY AppendProperties
<1> HIDE DEF r
<1>2. Len(q) + 1 \in 1..Len(r) /\ \A i \in 1..Len(q) : i \in 1..Len(r) /\ Len(q) + 1 \in (i + 1)..Len(r)
  BY <1>1
<1>3. ASSUME NEW i \in 1..Len(r), Shows(r[i], p)
      PROVE  \E j \in (i + 1)..Len(r) : IsRemove(r[j], p)
  <2>1. CASE IsRemove(m, p)
    <3>1. ~Shows(m, p)
      BY <2>1 DEF Shows, IsRemove
    <3>2. i \in 1..Len(q)
      BY <1>1, <1>3, <3>1
    <3> QED
      BY <1>1, <1>2, <2>1, <3>2
  <2>2. CASE ~IsRemove(m, p)
    <3>1. i \in 1..Len(q) /\ Shows(q[i], p)
      BY <1>1, <1>3, <2>2
    <3>2. PICK j \in (i + 1)..Len(q) : IsRemove(q[j], p)
      BY <2>2, <3>1 DEF GoneTold
    <3>3. j \in 1..Len(q) /\ j \in (i + 1)..Len(r)
      BY <1>1, <3>1
    <3> QED
      BY <1>1, <3>2, <3>3
  <2> QED
    BY <2>1, <2>2
<1>4. ASSUME \A i \in 1..Len(r) : r[i].op # "snapshot", p \in DOMAIN v
      PROVE  t[p] > 0 \/ \E j \in 1..Len(r) : IsRemove(r[j], p)
  <2>1. CASE IsRemove(m, p)
    BY <1>1, <1>2, <2>1
  <2>2. CASE ~IsRemove(m, p)
    <3>1. \A i \in 1..Len(q) : q[i].op # "snapshot"
      BY <1>1, <1>2, <1>4
    <3>2. t[p] > 0 \/ \E j \in 1..Len(q) : IsRemove(q[j], p)
      BY <1>4, <2>2, <3>1 DEF GoneTold
    <3> QED
      BY <1>1, <1>2, <3>2
  <2> QED
    BY <2>1, <2>2
<1> QED
  BY <1>3, <1>4 DEF GoneTold, r

LEMMA ContinuesAppend ==
    ASSUME NEW q \in Seq(Deltas), NEW m \in Deltas, NEW p, NEW i \in 0..Len(q), NEW n \in Nat,
           NEW top \in Nat, NEW next \in Nat,
           IF IsAppend(m, p) THEN m.event = top + 1 ELSE next = top,
           Continues(q, p, i, n, top)
    PROVE  Continues(Append(q, m), p, i, n, next)
<1> DEFINE r == Append(q, m)
<1>1. /\ Len(q) \in Nat /\ Len(r) = Len(q) + 1
      /\ \A j \in 1..Len(q) : r[j] = q[j]
      /\ r[Len(q) + 1] = m
  BY AppendProperties
<1> HIDE DEF r
<1>2. \A j \in (i + 1)..Len(q) : j \in 1..Len(q) /\ j \in (i + 1)..Len(r)
  BY <1>1
<1>3. CASE n = top /\ \A j \in (i + 1)..Len(q) : ~IsAppend(q[j], p)
  <2>1. \A k \in (i + 1)..Len(q) : ~IsAppend(r[k], p)
    BY <1>1, <1>2, <1>3
  <2>2. CASE IsAppend(m, p)
    <3> DEFINE j == Len(q) + 1
    <3>1. j \in (i + 1)..Len(r) /\ j - 1 = Len(q) /\ r[j] = m
      BY <1>1
    <3>2. IsAppend(r[j], p) /\ r[j].event = n + 1 /\ \A k \in (i + 1)..(j - 1) : ~IsAppend(r[k], p)
      BY <1>3, <2>1, <2>2, <3>1
    <3> HIDE DEF j
    <3> QED
      BY <3>1, <3>2 DEF Continues, r
  <2>3. CASE ~IsAppend(m, p)
    <3>1. \A k \in (i + 1)..Len(r) : k \in (i + 1)..Len(q) \/ k = Len(q) + 1
      BY <1>1
    <3>2. \A k \in (i + 1)..Len(r) : ~IsAppend(r[k], p)
      BY <1>1, <2>1, <2>3, <3>1
    <3> QED
      BY <1>3, <2>3, <3>2 DEF Continues, r
  <2> QED
    BY <2>2, <2>3
<1>4. CASE \E j \in (i + 1)..Len(q) :
             /\ IsAppend(q[j], p) /\ q[j].event = n + 1
             /\ \A k \in (i + 1)..(j - 1) : ~IsAppend(q[k], p)
  <2>1. PICK j \in (i + 1)..Len(q) :
             /\ IsAppend(q[j], p) /\ q[j].event = n + 1
             /\ \A k \in (i + 1)..(j - 1) : ~IsAppend(q[k], p)
    BY <1>4
  <2>2. j \in (i + 1)..Len(r) /\ r[j] = q[j]
    BY <1>1, <1>2
  <2>3. \A k \in (i + 1)..(j - 1) : r[k] = q[k]
    <3>1. \A k \in (i + 1)..(j - 1) : k \in 1..Len(q)
      BY <1>1
    <3> QED
      BY <1>1, <3>1
  <2> QED
    BY <2>1, <2>2, <2>3 DEF Continues, r
<1> QED
  BY <1>3, <1>4 DEF Continues

LEMMA EventsAppend ==
    ASSUME NEW q \in Seq(Deltas), NEW m \in Deltas, NEW v, NEW t, NEW p,
           p \in DOMAIN v => v[p].events \in Seq(Events),
           NEW top \in Nat, NEW next \in Nat,
           m.op # "snapshot", EventsTold(q, v, t, p, top),
           \/ IsRemove(m, p)
           \/ /\ IF IsAppend(m, p) THEN m.event = top + 1 /\ next = top + 1 ELSE next = top
              /\ m.op = "reseed" /\ m.id = p /\ m.events # <<>> => Newest(m.events) = top
    PROVE  EventsTold(Append(q, m), v, t, p, next)
<1> DEFINE r == Append(q, m)
<1>1. /\ Len(q) \in Nat /\ Len(r) = Len(q) + 1
      /\ \A i \in 1..Len(q) : r[i] = q[i]
      /\ r[Len(q) + 1] = m
  BY AppendProperties
<1>2. \A i \in 1..Len(q) : i \in 1..Len(r) /\ i \in 0..Len(q)
  BY <1>1
<1> HIDE DEF r
(* A panel that stays for all of r is not removed by m, and stays for q.   *)
<1>5. ASSUME NEW i \in 0..Len(q), Stays(r, p, i)
      PROVE  /\ ~IsRemove(m, p) /\ Stays(q, p, i)
  <2>1. Len(q) + 1 \in (i + 1)..Len(r) /\ \A j \in (i + 1)..Len(q) : j \in (i + 1)..Len(r) /\ j \in 1..Len(q)
    BY <1>1
  <2> QED
    BY <1>1, <1>5, <2>1 DEF Stays
<1>3. ASSUME NEW i \in 1..Len(r), NEW n \in Events, Leaves(r[i], p, n), Stays(r, p, i)
      PROVE  Continues(r, p, i, n, next)
  <2>1. CASE i = Len(q) + 1
    <3>1. ~IsRemove(m, p)
      BY <1>1, <1>3, <2>1 DEF Leaves, IsAppend, IsRemove
    <3>2. n = next
      BY <1>1, <1>3, <2>1, <3>1 DEF Leaves, IsAppend
    <3>3. \A j \in (i + 1)..Len(r) : FALSE
      BY <1>1, <2>1
    <3> QED
      BY <3>2, <3>3 DEF Continues
  <2>2. CASE i # Len(q) + 1
    <3>1. i \in 1..Len(q) /\ i \in 0..Len(q) /\ n \in Nat
      BY <1>1, <2>2 DEF Events
    <3>2. ~IsRemove(m, p) /\ Stays(q, p, i)
      BY <1>3, <1>5, <3>1
    <3>3. Continues(q, p, i, n, top)
      BY <1>1, <1>3, <3>1, <3>2 DEF EventsTold
    <3> QED
      BY <3>1, <3>2, <3>3, ContinuesAppend DEF r
  <2> QED
    BY <2>1, <2>2
<1>4. ASSUME Plain(r), Stays(r, p, 0), t[p] = 0, p \in DOMAIN v
      PROVE  /\ Unbroken(v[p].events)
             /\ v[p].events # <<>> => Continues(r, p, 0, Newest(v[p].events), next)
  <2>1. Plain(q)
    BY <1>1, <1>2, <1>4 DEF Plain
  <2>2. ~IsRemove(m, p) /\ Stays(q, p, 0) /\ 0 \in 0..Len(q)
    BY <1>1, <1>4, <1>5
  <2>3. /\ Unbroken(v[p].events)
        /\ v[p].events # <<>> => Continues(q, p, 0, Newest(v[p].events), top)
    BY <1>4, <2>1, <2>2 DEF EventsTold
  <2>4. v[p].events # <<>> => Newest(v[p].events) \in Nat
    <3> SUFFICES ASSUME v[p].events # <<>> PROVE Newest(v[p].events) \in Nat
      OBVIOUS
    <3>1. Len(v[p].events) \in 1..Len(v[p].events)
      BY <1>4, EmptySeq
    <3>2. Newest(v[p].events) \in Events
      BY <1>4, <3>1, ElementOfSeq DEF Newest
    <3> QED
      BY <3>2 DEF Events
  <2> QED
    BY <2>2, <2>3, <2>4, ContinuesAppend DEF r
<1> QED
  BY <1>3, <1>4 DEF EventsTold, r

LEMMA SoundAppend ==
    ASSUME NEW q \in Seq(Deltas), NEW m \in Deltas, Sound(q), Whole(m), m.op # "snapshot"
    PROVE  Sound(Append(q, m)) /\ Append(q, m) \in Seq(Deltas)
<1> DEFINE r == Append(q, m)
<1>1. /\ r \in Seq(Deltas) /\ Len(q) \in Nat /\ Len(r) = Len(q) + 1
      /\ \A i \in 1..Len(q) : r[i] = q[i]
      /\ r[Len(q) + 1] = m
  BY AppendProperties
<1> HIDE DEF r
<1>2. ASSUME NEW i \in 1..Len(r) PROVE Whole(r[i]) /\ (i > 1 => r[i].op # "snapshot")
  <2>1. i \in 1..Len(q) \/ i = Len(q) + 1
    BY <1>1
  <2> QED
    BY <1>1, <2>1 DEF Sound
<1> QED
  BY <1>1, <1>2 DEF Sound, r

----------------------------------------------------------------------------
(* One message less.                                                       *)

LEMMA TailFacts ==
    ASSUME NEW q \in Seq(Deltas), q # <<>>
    PROVE  /\ Head(q) = q[1] /\ Head(q) \in Deltas
           /\ Tail(q) \in Seq(Deltas) /\ Len(q) \in Nat \ {0}
           /\ Len(Tail(q)) = Len(q) - 1
           /\ \A i \in 1..Len(Tail(q)) : Tail(q)[i] = q[i + 1] /\ i + 1 \in 1..Len(q)
           /\ \A i \in 1..Len(q) : i = 1 \/ (i - 1 \in 1..Len(Tail(q)) /\ q[i] = Tail(q)[i - 1])
<1>1. /\ Head(q) \in Deltas /\ Tail(q) \in Seq(Deltas) /\ Len(q) \in Nat \ {0}
      /\ Len(Tail(q)) = Len(q) - 1
      /\ \A i \in 1..Len(Tail(q)) : Tail(q)[i] = q[i + 1]
  BY HeadTailProperties, EmptySeq
<1>2. Head(q) = q[1]
  OBVIOUS
<1>3. \A i \in 1..Len(q) : i = 1 \/ (i - 1 \in 1..Len(Tail(q)) /\ i = (i - 1) + 1)
  BY <1>1
<1> QED
  BY <1>1, <1>2, <1>3

LEMMA StatusDeliver ==
    ASSUME NEW q \in Seq(Deltas), q # <<>>, NEW v, NEW w, NEW p, NEW st,
           StatusTold(q, v, p, st),
           p \in DOMAIN w =>
             IF Speaks(Head(q), p) THEN Says(Head(q), p, st) => w[p].status = st
             ELSE p \in DOMAIN v /\ w[p].status = v[p].status
    PROVE  StatusTold(Tail(q), w, p, st)
<1> DEFINE r == Tail(q)
<1>1. /\ Head(q) = q[1] /\ Len(q) \in Nat \ {0} /\ Len(r) = Len(q) - 1
      /\ \A i \in 1..Len(r) : r[i] = q[i + 1] /\ i + 1 \in 1..Len(q)
      /\ \A i \in 1..Len(q) : i = 1 \/ (i - 1 \in 1..Len(r) /\ q[i] = r[i - 1])
  BY TailFacts
<1> HIDE DEF r
<1>2. ASSUME NEW i \in 1..Len(r), Speaks(r[i], p), \A j \in (i + 1)..Len(r) : ~Speaks(r[j], p)
      PROVE  Says(r[i], p, st)
  <2>1. \A j \in ((i + 1) + 1)..Len(q) : j - 1 \in (i + 1)..Len(r) /\ j \in 1..Len(q) /\ j # 1
    BY <1>1
  <2>2. \A j \in ((i + 1) + 1)..Len(q) : ~Speaks(q[j], p)
    BY <1>1, <1>2, <2>1
  <2> QED
    BY <1>1, <1>2, <2>2 DEF StatusTold
<1>3. ASSUME \A i \in 1..Len(r) : ~Speaks(r[i], p), p \in DOMAIN w
      PROVE  w[p].status = st
  <2>1. 1 \in 1..Len(q) /\ \A j \in (1 + 1)..Len(q) : j - 1 \in 1..Len(r) /\ j \in 1..Len(q) /\ j # 1
    BY <1>1
  <2>2. \A j \in (1 + 1)..Len(q) : ~Speaks(q[j], p)
    BY <1>1, <1>3, <2>1
  <2>3. CASE Speaks(q[1], p)
    BY <1>1, <1>3, <2>1, <2>2, <2>3 DEF StatusTold
  <2>4. CASE ~Speaks(q[1], p)
    <3>1. \A j \in 1..Len(q) : ~Speaks(q[j], p)
      BY <1>1, <1>3, <2>4
    <3> QED
      BY <1>1, <1>3, <2>4, <3>1 DEF StatusTold
  <2> QED
    BY <2>3, <2>4
<1> QED
  BY <1>2, <1>3 DEF StatusTold, r

LEMMA GoneDeliver ==
    ASSUME NEW q \in Seq(Deltas), q # <<>>, NEW v, NEW w, NEW t, NEW u, NEW p,
           GoneTold(q, v, t, p), Sound(q),
           p \in DOMAIN w => Shows(Head(q), p) \/ (p \in DOMAIN v /\ Head(q).op # "snapshot"),
           t[p] > 0 \/ IsRemove(Head(q), p) => u[p] > 0
    PROVE  GoneTold(Tail(q), w, u, p)
<1> DEFINE r == Tail(q)
<1>1. /\ Head(q) = q[1] /\ Len(q) \in Nat \ {0} /\ Len(r) = Len(q) - 1
      /\ \A i \in 1..Len(r) : r[i] = q[i + 1] /\ i + 1 \in 1..Len(q)
      /\ \A i \in 1..Len(q) : i = 1 \/ (i - 1 \in 1..Len(r) /\ q[i] = r[i - 1])
  BY TailFacts
<1> HIDE DEF r
<1>2. ASSUME NEW i \in 1..Len(r), Shows(r[i], p)
      PROVE  \E j \in (i + 1)..Len(r) : IsRemove(r[j], p)
  <2>1. PICK j \in ((i + 1) + 1)..Len(q) : IsRemove(q[j], p)
    BY <1>1, <1>2 DEF GoneTold
  <2>2. j - 1 \in (i + 1)..Len(r) /\ j \in 1..Len(q) /\ j # 1
    BY <1>1
  <2> QED
    BY <1>1, <2>1, <2>2
<1>3. ASSUME p \in DOMAIN w PROVE u[p] > 0 \/ \E j \in 1..Len(r) : IsRemove(r[j], p)
  <2>1. 1 \in 1..Len(q)
    BY <1>1
  <2>2. CASE Shows(q[1], p)
    <3>1. PICK j \in (1 + 1)..Len(q) : IsRemove(q[j], p)
      BY <2>1, <2>2 DEF GoneTold
    <3>2. j - 1 \in 1..Len(r) /\ j \in 1..Len(q) /\ j # 1
      BY <1>1
    <3> QED
      BY <1>1, <3>1, <3>2
  <2>3. CASE ~Shows(q[1], p)
    <3>1. p \in DOMAIN v /\ q[1].op # "snapshot"
      BY <1>1, <1>3, <2>3
    <3>2. \A i \in 1..Len(q) : q[i].op # "snapshot"
      BY <1>1, <3>1 DEF Sound
    <3>3. t[p] > 0 \/ \E j \in 1..Len(q) : IsRemove(q[j], p)
      BY <3>1, <3>2 DEF GoneTold
    <3> QED
      BY <1>1, <3>3
  <2> QED
    BY <2>2, <2>3
<1> QED
  BY <1>2, <1>3 DEF GoneTold, r

LEMMA ContinuesDeliver ==
    ASSUME NEW q \in Seq(Deltas), q # <<>>, NEW p, NEW i \in 0..(Len(q) - 1), NEW n, NEW top,
           \/ Continues(q, p, i + 1, n, top)
           \/ i = 0 /\ ~IsAppend(Head(q), p) /\ Continues(q, p, 0, n, top)
    PROVE  Continues(Tail(q), p, i, n, top)
<1> DEFINE r == Tail(q)
<1>1. /\ Head(q) = q[1] /\ Len(q) \in Nat \ {0} /\ Len(r) = Len(q) - 1
      /\ \A j \in 1..Len(r) : r[j] = q[j + 1] /\ j + 1 \in 1..Len(q)
      /\ \A j \in 1..Len(q) : j = 1 \/ (j - 1 \in 1..Len(r) /\ q[j] = r[j - 1])
  BY TailFacts
<1> HIDE DEF r
<1>2. Continues(q, p, i + 1, n, top)
  <2> SUFFICES ASSUME i = 0, ~IsAppend(q[1], p), Continues(q, p, 0, n, top)
               PROVE  Continues(q, p, 1, n, top)
    BY <1>1
  <2>1. \A j \in (1 + 1)..Len(q) : j \in (0 + 1)..Len(q)
    OBVIOUS
  <2>2. CASE n = top /\ \A j \in (0 + 1)..Len(q) : ~IsAppend(q[j], p)
    BY <2>1, <2>2 DEF Continues
  <2>3. CASE \E j \in (0 + 1)..Len(q) :
               /\ IsAppend(q[j], p) /\ q[j].event = n + 1
               /\ \A k \in (0 + 1)..(j - 1) : ~IsAppend(q[k], p)
    <3>1. PICK j \in (0 + 1)..Len(q) :
               /\ IsAppend(q[j], p) /\ q[j].event = n + 1
               /\ \A k \in (0 + 1)..(j - 1) : ~IsAppend(q[k], p)
      BY <2>3
    <3>2. j # 1
      BY <3>1
    <3>3. j \in (1 + 1)..Len(q) /\ \A k \in (1 + 1)..(j - 1) : k \in (0 + 1)..(j - 1)
      BY <1>1, <3>2
    <3> QED
      BY <3>1, <3>3 DEF Continues
  <2> QED
    BY <2>2, <2>3 DEF Continues
<1>3. CASE n = top /\ \A j \in ((i + 1) + 1)..Len(q) : ~IsAppend(q[j], p)
  <2>1. \A j \in (i + 1)..Len(r) : j + 1 \in ((i + 1) + 1)..Len(q) /\ j \in 1..Len(r)
    BY <1>1
  <2> QED
    BY <1>1, <1>3, <2>1 DEF Continues, r
<1>4. CASE \E j \in ((i + 1) + 1)..Len(q) :
             /\ IsAppend(q[j], p) /\ q[j].event = n + 1
             /\ \A k \in ((i + 1) + 1)..(j - 1) : ~IsAppend(q[k], p)
  <2>1. PICK j \in ((i + 1) + 1)..Len(q) :
             /\ IsAppend(q[j], p) /\ q[j].event = n + 1
             /\ \A k \in ((i + 1) + 1)..(j - 1) : ~IsAppend(q[k], p)
    BY <1>4
  <2> DEFINE h == j - 1
  <2>2. h \in (i + 1)..Len(r) /\ j \in 1..Len(q) /\ j # 1
    BY <1>1
  <2>3. r[h] = q[j]
    BY <1>1, <2>2
  <2>4. \A k \in (i + 1)..(h - 1) : k + 1 \in ((i + 1) + 1)..(j - 1) /\ k \in 1..Len(r)
    BY <1>1, <2>2
  <2>5. \A k \in (i + 1)..(h - 1) : ~IsAppend(r[k], p)
    BY <1>1, <2>1, <2>4
  <2> HIDE DEF h
  <2> QED
    BY <2>1, <2>2, <2>3, <2>5 DEF Continues, r
<1> QED
  BY <1>2, <1>3, <1>4 DEF Continues

(* The event under way next is the one the client's list ends before.      *)
LEMMA NextEvent ==
    ASSUME NEW q \in Seq(Deltas), q # <<>>, NEW p, NEW n, NEW top,
           IsAppend(Head(q), p), Continues(q, p, 0, n, top)
    PROVE  Head(q).event = n + 1
<1>1. Head(q) = q[1] /\ Len(q) \in Nat \ {0} /\ 1 \in (0 + 1)..Len(q)
  BY TailFacts
<1>2. PICK j \in (0 + 1)..Len(q) :
         /\ IsAppend(q[j], p) /\ q[j].event = n + 1
         /\ \A k \in (0 + 1)..(j - 1) : ~IsAppend(q[k], p)
  BY <1>1 DEF Continues
<1>3. j = 1
  <2> SUFFICES ASSUME j # 1 PROVE FALSE
    OBVIOUS
  <2>1. 1 \in (0 + 1)..(j - 1)
    BY <1>1
  <2> QED
    BY <1>1, <1>2, <2>1
<1> QED
  BY <1>1, <1>2, <1>3

(* Message d leaves no hole in p's list.                                   *)
Fits(d, v, p) ==
    \/ p \notin DOMAIN v \/ d.op = "snapshot" \/ (d.op = "reseed" /\ d.id = p)
    \/ /\ Unbroken(v[p].events)
       /\ IsAppend(d, p) /\ v[p].events # <<>> => d.event = Newest(v[p].events) + 1

LEMMA EventsDeliver ==
    ASSUME NEW q \in Seq(Deltas), q # <<>>, NEW v, NEW w, NEW t, NEW u, NEW p, NEW top,
           EventsTold(q, v, t, p, top), Sound(q),
           u[p] = 0 => t[p] = 0 /\ ~IsRemove(Head(q), p),
           p \in DOMAIN w => w[p].events \in Seq(Events),
           p \in DOMAIN w /\ Fits(Head(q), v, p) => Unbroken(w[p].events),
           p \in DOMAIN w /\ w[p].events # <<>> =>
             \/ Leaves(Head(q), p, Newest(w[p].events))
             \/ /\ ~IsAppend(Head(q), p) /\ Head(q).op # "snapshot"
                /\ p \in DOMAIN v /\ v[p].events # <<>>
                /\ Newest(w[p].events) = Newest(v[p].events)
    PROVE  EventsTold(Tail(q), w, u, p, top)
<1> DEFINE r == Tail(q)
<1>1. /\ Head(q) = q[1] /\ Len(q) \in Nat \ {0} /\ Len(r) = Len(q) - 1
      /\ \A i \in 1..Len(r) : r[i] = q[i + 1] /\ i + 1 \in 1..Len(q)
      /\ \A i \in 1..Len(q) : i = 1 \/ (i - 1 \in 1..Len(r) /\ q[i] = r[i - 1])
  BY TailFacts
<1> HIDE DEF r
<1>5. ASSUME NEW i \in 0..Len(r), Stays(r, p, i) PROVE Stays(q, p, i + 1)
  <2>1. \A j \in ((i + 1) + 1)..Len(q) : j \in 1..Len(q) /\ j # 1 /\ j - 1 \in (i + 1)..Len(r)
    BY <1>1
  <2> QED
    BY <1>1, <1>5, <2>1 DEF Stays
<1>2. ASSUME NEW i \in 1..Len(r), NEW n \in Events, Leaves(r[i], p, n), Stays(r, p, i)
      PROVE  Continues(r, p, i, n, top)
  <2>1. Stays(q, p, i + 1)
    BY <1>1, <1>2, <1>5
  <2>2. Continues(q, p, i + 1, n, top)
    BY <1>1, <1>2, <2>1 DEF EventsTold
  <2>3. i \in 0..(Len(q) - 1)
    BY <1>1
  <2> QED
    BY <2>2, <2>3, ContinuesDeliver DEF r
<1>3. ASSUME Stays(r, p, 0), u[p] = 0, p \in DOMAIN w
      PROVE  /\ Unbroken(w[p].events)
             /\ w[p].events # <<>> => Continues(r, p, 0, Newest(w[p].events), top)
  <2>1. t[p] = 0 /\ ~IsRemove(q[1], p) /\ Stays(q, p, 1)
    BY <1>1, <1>3, <1>5
  <2>2. Stays(q, p, 0)
    <3>1. \A j \in (0 + 1)..Len(q) : j = 1 \/ j \in (1 + 1)..Len(q)
      BY <1>1
    <3> QED
      BY <2>1, <3>1 DEF Stays
  <2>3. ASSUME q[1].op # "snapshot", p \in DOMAIN v
        PROVE  /\ Unbroken(v[p].events)
               /\ v[p].events # <<>> => Continues(q, p, 0, Newest(v[p].events), top)
    <3>1. Plain(q)
      BY <1>1, <2>3 DEF Sound, Plain
    <3> QED
      BY <2>1, <2>2, <2>3, <3>1 DEF EventsTold
  <2>4. Fits(q[1], v, p)
    <3>1. CASE p \notin DOMAIN v \/ q[1].op = "snapshot"
      BY <3>1 DEF Fits
    <3>2. CASE p \in DOMAIN v /\ q[1].op # "snapshot"
      <4>1. IsAppend(q[1], p) /\ v[p].events # <<>> => q[1].event = Newest(v[p].events) + 1
        BY <1>1, <2>3, <3>2, NextEvent
      <4> QED
        BY <2>3, <3>2, <4>1 DEF Fits
    <3> QED
      BY <3>1, <3>2
  <2>5. ASSUME w[p].events # <<>> PROVE Continues(r, p, 0, Newest(w[p].events), top)
    <3> DEFINE n == Newest(w[p].events)
    <3>1. n \in Events
      <4>1. Len(w[p].events) \in 1..Len(w[p].events)
        BY <1>3, <2>5, EmptySeq
      <4> QED
        BY <1>3, <4>1, ElementOfSeq DEF Newest
    <3>2. 1 \in 1..Len(q) /\ 0 \in 0..(Len(q) - 1) /\ 0 + 1 = 1
      BY <1>1
    <3>3. CASE Leaves(q[1], p, n)
      <4>1. Continues(q, p, 1, n, top)
        BY <2>1, <3>1, <3>2, <3>3 DEF EventsTold
      <4>2. Continues(r, p, 0, n, top)
        <5> HIDE DEF n
        <5> QED
          BY <3>2, <4>1, ContinuesDeliver DEF r
      <4> QED
        BY <4>2
    <3>4. CASE ~Leaves(q[1], p, n)
      <4>1. /\ ~IsAppend(q[1], p) /\ q[1].op # "snapshot"
            /\ p \in DOMAIN v /\ v[p].events # <<>> /\ n = Newest(v[p].events)
        BY <1>1, <1>3, <2>5, <3>4
      <4>2. Continues(q, p, 0, n, top)
        BY <2>3, <4>1
      <4>3. Continues(r, p, 0, n, top)
        <5> HIDE DEF n
        <5> QED
          BY <1>1, <3>2, <4>1, <4>2, ContinuesDeliver DEF r
      <4> QED
        BY <4>3
    <3> QED
      BY <3>3, <3>4
  <2> QED
    BY <1>1, <1>3, <2>4, <2>5
<1> QED
  BY <1>2, <1>3 DEF EventsTold, r

LEMMA SoundDeliver ==
    ASSUME NEW q \in Seq(Deltas), q # <<>>, Sound(q)
    PROVE  Sound(Tail(q))
<1>1. \A i \in 1..Len(Tail(q)) : Tail(q)[i] = q[i + 1] /\ i + 1 \in 1..Len(q) /\ i + 1 > 1
  BY TailFacts
<1> QED
  BY <1>1 DEF Sound

----------------------------------------------------------------------------
(* The invariant.                                                          *)

Told(lost, q, v, t, p, known, st, top) ==
    /\ known /\ <<p, "status">> \notin lost => StatusTold(q, v, p, st)
    /\ ~known /\ <<p, "removal">> \notin lost => GoneTold(q, v, t, p)
    /\ <<p, "event">> \notin lost /\ <<p, "removal">> \notin lost => EventsTold(q, v, t, p, top)

(* The server's events are numbered up to the last push.                   *)
ServerSound ==
    \A p \in DOMAIN panels :
      /\ panels[p].events # <<>> /\ Unbroken(panels[p].events)
      /\ Newest(panels[p].events) = pushed[p]
ViewSound(v) == \A p \in DOMAIN v : Len(v[p].events) <= LiveWindow

ClientTold ==
    IF link = "down" THEN queue = <<>>
    ELSE \A p \in Panels :
           Told(missed, queue, view, timers, p, Known(p), panels[p].status, pushed[p])

Inv == Shape /\ ServerSound /\ ViewSound(view) /\ Sound(queue) /\ ClientTold

----------------------------------------------------------------------------
(* Server handlers: what they emit keeps every panel told.                 *)

OthersTold(q, p) ==
    \A o \in Panels \ {p} :
      Told(missed, q, view, timers, o, Known(o), panels[o].status, pushed[o])

LEMMA OthersAppend ==
    ASSUME Shape, NEW p \in Panels, NEW q \in Seq(Deltas), NEW d \in Deltas,
           d.op # "snapshot", d.id = p, OthersTold(q, p)
    PROVE  OthersTold(Append(q, d), p)
<1> SUFFICES ASSUME NEW o \in Panels \ {p}
             PROVE  Told(missed, Append(q, d), view, timers, o, Known(o), panels[o].status, pushed[o])
  BY DEF OthersTold
<1>1. Told(missed, q, view, timers, o, Known(o), panels[o].status, pushed[o])
  BY DEF OthersTold
<1>2. ~Speaks(d, o) /\ ~Shows(d, o) /\ ~IsAppend(d, o)
  BY DEF Speaks, Shows, IsAppend
<1>3. Known(o) /\ <<o, "status">> \notin missed => StatusTold(Append(q, d), view, o, panels[o].status)
  BY <1>1, <1>2, StatusAppend DEF Told
<1>4. ~Known(o) /\ <<o, "removal">> \notin missed => GoneTold(Append(q, d), view, timers, o)
  BY <1>1, <1>2, GoneAppend DEF Told
<1>5. ASSUME <<o, "event">> \notin missed, <<o, "removal">> \notin missed
      PROVE  EventsTold(Append(q, d), view, timers, o, pushed[o])
  <2>1. pushed[o] \in Nat /\ (o \in DOMAIN view => view[o].events \in Seq(Events))
    BY DEF Shape, ServerShape, ViewShape, Shown
  <2>2. EventsTold(q, view, timers, o, pushed[o])
    BY <1>1, <1>5 DEF Told
  <2> QED
    BY <1>2, <2>1, <2>2, EventsAppend
<1> QED
  BY <1>3, <1>4, <1>5 DEF Told

In(x, ds) == \E i \in 1..Len(ds) : ds[i] = x

(* What a delta that nobody hears excuses.                                 *)
LEMMA LossParts ==
    ASSUME NEW d \in Fired
    PROVE  /\ Loss(d) \in Losses /\ d \in Deltas /\ d.id \in Panels
           /\ d.op = "event_append" => Loss(d) = <<d.id, "event">>
           /\ d.op = "panel_remove" => Loss(d) = <<d.id, "removal">>
           /\ d.op \in {"panel_upsert", "panel_status", "reseed"} => Loss(d) = <<d.id, "status">>
<1>1. d.id \in Panels /\ d \in Deltas
  BY DeltaParts DEF Fired
<1> QED
  BY <1>1 DEF Loss, Losses

(* A handler of panel p that emits ds: what remains to be shown of it.     *)
LEMMA EmitInv ==
    ASSUME Inv, NEW p \in Panels, NEW ds \in Seq(Fired), Emit(ds),
           ServerShape', ServerSound',
           \A o \in Panels \ {p} :
             /\ Known(o)' = Known(o) /\ pushed'[o] = pushed[o]
             /\ Known(o) => panels'[o] = panels[o],
           link = "attached" =>
             /\ queue \o ds \in Seq(Deltas) /\ Sound(queue \o ds)
             /\ OthersTold(queue \o ds, p)
             /\ Told(missed, queue \o ds, view, timers, p, Known(p)', panels'[p].status, pushed'[p]),
           \/ \E d \in Fired : In(d, ds) /\ Loss(d) = <<p, "status">>
           \/ Known(p)' => Known(p) /\ panels'[p].status = panels[p].status,
           Known(p)' \/ \E d \in Fired : In(d, ds) /\ Loss(d) = <<p, "removal">>,
           \/ \E d \in Fired : In(d, ds) /\ Loss(d) \in {<<p, "event">>, <<p, "removal">>}
           \/ pushed'[p] = pushed[p]
    PROVE  Inv'
<1>1. /\ link' = link /\ view' = view /\ timers' = timers
      /\ outages' = outages
      /\ queue' = IF link = "attached" THEN queue \o ds ELSE queue
      /\ missed' = IF link = "greeted" THEN missed \cup {Loss(ds[i]) : i \in 1..Len(ds)} ELSE missed
  BY DEF Emit, clientVars
<1>2. missed' \subseteq Losses
  <2>1. \A i \in 1..Len(ds) : ds[i] \in Fired
    BY ElementOfSeq
  <2>2. \A i \in 1..Len(ds) : Loss(ds[i]) \in Losses
    BY <2>1, LossParts
  <2> QED
    BY <1>1, <2>2 DEF Inv, Shape
<1>3. CASE link = "attached"
  <2>1. queue' \in Seq(Deltas) /\ Sound(queue')
    BY <1>1, <1>3
  <2>2. ASSUME NEW o \in Panels
        PROVE  Told(missed', queue', view, timers, o, Known(o)', panels'[o].status, pushed'[o])
    <3>1. CASE o = p
      BY <1>1, <1>3, <3>1
    <3>2. CASE o # p
      <4>1. Told(missed', queue', view, timers, o, Known(o), panels[o].status, pushed[o])
        BY <1>1, <1>3, <3>2 DEF OthersTold
      <4>2. /\ Known(o)' = Known(o) /\ pushed'[o] = pushed[o]
            /\ Known(o) => panels'[o] = panels[o]
        BY <3>2
      <4> QED
        BY <4>1, <4>2 DEF Told
    <3> QED
      BY <3>1, <3>2
  <2>3. ClientTold'
    BY <1>1, <1>3, <2>2 DEF ClientTold
  <2> QED
    BY <1>1, <1>2, <2>1, <2>3 DEF Inv, Shape, ViewShape, ViewSound, Sound
<1>4. CASE link = "greeted"
  <2>1. queue' = queue /\ missed \subseteq missed' /\ link' # "down" /\ link # "down"
    BY <1>1, <1>4
  <2>2. \A d \in Fired : In(d, ds) => Loss(d) \in missed'
    BY <1>1, <1>4 DEF In
  <2>3. ASSUME NEW o \in Panels
        PROVE  Told(missed', queue, view, timers, o, Known(o)', panels'[o].status, pushed'[o])
    <3>0. Told(missed, queue, view, timers, o, Known(o), panels[o].status, pushed[o])
      BY <2>1 DEF Inv, ClientTold
    <3>1. CASE o = p
      <4>1. Known(p)' /\ <<p, "status">> \notin missed' => StatusTold(queue, view, p, panels'[p].status)
        BY <2>1, <2>2, <3>0, <3>1 DEF Told
      <4>2. ~Known(p)' => <<p, "removal">> \in missed'
        BY <2>2
      <4>3. <<p, "event">> \notin missed' /\ <<p, "removal">> \notin missed' =>
              EventsTold(queue, view, timers, p, pushed'[p])
        BY <2>1, <2>2, <3>0, <3>1 DEF Told
      <4> QED
        BY <3>1, <4>1, <4>2, <4>3 DEF Told
    <3>2. CASE o # p
      <4>1. /\ Known(o)' = Known(o) /\ pushed'[o] = pushed[o]
            /\ Known(o) => panels'[o] = panels[o]
        BY <3>2
      <4> QED
        BY <2>1, <3>0, <4>1 DEF Told
    <3> QED
      BY <3>1, <3>2
  <2>4. ClientTold'
    BY <1>1, <2>1, <2>3 DEF ClientTold
  <2> QED
    BY <1>1, <1>2, <2>1, <2>4 DEF Inv, Shape, ViewShape, ViewSound, Sound
<1>5. CASE link = "down"
  BY <1>1, <1>2, <1>5 DEF Inv, Shape, ViewShape, ViewSound, Sound, ClientTold
<1> QED
  BY <1>3, <1>4, <1>5 DEF Inv, Shape

LEMMA EmitOne ==
    ASSUME Inv, NEW p \in Panels, NEW d \in Deltas, Emit(<<d>>),
           d.op \notin {"snapshot", "event_append"}, d.id = p, Whole(d),
           d.op = "reseed" /\ d.events # <<>> => Newest(d.events) = pushed[p],
           d.op # "panel_remove" => pushed'[p] = pushed[p], ServerShape', ServerSound',
           \A o \in Panels \ {p} : /\ Known(o)' = Known(o) /\ (Known(o) => panels'[o] = panels[o])
                                    /\ pushed'[o] = pushed[o],
           \/ /\ d.op = "panel_remove"
              /\ Known(p)' => Known(p) /\ panels'[p].status = panels[p].status
           \/ Known(p)' /\ d.op # "panel_remove" /\ d.status = panels'[p].status
    PROVE  Inv'
<1> DEFINE r == Append(queue, d)
<1>1. ASSUME link = "attached"
      PROVE  /\ r \in Seq(Deltas) /\ Sound(r) /\ OthersTold(r, p)
             /\ Told(missed, r, view, timers, p, Known(p)', panels'[p].status, pushed'[p])
  <2>1. /\ Told(missed, queue, view, timers, p, Known(p), panels[p].status, pushed[p])
        /\ OthersTold(queue, p)
    BY <1>1 DEF Inv, ClientTold, OthersTold
  <2>2. queue \in Seq(Deltas) /\ Shape /\ Sound(queue)
    BY DEF Inv, Shape
  <2>3. r \in Seq(Deltas) /\ Sound(r) /\ OthersTold(r, p)
    BY <2>1, <2>2, OthersAppend, SoundAppend
  <2>4. ASSUME <<p, "event">> \notin missed, <<p, "removal">> \notin missed
        PROVE  EventsTold(r, view, timers, p, pushed'[p])
    <3>1. /\ pushed[p] \in Nat /\ pushed'[p] \in Nat
          /\ p \in DOMAIN view => view[p].events \in Seq(Events)
      BY <2>2 DEF Shape, ServerShape, ViewShape, Shown
    <3>2. EventsTold(queue, view, timers, p, pushed[p]) /\ ~IsAppend(d, p)
      BY <2>1, <2>4 DEF Told, IsAppend
    <3>3. IsRemove(d, p) \/ pushed'[p] = pushed[p]
      BY DEF IsRemove
    <3> QED
      BY <2>2, <3>1, <3>2, <3>3, EventsAppend
  <2>5. Known(p)' /\ <<p, "status">> \notin missed => StatusTold(r, view, p, panels'[p].status)
    <3>1. CASE d.op = "panel_remove"
      <4>1. ~Speaks(d, p)
        BY <3>1 DEF Speaks
      <4> QED
        BY <2>1, <2>2, <3>1, <4>1, StatusAppend DEF Told
    <3>2. CASE d.op # "panel_remove"
      <4>1. Speaks(d, p) /\ (Known(p)' => Says(d, p, panels'[p].status))
        BY <3>2, DeltaParts DEF Speaks, Says
      <4> QED
        BY <2>2, <4>1, StatusAppend
    <3> QED
      BY <3>1, <3>2
  <2>6. ~Known(p)' => GoneTold(r, view, timers, p)
    <3>1. ~Known(p)' => IsRemove(d, p)
      BY DEF IsRemove
    <3> QED
      BY <2>2, <3>1, GoneAppend
  <2> QED
    BY <2>3, <2>4, <2>5, <2>6 DEF Told
<1>2. queue \o <<d>> = r
  BY AppendIsConcat DEF Inv, Shape
<1> HIDE DEF r
<1>3. d \in Fired /\ <<d>> \in Seq(Fired)
  BY DEF Fired
<1>4. In(d, <<d>>)
  <2>1. 1 \in 1..Len(<<d>>) /\ <<d>>[1] = d
    OBVIOUS
  <2> QED
    BY <2>1 DEF In
<1>5. Loss(d) = <<p, IF d.op = "panel_remove" THEN "removal" ELSE "status">>
  BY <1>3, LossParts, DeltaParts
<1>6. \/ \E e \in Fired : In(e, <<d>>) /\ Loss(e) = <<p, "status">>
      \/ Known(p)' => Known(p) /\ panels'[p].status = panels[p].status
  BY <1>3, <1>4, <1>5
<1>7. Known(p)' \/ \E e \in Fired : In(e, <<d>>) /\ Loss(e) = <<p, "removal">>
  BY <1>3, <1>4, <1>5
<1>8. \/ \E e \in Fired : In(e, <<d>>) /\ Loss(e) \in {<<p, "event">>, <<p, "removal">>}
      \/ pushed'[p] = pushed[p]
  BY <1>3, <1>4, <1>5
<1> QED
  BY <1>1, <1>2, <1>3, <1>6, <1>7, <1>8, EmitInv

(* A panel with its events.                                                *)
LEMMA KnownParts ==
    ASSUME Inv, NEW p \in Panels, Known(p)
    PROVE  /\ panels[p] \in Served /\ panels[p].events \in Seq(Events)
           /\ panels[p].events # <<>> /\ Unbroken(panels[p].events)
           /\ Newest(panels[p].events) = pushed[p] /\ panels[p].status \in Statuses
  BY DEF Inv, Shape, ServerShape, ServerSound, Known, Served

LEMMA UpsertParts ==
    ASSUME NEW p \in Panels, NEW P \in Served
    PROVE  /\ Upsert(p, P) \in Deltas /\ Upsert(p, P).op = "panel_upsert"
           /\ Upsert(p, P).id = p /\ Upsert(p, P).status = P.status /\ Whole(Upsert(p, P))
  BY DEF Upsert, Deltas, Served, Whole

LEMMA ReseedParts ==
    ASSUME NEW p \in Panels, NEW P \in Served, P.events # <<>>, Unbroken(P.events)
    PROVE  /\ Reseed(p, P) \in Deltas /\ Reseed(p, P).op = "reseed"
           /\ Reseed(p, P).id = p /\ Reseed(p, P).status = P.status /\ Whole(Reseed(p, P))
           /\ Newest(Reseed(p, P).events) = Newest(P.events)
<1> DEFINE few == LastFew(P.events, ReseedCap)
<1>1. few \in Seq(Events) /\ Unbroken(few) /\ Newest(few) = Newest(P.events)
  BY LastFewFacts, CapsAssumption DEF Served
<1> HIDE DEF few
<1>2. Reseed(p, P) = [op |-> "reseed", id |-> p, status |-> P.status, events |-> few]
  BY DEF Reseed, few
<1>3. Reseed(p, P) \in Deltas
  BY <1>1, <1>2 DEF Deltas, Served
<1> QED
  BY <1>1, <1>2, <1>3 DEF Whole

LEMMA StatusParts ==
    ASSUME NEW p \in Panels, NEW st \in Statuses
    PROVE  /\ Status(p, st) \in Deltas /\ Status(p, st).op = "panel_status"
           /\ Status(p, st).id = p /\ Status(p, st).status = st /\ Whole(Status(p, st))
  BY DEF Status, Deltas, Whole

LEMMA RemoveParts ==
    ASSUME NEW p \in Panels
    PROVE  /\ Remove(p) \in Deltas /\ Remove(p).op = "panel_remove"
           /\ Remove(p).id = p /\ Whole(Remove(p))
  BY DEF Remove, Deltas, Whole

(* A handler that changes the status or the bin of a panel, not its events.*)
LEMMA Retouched ==
    ASSUME Inv, NEW p \in Panels, Known(p), NEW P \in Served,
           panels' = [panels EXCEPT ![p] = P], P.events = panels[p].events,
           pushed' = pushed, aged' \subseteq aged
    PROVE  /\ ServerShape' /\ ServerSound' /\ Known(p)' /\ panels'[p] = P
           /\ \A o \in Panels \ {p} : Known(o)' = Known(o) /\ (Known(o) => panels'[o] = panels[o])
<1>1. /\ DOMAIN panels' = DOMAIN panels /\ p \in DOMAIN panels
      /\ panels \in [DOMAIN panels -> Served]
      /\ \A o \in DOMAIN panels : panels'[o] = IF o = p THEN P ELSE panels[o]
  BY DEF Inv, Shape, ServerShape, Known
<1>2. panels' \in [DOMAIN panels' -> Served]
  BY <1>1
<1>3. ServerShape'
  BY <1>1, <1>2 DEF Inv, Shape, ServerShape
<1>4. ServerSound'
  BY <1>1 DEF Inv, ServerSound
<1> QED
  BY <1>1, <1>3, <1>4 DEF Known

LEMMA Dropped ==
    ASSUME Inv, NEW p \in Panels, panels' = Without(panels, p),
           pushed' \in [Panels -> 0..MaxPushed], \A o \in Panels \ {p} : pushed'[o] = pushed[o],
           aged' = aged \ {p}
    PROVE  /\ ServerShape' /\ ServerSound' /\ ~Known(p)'
           /\ \A o \in Panels \ {p} : Known(o)' = Known(o) /\ (Known(o) => panels'[o] = panels[o])
<1>1. /\ DOMAIN panels' = DOMAIN panels \ {p}
      /\ panels \in [DOMAIN panels -> Served]
      /\ \A o \in DOMAIN panels' : panels'[o] = panels[o]
      /\ DOMAIN panels \subseteq Panels
  BY DEF Inv, Shape, ServerShape, Without
<1>2. panels' \in [DOMAIN panels' -> Served]
  BY <1>1 DEF Without
<1>3. ServerShape'
  BY <1>1, <1>2 DEF Inv, Shape, ServerShape
<1>4. ServerSound'
  <2>1. ASSUME NEW o \in DOMAIN panels'
        PROVE  /\ o \in DOMAIN panels /\ panels'[o] = panels[o] /\ pushed'[o] = pushed[o]
    BY <1>1, <2>1
  <2> QED
    BY <2>1 DEF Inv, ServerSound
<1> QED
  BY <1>1, <1>3, <1>4 DEF Known

LEMMA RefreshInv == ASSUME Inv, NEW p \in Panels, Refresh(p) PROVE Inv'
<1> DEFINE d == Upsert(p, panels[p])
<1>1. Known(p) /\ Emit(<<d>>) /\ panels' = panels /\ pushed' = pushed /\ aged' = aged
  BY DEF Refresh
<1>2. /\ d \in Deltas /\ d.op = "panel_upsert" /\ d.id = p /\ Whole(d)
      /\ d.status = panels[p].status
  BY <1>1, KnownParts, UpsertParts
<1>3. ServerShape' /\ ServerSound' /\ Known(p)'
  BY <1>1 DEF Inv, Shape, ServerShape, ServerSound, Known
<1> HIDE DEF d
<1> QED
  BY <1>1, <1>2, <1>3, EmitOne DEF Known

LEMMA TickDemotesInv ==
    ASSUME Inv, NEW p \in Panels, TickDemotes(p) PROVE Inv'
<1> DEFINE next == IF panels[p].status = "live" THEN "done" ELSE "mini"
           P == [panels[p] EXCEPT !.status = next]
           d == Status(p, next)
<1>1. /\ Known(p) /\ Emit(<<d>>) /\ pushed' = pushed /\ aged' = aged
      /\ panels' = [panels EXCEPT ![p].status = next]
  BY DEF TickDemotes
<1>2. next \in Statuses
  BY DEF Statuses
<1>3. P \in Served /\ P.events = panels[p].events /\ P.status = next
  BY <1>1, <1>2, KnownParts DEF Served
<1>4. panels' = [panels EXCEPT ![p] = P]
  BY <1>1 DEF Inv, Shape, ServerShape, Known
<1>5. d \in Deltas /\ d.op = "panel_status" /\ d.id = p /\ Whole(d) /\ d.status = next
  BY <1>2, StatusParts
<1> HIDE DEF d, P, next
<1>6. /\ ServerShape' /\ ServerSound' /\ Known(p)' /\ panels'[p] = P
      /\ \A o \in Panels \ {p} : Known(o)' = Known(o) /\ (Known(o) => panels'[o] = panels[o])
  BY <1>1, <1>3, <1>4, Retouched
<1> QED
  BY <1>1, <1>3, <1>5, <1>6, EmitOne

LEMMA ForgetInv ==
    ASSUME Inv, NEW p \in Panels, Forget(p), pushed' \in [Panels -> 0..MaxPushed],
           \A o \in Panels \ {p} : pushed'[o] = pushed[o]
    PROVE  Inv'
<1> DEFINE d == Remove(p)
<1>1. panels' = Without(panels, p) /\ aged' = aged \ {p} /\ Emit(<<d>>)
  BY DEF Forget
<1>2. d \in Deltas /\ d.op = "panel_remove" /\ d.id = p /\ Whole(d)
  BY RemoveParts
<1> HIDE DEF d
<1>3. /\ ServerShape' /\ ServerSound' /\ ~Known(p)'
      /\ \A o \in Panels \ {p} : Known(o)' = Known(o) /\ (Known(o) => panels'[o] = panels[o])
  BY <1>1, Dropped
<1> QED
  BY <1>1, <1>2, <1>3, EmitOne

LEMMA BinInv == ASSUME Inv, NEW p \in Panels, Bin(p) PROVE Inv'
<1> DEFINE P == [panels[p] EXCEPT !.binned = TRUE]
           d == Remove(p)
<1>1. /\ Known(p) /\ Emit(<<d>>) /\ pushed' = pushed /\ aged' = aged
      /\ panels' = [panels EXCEPT ![p].binned = TRUE]
  BY DEF Bin
<1>2. P \in Served /\ P.events = panels[p].events /\ P.status = panels[p].status
  BY <1>1, KnownParts DEF Served
<1>3. panels' = [panels EXCEPT ![p] = P]
  BY <1>1 DEF Inv, Shape, ServerShape, Known
<1>4. d \in Deltas /\ d.op = "panel_remove" /\ d.id = p /\ Whole(d)
  BY RemoveParts
<1> HIDE DEF d, P
<1>5. /\ ServerShape' /\ ServerSound' /\ Known(p)' /\ panels'[p] = P
      /\ \A o \in Panels \ {p} : Known(o)' = Known(o) /\ (Known(o) => panels'[o] = panels[o])
  BY <1>1, <1>2, <1>3, Retouched
<1> QED
  BY <1>1, <1>2, <1>4, <1>5, EmitOne

LEMMA UnbinInv == ASSUME Inv, NEW p \in Panels, Unbin(p) PROVE Inv'
<1> DEFINE P == [panels[p] EXCEPT !.binned = FALSE]
           d == Reseed(p, panels[p])
<1>1. /\ Known(p) /\ Emit(<<d>>) /\ pushed' = pushed /\ aged' = aged
      /\ panels' = [panels EXCEPT ![p].binned = FALSE]
  BY DEF Unbin
<1>2. P \in Served /\ P.events = panels[p].events /\ P.status = panels[p].status
  BY <1>1, KnownParts DEF Served
<1>3. panels' = [panels EXCEPT ![p] = P]
  BY <1>1 DEF Inv, Shape, ServerShape, Known
<1>4. /\ d \in Deltas /\ d.op = "reseed" /\ d.id = p /\ d.status = panels[p].status /\ Whole(d)
      /\ Newest(d.events) = pushed[p]
  BY <1>1, KnownParts, ReseedParts
<1> HIDE DEF d, P
<1>5. /\ ServerShape' /\ ServerSound' /\ Known(p)' /\ panels'[p] = P
      /\ \A o \in Panels \ {p} : Known(o)' = Known(o) /\ (Known(o) => panels'[o] = panels[o])
  BY <1>1, <1>2, <1>3, Retouched
<1> QED
  BY <1>1, <1>2, <1>4, <1>5, EmitOne

LEMMA ForceStatusInv ==
    ASSUME Inv, NEW p \in Panels, NEW st \in Statuses, ForceStatus(p, st)
    PROVE  Inv'
<1> DEFINE P == [panels[p] EXCEPT !.status = st]
           d == IF panels[p].status # "mini" THEN Status(p, st)
                ELSE IF P.events = <<>> THEN Upsert(p, P) ELSE Reseed(p, P)
<1>1. /\ Known(p) /\ Emit(<<d>>) /\ pushed' = pushed /\ aged' \subseteq aged
      /\ panels' = [panels EXCEPT ![p] = P]
  BY DEF ForceStatus
<1>2. /\ P \in Served /\ P.events = panels[p].events /\ P.status = st
      /\ P.events # <<>> /\ Unbroken(P.events) /\ Newest(P.events) = pushed[p]
  BY <1>1, KnownParts DEF Served
<1> HIDE DEF P
<1>3. /\ d \in Deltas /\ d.op \in {"panel_status", "reseed"} /\ d.id = p /\ d.status = st /\ Whole(d)
      /\ d.op = "reseed" => Newest(d.events) = pushed[p]
  <2>1. CASE panels[p].status # "mini"
    BY <2>1, StatusParts
  <2>2. CASE panels[p].status = "mini"
    <3>1. d = Reseed(p, P)
      BY <1>2, <2>2
    <3> QED
      BY <1>2, <3>1, ReseedParts
  <2> QED
    BY <2>1, <2>2
<1> HIDE DEF d
<1>4. /\ ServerShape' /\ ServerSound' /\ Known(p)' /\ panels'[p] = P
      /\ \A o \in Panels \ {p} : Known(o)' = Known(o) /\ (Known(o) => panels'[o] = panels[o])
  BY <1>1, <1>2, Retouched
<1> QED
  BY <1>1, <1>2, <1>3, <1>4, EmitOne

(* A handler that pushes an event: a list of announcements, then the event.*)
EventsCount(p) == <<p, "event">> \notin missed /\ <<p, "removal">> \notin missed
StatusCounts(p) == <<p, "status">> \notin missed
Stage(q, p) ==
    /\ q \in Seq(Deltas) /\ Sound(q) /\ OthersTold(q, p)
    /\ EventsCount(p) => EventsTold(q, view, timers, p, pushed[p])

LEMMA StageAppend ==
    ASSUME Shape, NEW p \in Panels, NEW q, Stage(q, p), NEW d \in Deltas,
           d.op \in {"panel_upsert", "panel_status"}, d.id = p
    PROVE  /\ Stage(Append(q, d), p)
           /\ \A st : d.status = st => StatusTold(Append(q, d), view, p, st)
<1>1. /\ q \in Seq(Deltas) /\ Sound(q) /\ OthersTold(q, p)
      /\ EventsCount(p) => EventsTold(q, view, timers, p, pushed[p])
  BY DEF Stage
<1>2. Whole(d) /\ d.op # "snapshot" /\ d.op # "reseed" /\ ~IsAppend(d, p) /\ Speaks(d, p)
  BY DEF Whole, IsAppend, Speaks
<1>3. Append(q, d) \in Seq(Deltas) /\ Sound(Append(q, d)) /\ OthersTold(Append(q, d), p)
  BY <1>1, <1>2, SoundAppend, OthersAppend
<1>4. EventsCount(p) => EventsTold(Append(q, d), view, timers, p, pushed[p])
  <2>1. pushed[p] \in Nat /\ (p \in DOMAIN view => view[p].events \in Seq(Events))
    BY DEF Shape, ServerShape, ViewShape, Shown
  <2> QED
    BY <1>1, <1>2, <2>1, EventsAppend
<1>5. \A st : d.status = st => StatusTold(Append(q, d), view, p, st)
  <2> TAKE st
  <2> HAVE d.status = st
  <2>1. Says(d, p, st)
    BY <1>2 DEF Says
  <2> QED
    BY <1>1, <1>2, <2>1, StatusAppend
<1> QED
  BY <1>3, <1>4, <1>5 DEF Stage

LEMMA PushTold ==
    ASSUME Shape, NEW p \in Panels, NEW q, Stage(q, p), NEW st,
           StatusCounts(p) => StatusTold(q, view, p, st),
           pushed[p] + 1 \in Events
    PROVE  LET r == Append(q, EventAppend(p, pushed[p] + 1))
           IN  /\ r \in Seq(Deltas) /\ Sound(r) /\ OthersTold(r, p)
               /\ StatusCounts(p) => StatusTold(r, view, p, st)
               /\ EventsCount(p) => EventsTold(r, view, timers, p, pushed[p] + 1)
<1> DEFINE d == EventAppend(p, pushed[p] + 1)
<1>1. /\ q \in Seq(Deltas) /\ Sound(q) /\ OthersTold(q, p)
      /\ EventsCount(p) => EventsTold(q, view, timers, p, pushed[p])
  BY DEF Stage
<1>2. /\ d \in Deltas /\ d.op = "event_append" /\ d.id = p /\ d.event = pushed[p] + 1
      /\ Whole(d) /\ IsAppend(d, p) /\ ~Speaks(d, p)
  BY DEF EventAppend, Deltas, Whole, IsAppend, Speaks
<1> HIDE DEF d
<1>3. Append(q, d) \in Seq(Deltas) /\ Sound(Append(q, d)) /\ OthersTold(Append(q, d), p)
  BY <1>1, <1>2, SoundAppend, OthersAppend
<1>4. EventsCount(p) => EventsTold(Append(q, d), view, timers, p, pushed[p] + 1)
  <2>1. /\ pushed[p] \in Nat /\ pushed[p] + 1 \in Nat
        /\ p \in DOMAIN view => view[p].events \in Seq(Events)
    BY DEF Shape, ServerShape, ViewShape, Shown
  <2> QED
    BY <1>1, <1>2, <2>1, EventsAppend
<1>5. StatusCounts(p) => StatusTold(Append(q, d), view, p, st)
  BY <1>1, <1>2, StatusAppend
<1> QED
  BY <1>3, <1>4, <1>5 DEF d

LEMMA PairIsConcat ==
    ASSUME NEW S, NEW d \in S, NEW e \in S
    PROVE  <<d>> \o <<e>> = <<d, e>>
<1> DEFINE x == <<d>>
           y == <<e>>
           z == <<d, e>>
           w == x \o y
<1>1. /\ x \in Seq(S) /\ y \in Seq(S) /\ z \in Seq(S)
      /\ Len(z) = 2 /\ z[1] = d /\ z[2] = e
  OBVIOUS
<1>2. Len(x) = 1 /\ Len(y) = 1 /\ x[1] = d /\ y[1] = e
  OBVIOUS
<1> HIDE DEF x, y, z
<1>3. w \in Seq(S) /\ Len(w) = 2
  BY <1>1, <1>2, ConcatProperties
<1>4. w[1] = d /\ w[2] = e
  <2>1. \A i \in 1..(Len(x) + Len(y)) : w[i] = IF i <= Len(x) THEN x[i] ELSE y[i - Len(x)]
    BY <1>1, ConcatProperties
  <2>2. /\ 1 \in 1..(Len(x) + Len(y)) /\ 2 \in 1..(Len(x) + Len(y))
        /\ 1 <= Len(x) /\ ~(2 <= Len(x)) /\ 2 - Len(x) = 1
    BY <1>2
  <2> HIDE DEF w
  <2> QED
    BY <1>2, <2>1, <2>2
<1> HIDE DEF w
<1>5. w = z
  <2>1. \A i \in 1..2 : w[i] = z[i]
    BY <1>1, <1>4
  <2> QED
    BY <1>1, <1>3, <2>1, SeqEqual
<1> QED
  BY <1>5 DEF w, x, y, z

(* What is in one of two lists is in their concatenation.                  *)
LEMMA InConcat ==
    ASSUME NEW S, NEW s \in Seq(S), NEW t \in Seq(S), NEW x, In(x, s) \/ In(x, t)
    PROVE  In(x, s \o t)
<1> DEFINE u == s \o t
<1>1. /\ Len(s) \in Nat /\ Len(t) \in Nat /\ Len(u) = Len(s) + Len(t)
      /\ \A i \in 1..(Len(s) + Len(t)) : u[i] = IF i <= Len(s) THEN s[i] ELSE t[i - Len(s)]
  BY ConcatProperties
<1> HIDE DEF u
<1>2. CASE In(x, s)
  <2>1. PICK i \in 1..Len(s) : s[i] = x
    BY <1>2 DEF In
  <2>2. i \in 1..Len(u) /\ u[i] = x
    BY <1>1, <2>1
  <2> QED
    BY <2>2 DEF In, u
<1>3. CASE In(x, t)
  <2>1. PICK i \in 1..Len(t) : t[i] = x
    BY <1>3 DEF In
  <2> DEFINE k == Len(s) + i
  <2>2. k \in 1..(Len(s) + Len(t)) /\ ~(k <= Len(s)) /\ k - Len(s) = i
    BY <1>1, <2>1
  <2> HIDE DEF k
  <2>3. k \in 1..Len(u) /\ u[k] = x
    BY <1>1, <2>1, <2>2
  <2> QED
    BY <2>3 DEF In, u
<1> QED
  BY <1>2, <1>3

InTurn(q, a, b, c, d, e) ==
    q \o (a \o b \o c \o d \o e) = ((((q \o a) \o b) \o c) \o d) \o e
LEMMA SentInTurn ==
    ASSUME NEW S, NEW q \in Seq(S)
    PROVE  \A a, b, c, d, e \in Seq(S) : InTurn(q, a, b, c, d, e)
<1>1. \A x, y \in Seq(S) : q \o (x \o y) = (q \o x) \o y
  <2> TAKE x, y \in Seq(S)
  <2> QED
    BY ConcatAssociative
<1> TAKE a, b, c, d, e \in Seq(S)
<1> DEFINE ab == a \o b
           abc == ab \o c
           abcd == abc \o d
<1>2. /\ ab \in Seq(S) /\ abc \in Seq(S) /\ abcd \in Seq(S)
  BY ConcatProperties
<1> HIDE DEF ab, abc, abcd
<1>3. q \o ab = (q \o a) \o b
  BY <1>1, Zenon DEF ab
<1>4. q \o abc = (q \o ab) \o c
  BY <1>1, <1>2, Zenon DEF abc
<1>5. q \o abcd = (q \o abc) \o d
  BY <1>1, <1>2, Zenon DEF abcd
<1>6. q \o (abcd \o e) = (q \o abcd) \o e
  BY <1>1, <1>2, Zenon
<1>7. q \o (abcd \o e) = ((((q \o a) \o b) \o c) \o d) \o e
  BY <1>3, <1>4, <1>5, <1>6, Zenon
<1> QED
  BY <1>7, Zenon DEF InTurn, ab, abc, abcd

LEMMA MaybeSent ==
    ASSUME NEW q \in Seq(Deltas), NEW d \in Deltas, NEW c \in BOOLEAN
    PROVE  q \o (IF c THEN <<d>> ELSE <<>>) = IF c THEN Append(q, d) ELSE q
<1>1. CASE c
  BY <1>1, AppendIsConcat
<1>2. CASE ~c
  BY <1>2, ConcatEmptySeq
<1> QED
  BY <1>1, <1>2

(* The panel after a push.                                                 *)
LEMMA Pushed ==
    ASSUME Inv, NEW p \in Panels, NEW Q \in Served,
           panels' = With(panels, p, Q), pushed' = [pushed EXCEPT ![p] = @ + 1],
           pushed[p] < MaxPushed, aged' \subseteq aged,
           Q.events # <<>>, Unbroken(Q.events), Newest(Q.events) = pushed[p] + 1
    PROVE  /\ ServerShape' /\ ServerSound' /\ Known(p)' /\ panels'[p] = Q
           /\ pushed'[p] = pushed[p] + 1 /\ pushed[p] + 1 \in Events
           /\ \A o \in Panels \ {p} : /\ Known(o)' = Known(o) /\ pushed'[o] = pushed[o]
                                      /\ Known(o) => panels'[o] = panels[o]
<1>1. /\ DOMAIN panels' = DOMAIN panels \cup {p}
      /\ panels \in [DOMAIN panels -> Served]
      /\ \A o \in DOMAIN panels' : panels'[o] = IF o = p THEN Q ELSE panels[o]
      /\ aged \subseteq DOMAIN panels /\ DOMAIN panels \subseteq Panels
  BY DEF Inv, Shape, ServerShape, With
<1>2. panels' \in [DOMAIN panels' -> Served]
  BY <1>1 DEF With
<1>3. /\ pushed \in [Panels -> 0..MaxPushed] /\ MaxPushed \in Nat /\ pushed[p] \in 0..MaxPushed
      /\ pushed[p] + 1 \in 0..MaxPushed /\ pushed[p] + 1 \in Events
  BY BoundsAssumption DEF Inv, Shape, ServerShape, Events
<1>4. ServerShape'
  BY <1>1, <1>2, <1>3 DEF ServerShape
<1>5. ServerSound'
  BY <1>1, <1>3 DEF Inv, ServerSound
<1> QED
  BY <1>1, <1>3, <1>4, <1>5 DEF Known

(* The list with one more event, before the cap.                           *)
LEMMA PushedEvents ==
    ASSUME Inv, NEW p \in Panels, pushed[p] < MaxPushed, NEW s \in Seq(Events), Unbroken(s),
           s # <<>> => Newest(s) = pushed[p]
    PROVE  LET t == Append(s, pushed[p] + 1)
           IN  /\ t \in Seq(Events) /\ t # <<>> /\ Unbroken(t) /\ Newest(t) = pushed[p] + 1
               /\ Capped(t) \in Seq(Events) /\ Capped(t) # <<>> /\ Unbroken(Capped(t))
               /\ Newest(Capped(t)) = pushed[p] + 1
<1>1. pushed[p] + 1 \in Events
  BY BoundsAssumption DEF Inv, Shape, ServerShape, Events
<1> DEFINE t == Append(s, pushed[p] + 1)
<1>2. t \in Seq(Events) /\ t # <<>> /\ Unbroken(t) /\ Newest(t) = pushed[p] + 1
  BY <1>1, AppendFacts
<1> HIDE DEF t
<1>3. /\ Capped(t) \in Seq(Events) /\ Capped(t) # <<>> /\ Unbroken(Capped(t))
      /\ Newest(Capped(t)) = pushed[p] + 1
  BY <1>2, CappedFacts
<1> QED
  BY <1>2, <1>3 DEF t

LEMMA AutoTitleInv ==
    ASSUME Inv, NEW p \in Panels, AutoTitle(p) PROVE Inv'
<1> DEFINE n == pushed[p] + 1
           Q == [panels[p] EXCEPT !.events = Append(panels[p].events, n)]
           d == Upsert(p, panels[p])
           e == EventAppend(p, n)
<1>1. /\ Known(p) /\ Emit(<<d, e>>) /\ aged' = aged /\ pushed[p] < MaxPushed
      /\ pushed' = [pushed EXCEPT ![p] = @ + 1]
      /\ panels' = [panels EXCEPT ![p].events = Append(@, n)]
  BY DEF AutoTitle
<1>2. /\ Append(panels[p].events, n) \in Seq(Events) /\ Append(panels[p].events, n) # <<>>
      /\ Unbroken(Append(panels[p].events, n)) /\ Newest(Append(panels[p].events, n)) = n
  BY <1>1, KnownParts, PushedEvents
<1>3. Q \in Served /\ Q.events = Append(panels[p].events, n) /\ Q.status = panels[p].status
  BY <1>1, <1>2, KnownParts DEF Served
<1>4. panels' = With(panels, p, Q)
  BY <1>1 DEF Inv, Shape, ServerShape, Known, With
<1> HIDE DEF Q
<1>5. /\ ServerShape' /\ ServerSound' /\ Known(p)' /\ panels'[p] = Q /\ pushed'[p] = n /\ n \in Events
      /\ \A o \in Panels \ {p} : /\ Known(o)' = Known(o) /\ pushed'[o] = pushed[o]
                                 /\ Known(o) => panels'[o] = panels[o]
  BY <1>1, <1>2, <1>3, <1>4, Pushed
<1>6. /\ d \in Deltas /\ d.op = "panel_upsert" /\ d.id = p /\ d.status = Q.status
  BY <1>1, <1>3, KnownParts, UpsertParts
<1>8. /\ d \in Fired /\ e \in Fired /\ Loss(d) = <<p, "status">> /\ Loss(e) = <<p, "event">>
  <2>1. e \in Deltas /\ e.op = "event_append" /\ e.id = p
    BY <1>5 DEF EventAppend, Deltas
  <2> HIDE DEF d, e
  <2>2. d \in Fired /\ e \in Fired
    BY <1>6, <2>1 DEF Fired
  <2> QED
    BY <1>6, <2>1, <2>2, LossParts
<1>7. ASSUME link = "attached"
      PROVE  /\ queue \o <<d, e>> \in Seq(Deltas) /\ Sound(queue \o <<d, e>>)
             /\ OthersTold(queue \o <<d, e>>, p)
             /\ Told(missed, queue \o <<d, e>>, view, timers, p, Known(p)', panels'[p].status, pushed'[p])
  <2>1. Shape /\ queue \in Seq(Deltas) /\ Stage(queue, p)
    BY <1>7 DEF Inv, Shape, ClientTold, OthersTold, Told, Stage, EventsCount
  <2>2. queue \o <<d, e>> = Append(Append(queue, d), e)
    <3>1. e \in Deltas
      BY <1>5 DEF EventAppend, Deltas
    <3> HIDE DEF d, e
    <3>2. Append(queue, d) \in Seq(Deltas) /\ <<d>> \in Seq(Deltas) /\ <<e>> \in Seq(Deltas)
      BY <1>6, <2>1, <3>1
    <3>3. Append(Append(queue, d), e) = (queue \o <<d>>) \o <<e>>
      BY <1>6, <2>1, <3>1, <3>2, AppendIsConcat
    <3>4. (queue \o <<d>>) \o <<e>> = queue \o (<<d>> \o <<e>>)
      BY <2>1, <3>2, ConcatAssociative
    <3>5. <<d>> \o <<e>> = <<d, e>>
      BY <1>6, <3>1, PairIsConcat
    <3> QED
      BY <3>3, <3>4, <3>5
  <2> HIDE DEF d
  <2>3. Stage(Append(queue, d), p) /\ StatusTold(Append(queue, d), view, p, Q.status)
    BY <1>6, <2>1, StageAppend
  <2> DEFINE r == Append(Append(queue, d), e)
  <2>4. /\ r \in Seq(Deltas) /\ Sound(r) /\ OthersTold(r, p)
        /\ StatusCounts(p) => StatusTold(r, view, p, Q.status)
        /\ EventsCount(p) => EventsTold(r, view, timers, p, n)
    BY <1>5, <2>1, <2>3, PushTold
  <2> HIDE DEF r
  <2> QED
    BY <1>5, <2>2, <2>4 DEF Told, r, StatusCounts, EventsCount
<1> HIDE DEF n, d, e
<1>9. <<d, e>> \in Seq(Fired) /\ In(d, <<d, e>>) /\ In(e, <<d, e>>)
  <2>1. /\ 1 \in 1..Len(<<d, e>>) /\ <<d, e>>[1] = d
        /\ 2 \in 1..Len(<<d, e>>) /\ <<d, e>>[2] = e
    OBVIOUS
  <2> QED
    BY <1>8, <2>1 DEF In
<1>10. \E x \in Fired : In(x, <<d, e>>) /\ Loss(x) = <<p, "status">>
  BY <1>8, <1>9
<1>11. \E x \in Fired : In(x, <<d, e>>) /\ Loss(x) \in {<<p, "event">>, <<p, "removal">>}
  BY <1>8, <1>9
<1> QED
  BY <1>1, <1>5, <1>7, <1>9, <1>10, <1>11, EmitInv

LEMMA IngestInv ==
    ASSUME Inv, NEW p \in Panels, NEW born \in Statuses, NEW st \in Statuses,
           NEW refreshed \in {"no", "early", "late"}, Ingest(p, born, refreshed, st)
    PROVE  Inv'
<1> DEFINE isNew == ~Known(p)
           P == IF isNew THEN [status |-> born, binned |-> FALSE, events |-> <<>>] ELSE panels[p]
           n == pushed[p] + 1
           Q == [P EXCEPT !.status = st, !.events = Capped(Append(P.events, n))]
           If(c, delta) == IF c THEN <<delta>> ELSE <<>>
           a == If(isNew, Upsert(p, P))
           b == If(refreshed = "early", Upsert(p, P))
           c == If(st # P.status, Status(p, st))
           d == If(refreshed = "late", Upsert(p, Q))
           e == <<EventAppend(p, n)>>
<1>1. /\ Emit(a \o b \o c \o d \o <<EventAppend(p, pushed'[p])>>) /\ aged' \subseteq aged
      /\ pushed[p] < MaxPushed /\ pushed' = [pushed EXCEPT ![p] = @ + 1]
      /\ panels' = With(panels, p, Q)
  BY DEF Ingest
<1>2. /\ P \in Served /\ P.events \in Seq(Events) /\ Unbroken(P.events)
      /\ P.events # <<>> => Newest(P.events) = pushed[p]
  <2>1. CASE isNew
    <3>1. P = [status |-> born, binned |-> FALSE, events |-> <<>>] /\ <<>> \in Seq(Events)
      BY <2>1
    <3> HIDE DEF P
    <3>2. Unbroken(<<>>)
      BY DEF Unbroken
    <3>3. P \in Served /\ P.events = <<>>
      BY <3>1 DEF Served
    <3> QED
      BY <3>1, <3>2, <3>3
  <2>2. CASE ~isNew
    BY <2>2, KnownParts
  <2> QED
    BY <2>1, <2>2
<1>3. ~isNew => P = panels[p]
  OBVIOUS
<1> HIDE DEF P
<1> DEFINE t == Capped(Append(P.events, n))
<1>4. t \in Seq(Events) /\ t # <<>> /\ Unbroken(t) /\ Newest(t) = n
  BY <1>1, <1>2, PushedEvents
<1>5. Q \in Served /\ Q.events = t /\ Q.status = st
  BY <1>2, <1>4 DEF Served
<1> HIDE DEF t
<1>6. /\ ServerShape' /\ ServerSound' /\ Known(p)' /\ panels'[p] = Q /\ pushed'[p] = n /\ n \in Events
      /\ \A o \in Panels \ {p} : /\ Known(o)' = Known(o) /\ pushed'[o] = pushed[o]
                                 /\ Known(o) => panels'[o] = panels[o]
  <2> HIDE DEF Q
  <2> QED
    BY <1>1, <1>4, <1>5, Pushed
<1>7. /\ Upsert(p, P) \in Deltas /\ Upsert(p, P).op = "panel_upsert" /\ Upsert(p, P).id = p
      /\ Upsert(p, P).status = P.status
      /\ Upsert(p, Q) \in Deltas /\ Upsert(p, Q).op = "panel_upsert" /\ Upsert(p, Q).id = p
      /\ Upsert(p, Q).status = st
      /\ Status(p, st) \in Deltas /\ Status(p, st).op = "panel_status" /\ Status(p, st).id = p
      /\ Status(p, st).status = st
      /\ EventAppend(p, n) \in Deltas
  <2>1. EventAppend(p, n) \in Deltas
    BY <1>6 DEF EventAppend, Deltas
  <2> HIDE DEF Q
  <2> QED
    BY <1>2, <1>5, <2>1, UpsertParts, StatusParts
<1> HIDE DEF Q
<1>8. ASSUME link = "attached"
      PROVE  LET r == queue \o (a \o b \o c \o d \o e)
             IN  /\ r \in Seq(Deltas) /\ Sound(r) /\ OthersTold(r, p)
                 /\ Told(missed, r, view, timers, p, Known(p)', panels'[p].status, pushed'[p])
  <2> DEFINE q1 == IF isNew THEN Append(queue, Upsert(p, P)) ELSE queue
             q2 == IF refreshed = "early" THEN Append(q1, Upsert(p, P)) ELSE q1
             q3 == IF st # P.status THEN Append(q2, Status(p, st)) ELSE q2
             q4 == IF refreshed = "late" THEN Append(q3, Upsert(p, Q)) ELSE q3
             r == Append(q4, EventAppend(p, n))
  <2>1. /\ Shape /\ queue \in Seq(Deltas) /\ Stage(queue, p)
        /\ Known(p) /\ StatusCounts(p) => StatusTold(queue, view, p, panels[p].status)
    BY <1>8 DEF Inv, Shape, ClientTold, OthersTold, Told, Stage, StatusCounts, EventsCount
  <2>2. Stage(q1, p) /\ (StatusCounts(p) => StatusTold(q1, view, p, P.status))
    BY <1>3, <1>7, <2>1, StageAppend
  <2> HIDE DEF q1, isNew
  <2>3. Stage(q2, p) /\ (StatusCounts(p) => StatusTold(q2, view, p, P.status))
    BY <1>7, <2>1, <2>2, StageAppend
  <2> HIDE DEF q2
  <2>4. Stage(q3, p) /\ (StatusCounts(p) => StatusTold(q3, view, p, st))
    BY <1>7, <2>1, <2>3, StageAppend
  <2> HIDE DEF q3
  <2>5. Stage(q4, p) /\ (StatusCounts(p) => StatusTold(q4, view, p, st))
    BY <1>7, <2>1, <2>4, StageAppend
  <2> HIDE DEF q4
  <2>6. /\ r \in Seq(Deltas) /\ Sound(r) /\ OthersTold(r, p)
        /\ StatusCounts(p) => StatusTold(r, view, p, st)
        /\ EventsCount(p) => EventsTold(r, view, timers, p, n)
    BY <1>6, <2>1, <2>5, PushTold
  <2>7. queue \o (a \o b \o c \o d \o e) = r
    <3>1. q1 \in Seq(Deltas) /\ q2 \in Seq(Deltas) /\ q3 \in Seq(Deltas) /\ q4 \in Seq(Deltas)
      BY <2>2, <2>3, <2>4, <2>5 DEF Stage
    <3>2. a \in Seq(Deltas) /\ b \in Seq(Deltas) /\ c \in Seq(Deltas) /\ d \in Seq(Deltas)
          /\ e \in Seq(Deltas)
      BY <1>7
    <3>3. q1 = queue \o a
      BY <1>7, <2>1, MaybeSent DEF q1, isNew
    <3>4. q2 = q1 \o b
      BY <1>7, <3>1, MaybeSent DEF q2
    <3>5. q3 = q2 \o c
      BY <1>7, <3>1, MaybeSent DEF q3
    <3>6. q4 = q3 \o d
      BY <1>7, <3>1, MaybeSent DEF q4
    <3>7. r = q4 \o e
      BY <1>7, <3>1, AppendIsConcat
    <3> HIDE DEF r, a, b, c, d, e
    <3>8. queue \o (a \o b \o c \o d \o e) = ((((queue \o a) \o b) \o c) \o d) \o e
      <4>1. queue \in Seq(Deltas)
        BY <2>1
      <4>2. InTurn(queue, a, b, c, d, e)
        BY <3>2, <4>1, SentInTurn
      <4> QED
        BY <4>2, Zenon DEF InTurn
    <3> QED
      BY <3>3, <3>4, <3>5, <3>6, <3>7, <3>8, Zenon
  <2> HIDE DEF r
  <2> QED
    BY <1>5, <1>6, <2>6, <2>7 DEF Told, StatusCounts, EventsCount
<1>9. Emit(a \o b \o c \o d \o e)
  BY <1>1, <1>6
(* What nobody hears: the event, and the status if it is new.              *)
<1>10. /\ Upsert(p, P) \in Fired /\ Upsert(p, Q) \in Fired /\ Status(p, st) \in Fired
       /\ EventAppend(p, n) \in Fired
       /\ Loss(Upsert(p, P)) = <<p, "status">> /\ Loss(Status(p, st)) = <<p, "status">>
       /\ Loss(EventAppend(p, n)) = <<p, "event">>
  <2>1. EventAppend(p, n).op = "event_append" /\ EventAppend(p, n).id = p
    BY DEF EventAppend
  <2>2. /\ Upsert(p, P) \in Fired /\ Upsert(p, Q) \in Fired /\ Status(p, st) \in Fired
        /\ EventAppend(p, n) \in Fired
    BY <1>7, <2>1 DEF Fired
  <2> QED
    BY <1>7, <2>1, <2>2, LossParts
<1>11. /\ a \in Seq(Fired) /\ b \in Seq(Fired) /\ c \in Seq(Fired) /\ d \in Seq(Fired)
       /\ e \in Seq(Fired)
       /\ isNew => In(Upsert(p, P), a)
       /\ st # P.status => In(Status(p, st), c)
       /\ In(EventAppend(p, n), e)
  <2>1. \A x : In(x, <<x>>)
    <3> TAKE x
    <3>1. 1 \in 1..Len(<<x>>) /\ <<x>>[1] = x
      OBVIOUS
    <3> QED
      BY <3>1 DEF In
  <2> QED
    BY <1>10, <2>1
<1> HIDE DEF a, b, c, d, e, n
<1> DEFINE ab == a \o b
           abc == ab \o c
           abcd == abc \o d
           ds == abcd \o e
<1>12. ab \in Seq(Fired) /\ abc \in Seq(Fired) /\ abcd \in Seq(Fired) /\ ds \in Seq(Fired)
  BY <1>11, ConcatProperties
<1> HIDE DEF ab, abc, abcd, ds
<1>13. \E x \in Fired : In(x, ds) /\ Loss(x) \in {<<p, "event">>, <<p, "removal">>}
  <2>1. In(EventAppend(p, n), ds)
    BY <1>11, <1>12, InConcat DEF ds
  <2> QED
    BY <1>10, <2>1
<1>14. \/ \E x \in Fired : In(x, ds) /\ Loss(x) = <<p, "status">>
       \/ Known(p)' => Known(p) /\ panels'[p].status = panels[p].status
  <2>1. CASE isNew
    <3>1. In(Upsert(p, P), ab)
      BY <1>11, <2>1, InConcat DEF ab
    <3>2. In(Upsert(p, P), abc)
      BY <1>11, <1>12, <3>1, InConcat DEF abc
    <3>3. In(Upsert(p, P), abcd)
      BY <1>11, <1>12, <3>2, InConcat DEF abcd
    <3>4. In(Upsert(p, P), ds)
      BY <1>11, <1>12, <3>3, InConcat DEF ds
    <3> QED
      BY <1>10, <3>4
  <2>2. CASE st # P.status
    <3>2. In(Status(p, st), abc)
      BY <1>11, <1>12, <2>2, InConcat DEF abc
    <3>3. In(Status(p, st), abcd)
      BY <1>11, <1>12, <3>2, InConcat DEF abcd
    <3>4. In(Status(p, st), ds)
      BY <1>11, <1>12, <3>3, InConcat DEF ds
    <3> QED
      BY <1>10, <3>4
  <2>3. CASE ~isNew /\ st = P.status
    BY <1>3, <1>5, <1>6, <2>3
  <2> QED
    BY <2>1, <2>2, <2>3
<1>15. ds = a \o b \o c \o d \o e
  BY DEF ds, abcd, abc, ab
<1> HIDE DEF isNew
<1>16. /\ Emit(ds)
       /\ link = "attached" =>
             /\ queue \o ds \in Seq(Deltas) /\ Sound(queue \o ds) /\ OthersTold(queue \o ds, p)
             /\ Told(missed, queue \o ds, view, timers, p, Known(p)', panels'[p].status, pushed'[p])
  BY <1>8, <1>9, <1>15
<1> QED
  BY <1>6, <1>12, <1>13, <1>14, <1>16, EmitInv

LEMMA AgeOutInv ==
    ASSUME Inv, NEW p \in Panels, AgeOut(p) PROVE Inv'
<1>1. /\ panels' = panels /\ pushed' = pushed /\ link' = link /\ queue' = queue
      /\ view' = view /\ timers' = timers /\ outages' = outages /\ missed' = missed
      /\ aged' \subseteq DOMAIN panels
  BY DEF AgeOut, clientVars, Known, Inv, Shape, ServerShape
<1>2. Shape'
  BY <1>1 DEF Inv, Shape, ServerShape, ViewShape
<1>3. ServerSound' /\ ViewSound(view)' /\ Sound(queue)'
  BY <1>1 DEF Inv, ServerSound, ViewSound, Sound
<1>4. ClientTold'
  BY <1>1 DEF Inv, ClientTold, Known
<1> QED
  BY <1>2, <1>3, <1>4 DEF Inv

----------------------------------------------------------------------------
(* The subscription.                                                       *)

SnapshotTells(m, p) ==
    /\ Known(p) /\ m.panels[p].status = panels[p].status
    /\ m.panels[p].events # <<>> => Newest(m.panels[p].events) = pushed[p]

LEMMA SnapshotParts ==
    ASSUME Inv
    PROVE  /\ Snapshot \in Deltas /\ Snapshot.op = "snapshot" /\ Whole(Snapshot)
           /\ DOMAIN Snapshot.panels = Surfaced
           /\ \A p \in Surfaced : SnapshotTells(Snapshot, p)
<1>1. ASSUME NEW p \in Surfaced
      PROVE  /\ Known(p) /\ p \in Panels /\ SnapshotPanel(p) \in Shown
             /\ SnapshotPanel(p).status = panels[p].status
             /\ Unbroken(SnapshotPanel(p).events)
             /\ SnapshotPanel(p).events # <<>> => Newest(SnapshotPanel(p).events) = pushed[p]
  <2>1. Known(p) /\ p \in Panels
    BY DEF Surfaced, Known, Inv, Shape, ServerShape
  <2> DEFINE few == IF panels[p].status = "mini" THEN <<>>
                                                ELSE LastFew(panels[p].events, SnapshotCap)
  <2>2. few \in Seq(Events) /\ Unbroken(few) /\ (few # <<>> => Newest(few) = pushed[p])
    <3>1. CASE panels[p].status = "mini"
      BY <3>1 DEF Unbroken
    <3>2. CASE panels[p].status # "mini"
      BY <2>1, <3>2, KnownParts, LastFewFacts, CapsAssumption
    <3> QED
      BY <3>1, <3>2
  <2> HIDE DEF few
  <2>3. SnapshotPanel(p) = [status |-> panels[p].status, events |-> few, removing |-> FALSE]
    BY DEF SnapshotPanel, few
  <2>4. panels[p].status \in Statuses
    BY <2>1, KnownParts
  <2> QED
    BY <2>1, <2>2, <2>3, <2>4 DEF Shown
<1> DEFINE f == [p \in Surfaced |-> SnapshotPanel(p)]
<1>2. Surfaced \in SUBSET Panels /\ f \in [Surfaced -> Shown]
  BY <1>1
<1>3. \A p \in Surfaced : f[p] = SnapshotPanel(p)
  OBVIOUS
<1> HIDE DEF f
<1>4. Snapshot = [op |-> "snapshot", panels |-> f]
  BY DEF Snapshot, f
<1>5. Snapshot \in Deltas
  BY <1>2, <1>4 DEF Deltas
<1>6. DOMAIN f = Surfaced /\ \A p \in Surfaced : f[p] = SnapshotPanel(p)
  BY <1>2, <1>3
<1> QED
  BY <1>1, <1>4, <1>5, <1>6 DEF Whole, SnapshotTells

LEMMA SubscribeInv ==
    ASSUME Inv, Subscribe PROVE Inv'
<1>1. /\ link' = "greeted" /\ queue' = <<Snapshot>>
      /\ panels' = panels /\ aged' = aged /\ pushed' = pushed
      /\ view' = view /\ timers' = timers /\ outages' = outages /\ missed' = missed
  BY DEF Subscribe, clientVars
<1> DEFINE q == <<Snapshot>>
<1>2. q \in Seq(Deltas) /\ Len(q) = 1 /\ q[1] = Snapshot
  BY SnapshotParts
<1> HIDE DEF q
<1>3. Sound(q)
  BY <1>2, SnapshotParts DEF Sound
<1>4. ASSUME NEW p \in Panels
      PROVE  Told(missed, q, view, timers, p, Known(p), panels[p].status, pushed[p])
  <2> DEFINE m == q[1]
  <2>0. /\ m.op = "snapshot" /\ DOMAIN m.panels = Surfaced
        /\ p \in Surfaced => SnapshotTells(m, p)
    <3>1. m = Snapshot
      BY <1>2
    <3> HIDE DEF m
    <3>2. m.op = "snapshot" /\ DOMAIN m.panels = Surfaced
      BY <3>1, SnapshotParts
    <3> QED
      BY <3>1, <3>2, SnapshotParts
  <2> HIDE DEF m
  <2>1. \A i \in 1..Len(q) : i = 1
    BY <1>2
  <2>2. 1 \in 1..Len(q) /\ q[1] = m /\ Speaks(m, p)
    BY <1>2, <2>0 DEF Speaks, m
  <2>3. StatusTold(q, view, p, panels[p].status)
    <3>1. Says(m, p, panels[p].status)
      BY <2>0 DEF SnapshotTells, Says
    <3> QED
      BY <2>1, <2>2, <3>1 DEF StatusTold
  <2>4. ~Known(p) => GoneTold(q, view, timers, p)
    <3>1. ~Known(p) => ~Shows(m, p)
      BY <2>0 DEF SnapshotTells, Shows
    <3> QED
      BY <2>0, <2>1, <2>2, <3>1 DEF GoneTold
  <2>5. EventsTold(q, view, timers, p, pushed[p])
    <3>1. ASSUME NEW n \in Events, Leaves(m, p, n) PROVE Continues(q, p, 1, n, pushed[p])
      <4>1. n = pushed[p]
        BY <2>0, <3>1 DEF SnapshotTells, Leaves, IsAppend
      <4>2. \A j \in (1 + 1)..Len(q) : FALSE
        BY <1>2
      <4> QED
        BY <4>1, <4>2 DEF Continues
    <3> QED
      BY <2>0, <2>1, <2>2, <3>1 DEF EventsTold, Plain
  <2> QED
    BY <2>3, <2>4, <2>5 DEF Told
<1>5. Shape' /\ ServerSound' /\ ViewSound(view)' /\ Sound(queue)'
  BY <1>1, <1>2, <1>3 DEF q, Inv, Shape, ServerShape, ViewShape, ServerSound, ViewSound, Sound
<1>6. ClientTold'
  BY <1>1, <1>4 DEF q, ClientTold, Known
<1> QED
  BY <1>5, <1>6 DEF Inv

LEMMA AttachInv ==
    ASSUME Inv, Attach PROVE Inv'
<1>1. /\ link = "greeted" /\ link' = "attached" /\ queue' = queue
      /\ panels' = panels /\ aged' = aged /\ pushed' = pushed
      /\ view' = view /\ timers' = timers /\ outages' = outages /\ missed' = missed
  BY DEF Attach, clientVars
<1>2. Shape' /\ ServerSound' /\ ViewSound(view)' /\ Sound(queue)'
  BY <1>1 DEF Inv, Shape, ServerShape, ViewShape, ServerSound, ViewSound, Sound
<1>3. ClientTold'
  BY <1>1 DEF Inv, ClientTold, Known
<1> QED
  BY <1>2, <1>3 DEF Inv

(* Nothing is promised to a client that is not subscribed.                 *)
LEMMA DownInv ==
    ASSUME Inv, outages < MaxOutages,
           link' = "down", queue' = <<>>, outages' = outages + 1, missed' = {},
           UNCHANGED <<panels, aged, pushed>>,
           \/ UNCHANGED clientVars
           \/ view' = <<>> /\ timers' = [p \in Panels |-> 0]
    PROVE  Inv'
<1>1. outages' \in 0..MaxOutages
  BY BoundsAssumption DEF Inv, Shape
<1>2. ViewShape(view') /\ ViewSound(view') /\ timers' \in [Panels -> Nat]
  <2>1. CASE UNCHANGED clientVars
    BY <2>1 DEF Inv, Shape, clientVars
  <2>2. CASE view' = <<>> /\ timers' = [p \in Panels |-> 0]
    <3>1. DOMAIN view' = {} /\ view' \in [{} -> Shown]
      BY <2>2
    <3> QED
      BY <2>2, <3>1 DEF ViewShape, ViewSound
  <2> QED
    BY <2>1, <2>2
<1>3. queue' \in Seq(Deltas) /\ Sound(queue')
  BY DEF Sound
<1>4. Shape'
  BY <1>1, <1>2, <1>3 DEF Inv, Shape, ServerShape, ViewShape
<1>5. ServerSound' /\ ViewSound(view)' /\ Sound(queue)' /\ ClientTold'
  BY <1>2, <1>3 DEF Inv, ServerSound, ViewSound, ClientTold
<1> QED
  BY <1>4, <1>5 DEF Inv

----------------------------------------------------------------------------
(* The client.                                                             *)

(* What it means that message d turns the view v into w, for panel p.      *)
Effect(d, v, w, p) ==
    p \in DOMAIN w =>
      /\ IF Speaks(d, p) THEN \A st : Says(d, p, st) => w[p].status = st
                         ELSE p \in DOMAIN v /\ w[p].status = v[p].status
      /\ Shows(d, p) \/ (p \in DOMAIN v /\ d.op # "snapshot")
      /\ Fits(d, v, p) => Unbroken(w[p].events)
      /\ w[p].events # <<>> =>
           \/ Leaves(d, p, Newest(w[p].events))
           \/ /\ ~IsAppend(d, p) /\ d.op # "snapshot"
              /\ p \in DOMAIN v /\ v[p].events # <<>>
              /\ Newest(w[p].events) = Newest(v[p].events)
Applies(d, v, w) == ViewShape(w) /\ ViewSound(w) /\ \A p \in Panels : Effect(d, v, w, p)

(* A message about one panel that gives it the state X.                    *)
LEMMA OneApplied ==
    ASSUME Inv, NEW d \in Deltas, d.op # "snapshot", NEW X \in Shown, NEW w,
           w = With(view, d.id, X), Len(X.events) <= LiveWindow,
           Effect(d, view, w, d.id)
    PROVE  Applies(d, view, w)
<1>1. d.id \in Panels /\ ViewShape(view) /\ ViewSound(view)
  BY DeltaParts DEF Inv, Shape
<1>2. /\ DOMAIN w = DOMAIN view \cup {d.id}
      /\ \A p \in DOMAIN w : w[p] = IF p = d.id THEN X ELSE view[p]
  BY DEF With
<1>3. ViewShape(w)
  <2>1. w \in [DOMAIN w -> Shown]
    BY <1>1, <1>2 DEF ViewShape, With
  <2> QED
    BY <1>1, <1>2, <2>1 DEF ViewShape
<1>4. ViewSound(w)
  BY <1>1, <1>2 DEF ViewSound
<1>5. ASSUME NEW p \in Panels PROVE Effect(d, view, w, p)
  <2>1. CASE p = d.id
    BY <2>1
  <2>2. CASE p # d.id
    <3>1. ~Speaks(d, p) /\ ~IsAppend(d, p)
      BY <2>2 DEF Speaks, IsAppend
    <3>2. p \in DOMAIN w => p \in DOMAIN view /\ w[p] = view[p]
      BY <1>2, <2>2
    <3>3. p \in DOMAIN w /\ Fits(d, view, p) => Unbroken(w[p].events)
      BY <2>2, <3>2 DEF Fits
    <3> QED
      BY <3>1, <3>2, <3>3 DEF Effect
  <2> QED
    BY <2>1, <2>2
<1> QED
  BY <1>3, <1>4, <1>5 DEF Applies

(* A message about a panel that is not shown.                              *)
LEMMA NoneApplied ==
    ASSUME Inv, NEW d \in Deltas, d.op # "snapshot", d.id \notin DOMAIN view
    PROVE  Applies(d, view, view)
<1>1. ASSUME NEW p \in Panels PROVE Effect(d, view, view, p)
  <2>1. p \in DOMAIN view => ~Speaks(d, p) /\ ~IsAppend(d, p)
    BY DEF Speaks, IsAppend
  <2>2. p \in DOMAIN view /\ Fits(d, view, p) => Unbroken(view[p].events)
    BY DEF Fits
  <2> QED
    BY <2>1, <2>2 DEF Effect
<1> QED
  BY <1>1 DEF Applies, Inv, Shape

LEMMA SeenParts ==
    ASSUME Inv, NEW p \in DOMAIN view
    PROVE  /\ p \in Panels /\ view[p] \in Shown /\ view[p].events \in Seq(Events)
           /\ view[p].status \in Statuses /\ view[p].removing \in BOOLEAN
           /\ Len(view[p].events) <= LiveWindow
           /\ \A X : [view EXCEPT ![p] = X] = With(view, p, X)
  BY DEF Inv, Shape, ViewShape, ViewSound, Shown, With

LEMMA SnapshotApplies ==
    ASSUME Inv, NEW d \in Deltas, d.op = "snapshot", Whole(d)
    PROVE  Applies(d, view, SnapshotApplied(d))
<1> DEFINE w == SnapshotApplied(d)
           f == d.panels
<1>1. DOMAIN f \subseteq Panels /\ f \in [DOMAIN f -> Shown]
  BY DeltaParts
<1>2. \A p \in DOMAIN f : Unbroken(f[p].events)
  BY DEF Whole
<1>3. w = [p \in DOMAIN f |-> [f[p] EXCEPT !.events = LastFew(f[p].events, LiveWindow)]]
  BY DEF SnapshotApplied
<1>4. d.op = "snapshot" /\ f = d.panels
  OBVIOUS
<1> HIDE DEF w, f
<1>5. DOMAIN w = DOMAIN f
  BY <1>3
<1>6. ASSUME NEW p \in DOMAIN f
      PROVE  /\ w[p] \in Shown /\ w[p].status = f[p].status
             /\ Unbroken(w[p].events) /\ Len(w[p].events) <= LiveWindow
             /\ w[p].events # <<>> => f[p].events # <<>> /\ Newest(w[p].events) = Newest(f[p].events)
  <2> DEFINE few == LastFew(f[p].events, LiveWindow)
  <2>1. f[p] \in Shown /\ f[p].events \in Seq(Events) /\ Unbroken(f[p].events)
    BY <1>1, <1>2 DEF Shown
  <2>2. /\ few \in Seq(Events) /\ Unbroken(few) /\ Len(few) <= LiveWindow
        /\ few # <<>> => f[p].events # <<>> /\ Newest(few) = Newest(f[p].events)
    BY <2>1, LastFewFacts, CapsAssumption
  <2>3. w[p] = [f[p] EXCEPT !.events = few]
    BY <1>3
  <2> HIDE DEF few
  <2>4. w[p] \in Shown /\ w[p].events = few /\ w[p].status = f[p].status
    BY <2>1, <2>2, <2>3 DEF Shown
  <2> QED
    BY <2>2, <2>4
<1>7. ViewShape(w) /\ ViewSound(w)
  <2>1. w \in [DOMAIN w -> Shown]
    BY <1>3, <1>5, <1>6
  <2> QED
    BY <1>1, <1>5, <1>6, <2>1 DEF ViewShape, ViewSound
<1>8. ASSUME NEW p \in Panels PROVE Effect(d, view, w, p)
  <2>1. CASE p \in DOMAIN w
    <3>1. Speaks(d, p) /\ Shows(d, p)
      BY <1>4, <1>5, <2>1 DEF Speaks, Shows
    <3>2. \A st : Says(d, p, st) => w[p].status = st
      BY <1>4, <1>5, <1>6, <2>1 DEF Says
    <3>3. w[p].events # <<>> => Leaves(d, p, Newest(w[p].events))
      BY <1>4, <1>5, <1>6, <2>1 DEF Leaves
    <3>4. Unbroken(w[p].events)
      BY <1>5, <1>6, <2>1
    <3> QED
      BY <3>1, <3>2, <3>3, <3>4 DEF Effect
  <2> QED
    BY <2>1 DEF Effect
<1> QED
  BY <1>7, <1>8 DEF Applies, w

LEMMA UpsertApplies ==
    ASSUME Inv, NEW d \in Deltas, d.op = "panel_upsert"
    PROVE  Applies(d, view, UpsertApplied(d))
<1> DEFINE s == IF Seen(d.id) THEN LastFew(view[d.id].events, LiveWindow) ELSE <<>>
           X == [status |-> d.status, removing |-> FALSE, events |-> s]
           w == UpsertApplied(d)
<1>1. /\ s \in Seq(Events) /\ Len(s) <= LiveWindow
      /\ d.id \in DOMAIN view /\ Unbroken(view[d.id].events) => Unbroken(s)
      /\ d.id \notin DOMAIN view => Unbroken(s)
      /\ s # <<>> => /\ d.id \in DOMAIN view /\ view[d.id].events # <<>>
                    /\ Newest(s) = Newest(view[d.id].events)
  <2>1. CASE Seen(d.id)
    BY <2>1, SeenParts, LastFewFacts, CapsAssumption DEF Seen
  <2>2. CASE ~Seen(d.id)
    BY <2>2, CapsAssumption DEF Unbroken, Seen
  <2> QED
    BY <2>1, <2>2
<1>2. d.id \in Panels /\ d.status \in Statuses
  BY DeltaParts
<1>3. w = With(view, d.id, X)
  BY DEF UpsertApplied
<1> HIDE DEF s
<1>4. X \in Shown /\ X.events = s /\ X.status = d.status
  BY <1>1, <1>2 DEF Shown
<1> HIDE DEF X, w
<1>5. d.id \in DOMAIN w /\ w[d.id] = X
  BY <1>3 DEF With
<1>7. Fits(d, view, d.id) => Unbroken(w[d.id].events)
  BY <1>1, <1>4, <1>5 DEF Fits
<1>6. Effect(d, view, w, d.id)
  BY <1>1, <1>4, <1>5, <1>7 DEF Effect, Speaks, Says, Shows, IsAppend
<1> QED
  BY <1>1, <1>3, <1>4, <1>6, OneApplied DEF w

LEMMA ReseedApplies ==
    ASSUME Inv, NEW d \in Deltas, d.op = "reseed", Whole(d)
    PROVE  Applies(d, view, ReseedApplied(d))
<1> DEFINE s == LastFew(d.events, LiveWindow)
           X == [status |-> d.status, removing |-> FALSE, events |-> s]
           w == ReseedApplied(d)
<1>1. d.id \in Panels /\ d.status \in Statuses /\ d.events \in Seq(Events) /\ Unbroken(d.events)
  BY DeltaParts DEF Whole
<1>2. /\ s \in Seq(Events) /\ Unbroken(s) /\ Len(s) <= LiveWindow
      /\ s # <<>> => d.events # <<>> /\ Newest(s) = Newest(d.events)
  BY <1>1, LastFewFacts, CapsAssumption
<1>3. w = With(view, d.id, X)
  BY DEF ReseedApplied
<1> HIDE DEF s
<1>4. X \in Shown /\ X.events = s /\ X.status = d.status
  BY <1>1, <1>2 DEF Shown
<1> HIDE DEF X, w
<1>5. d.id \in DOMAIN w /\ w[d.id] = X
  BY <1>3 DEF With
<1>6. Effect(d, view, w, d.id)
  BY <1>2, <1>4, <1>5 DEF Effect, Speaks, Says, Shows, Leaves
<1> QED
  BY <1>2, <1>3, <1>4, <1>6, OneApplied DEF w

LEMMA StatusApplies ==
    ASSUME Inv, NEW d \in Deltas, d.op = "panel_status"
    PROVE  Applies(d, view, StatusApplied(d))
<1>1. CASE ~Seen(d.id)
  BY <1>1, NoneApplied DEF StatusApplied, Seen
<1>2. CASE Seen(d.id)
  <2> DEFINE X == [view[d.id] EXCEPT !.status = d.status]
             w == StatusApplied(d)
  <2>1. d.status \in Statuses /\ d.id \in DOMAIN view
    BY <1>2, DeltaParts DEF Seen
  <2>2. X \in Shown /\ X.events = view[d.id].events /\ X.status = d.status
    BY <2>1, SeenParts DEF Shown
  <2>3. w = [view EXCEPT ![d.id] = X]
    BY <1>2 DEF StatusApplied
  <2> HIDE DEF X, w
  <2>4. w = With(view, d.id, X)
    BY <2>1, <2>3, SeenParts
  <2>5. d.id \in DOMAIN w /\ w[d.id] = X
    BY <2>4 DEF With
  <2>7. Fits(d, view, d.id) => Unbroken(w[d.id].events)
    BY <2>1, <2>2, <2>5 DEF Fits
  <2>6. Effect(d, view, w, d.id)
    BY <2>1, <2>2, <2>5, <2>7 DEF Effect, Speaks, Says, Shows, IsAppend
  <2> QED
    BY <2>1, <2>2, <2>4, <2>6, SeenParts, OneApplied DEF w
<1> QED
  BY <1>1, <1>2

LEMMA AppendApplies ==
    ASSUME Inv, NEW d \in Deltas, d.op = "event_append"
    PROVE  Applies(d, view, IF Seen(d.id)
                              THEN [view EXCEPT ![d.id].events = AppendCapped(@, d.event)] ELSE view)
<1>1. CASE ~Seen(d.id)
  BY <1>1, NoneApplied DEF Seen
<1>2. CASE Seen(d.id)
  <2> DEFINE s == AppendCapped(view[d.id].events, d.event)
             X == [view[d.id] EXCEPT !.events = s]
             w == [view EXCEPT ![d.id].events = AppendCapped(@, d.event)]
  <2>1. d.event \in Events /\ d.id \in DOMAIN view
    BY <1>2, DeltaParts DEF Seen
  <2>2. /\ s \in Seq(Events) /\ s # <<>> /\ Len(s) <= LiveWindow /\ Newest(s) = d.event
        /\ /\ Unbroken(view[d.id].events)
           /\ view[d.id].events # <<>> => d.event = Newest(view[d.id].events) + 1
           => Unbroken(s)
    BY <2>1, SeenParts, AppendCappedFacts
  <2>3. w = [view EXCEPT ![d.id] = X]
    OBVIOUS
  <2> HIDE DEF s
  <2>4. X \in Shown /\ X.events = s /\ X.status = view[d.id].status
    BY <2>1, <2>2, SeenParts DEF Shown
  <2> HIDE DEF X, w
  <2>5. w = With(view, d.id, X)
    BY <2>1, <2>3, SeenParts
  <2>6. d.id \in DOMAIN w /\ w[d.id] = X
    BY <2>5 DEF With
  <2>9. Fits(d, view, d.id) => Unbroken(w[d.id].events)
    BY <2>1, <2>2, <2>4, <2>6 DEF Fits, IsAppend
  <2>7. Effect(d, view, w, d.id)
    BY <2>1, <2>2, <2>4, <2>6, <2>9 DEF Effect, Speaks, Says, Shows, Leaves, IsAppend
  <2>8. Applies(d, view, w)
    BY <2>2, <2>4, <2>5, <2>7, OneApplied
  <2> QED
    BY <1>2, <2>8 DEF w
<1> QED
  BY <1>1, <1>2

LEMMA RemoveApplies ==
    ASSUME Inv, NEW d \in Deltas, d.op = "panel_remove"
    PROVE  Applies(d, view, IF Seen(d.id) THEN [view EXCEPT ![d.id].removing = TRUE] ELSE view)
<1>1. CASE ~Seen(d.id)
  BY <1>1, NoneApplied DEF Seen
<1>2. CASE Seen(d.id)
  <2> DEFINE X == [view[d.id] EXCEPT !.removing = TRUE]
             w == [view EXCEPT ![d.id].removing = TRUE]
  <2>1. d.id \in DOMAIN view
    BY <1>2 DEF Seen
  <2>2. X \in Shown /\ X.events = view[d.id].events /\ X.status = view[d.id].status
    BY <2>1, SeenParts DEF Shown
  <2>3. w = [view EXCEPT ![d.id] = X]
    OBVIOUS
  <2> HIDE DEF X, w
  <2>4. w = With(view, d.id, X)
    BY <2>1, <2>3, SeenParts
  <2>5. d.id \in DOMAIN w /\ w[d.id] = X
    BY <2>4 DEF With
  <2>8. Fits(d, view, d.id) => Unbroken(w[d.id].events)
    BY <2>1, <2>2, <2>5 DEF Fits
  <2>6. Effect(d, view, w, d.id)
    BY <2>1, <2>2, <2>5, <2>8 DEF Effect, Speaks, Says, Shows, IsAppend
  <2>7. Applies(d, view, w)
    BY <2>1, <2>2, <2>4, <2>6, SeenParts, OneApplied
  <2> QED
    BY <1>2, <2>7 DEF w
<1> QED
  BY <1>1, <1>2

LEMMA DeliverApplies ==
    ASSUME Inv, queue # <<>>
    PROVE  Applies(Head(queue), view, Reduced(Head(queue)))
<1> DEFINE d == Head(queue)
<1>1. d \in Deltas /\ Whole(d)
  <2>1. d \in Deltas /\ d = queue[1] /\ 1 \in 1..Len(queue)
    BY TailFacts DEF Inv, Shape
  <2> QED
    BY <2>1 DEF Inv, Sound
<1>2. d.op \in {"snapshot", "panel_upsert", "panel_status", "reseed", "panel_remove", "event_append"}
  BY <1>1, DeltaParts
<1> HIDE DEF d
<1>4. CASE d.op = "snapshot"
  BY <1>1, <1>4, SnapshotApplies DEF Reduced, d
<1>5. CASE d.op = "panel_upsert"
  BY <1>1, <1>5, UpsertApplies DEF Reduced, d
<1>6. CASE d.op = "reseed"
  BY <1>1, <1>6, ReseedApplies DEF Reduced, d
<1>7. CASE d.op = "panel_status"
  BY <1>1, <1>7, StatusApplies DEF Reduced, d
<1>8. CASE d.op = "event_append"
  BY <1>1, <1>8, AppendApplies DEF Reduced, d
<1>9. CASE d.op = "panel_remove"
  BY <1>1, <1>9, RemoveApplies DEF Reduced, d
<1> QED
  BY <1>2, <1>4, <1>5, <1>6, <1>7, <1>8, <1>9

LEMMA DeliverInv ==
    ASSUME Inv, Deliver PROVE Inv'
<1> DEFINE d == Head(queue)
           q == Tail(queue)
           w == Reduced(d)
<1>1. /\ queue # <<>> /\ queue' = q /\ view' = w
      /\ timers' = IF d.op = "panel_remove" THEN [timers EXCEPT ![d.id] = @ + 1] ELSE timers
      /\ panels' = panels /\ aged' = aged /\ pushed' = pushed
      /\ link' = link /\ outages' = outages /\ missed' = missed
  BY DEF Deliver
<1>2. Applies(d, view, w) /\ queue \in Seq(Deltas) /\ Sound(queue)
  BY <1>1, DeliverApplies DEF Inv, Shape
<1>3. d \in Deltas /\ q \in Seq(Deltas) /\ Sound(q) /\ Len(queue) \in Nat \ {0}
  BY <1>1, <1>2, TailFacts, SoundDeliver
<1>4. link # "down"
  BY <1>1 DEF Inv, ClientTold
<1> HIDE DEF w
<1>5. /\ timers \in [Panels -> Nat] /\ timers' \in [Panels -> Nat]
      /\ \A p \in Panels : timers[p] > 0 \/ IsRemove(d, p) => timers'[p] > 0
  <2>1. timers \in [Panels -> Nat]
    BY DEF Inv, Shape
  <2>2. CASE d.op = "panel_remove"
    <3> HIDE DEF d
    <3>1. d.id \in Panels
      BY <1>3, <2>2, DeltaParts
    <3> QED
      BY <1>1, <2>1, <2>2, <3>1 DEF IsRemove
  <2>3. CASE d.op # "panel_remove"
    BY <1>1, <2>1, <2>3 DEF IsRemove
  <2> QED
    BY <2>1, <2>2, <2>3
<1>6. ASSUME NEW p \in Panels
      PROVE  Told(missed, q, w, timers', p, Known(p), panels[p].status, pushed[p])
  <2>1. Told(missed, queue, view, timers, p, Known(p), panels[p].status, pushed[p])
    BY <1>4 DEF Inv, ClientTold
  <2>2. Effect(d, view, w, p) /\ (p \in DOMAIN w => w[p].events \in Seq(Events))
    BY <1>2 DEF Applies, ViewShape, Shown
  <2>3. Known(p) /\ <<p, "status">> \notin missed => StatusTold(q, w, p, panels[p].status)
    <3>1. ASSUME p \in DOMAIN w, Known(p)
          PROVE  IF Speaks(d, p) THEN Says(d, p, panels[p].status) => w[p].status = panels[p].status
                 ELSE p \in DOMAIN view /\ w[p].status = view[p].status
      BY <2>2, <3>1 DEF Effect
    <3> QED
      BY <1>1, <1>2, <2>1, <3>1, StatusDeliver DEF Told
  <2>4. ~Known(p) /\ <<p, "removal">> \notin missed => GoneTold(q, w, timers', p)
    <3>1. p \in DOMAIN w => Shows(d, p) \/ (p \in DOMAIN view /\ d.op # "snapshot")
      BY <2>2 DEF Effect
    <3> QED
      BY <1>1, <1>2, <1>5, <2>1, <3>1, GoneDeliver DEF Told
  <2>5. ASSUME <<p, "event">> \notin missed, <<p, "removal">> \notin missed
        PROVE  EventsTold(q, w, timers', p, pushed[p])
    <3>1. p \in DOMAIN w /\ w[p].events # <<>> =>
            \/ Leaves(d, p, Newest(w[p].events))
            \/ /\ ~IsAppend(d, p) /\ d.op # "snapshot"
               /\ p \in DOMAIN view /\ view[p].events # <<>>
               /\ Newest(w[p].events) = Newest(view[p].events)
      BY <2>2 DEF Effect
    <3>2. p \in DOMAIN w /\ Fits(d, view, p) => Unbroken(w[p].events)
      BY <2>2 DEF Effect
    <3>3. timers'[p] = 0 => timers[p] = 0 /\ ~IsRemove(d, p)
      BY <1>5
    <3>4. EventsTold(queue, view, timers, p, pushed[p])
      BY <2>1, <2>5 DEF Told
    <3> QED
      BY <1>1, <1>2, <2>2, <3>1, <3>2, <3>3, <3>4, EventsDeliver
  <2> QED
    BY <2>3, <2>4, <2>5 DEF Told
<1>7. Shape'
  BY <1>1, <1>2, <1>3, <1>5 DEF Inv, Shape, ServerShape, ViewShape, Applies
<1>8. ServerSound' /\ ViewSound(view)' /\ Sound(queue)'
  BY <1>1, <1>2, <1>3 DEF Inv, ServerSound, ViewSound, Applies, Sound
<1>9. ClientTold'
  BY <1>1, <1>4, <1>6 DEF ClientTold, Known
<1> QED
  BY <1>7, <1>8, <1>9 DEF Inv

(* The timeout takes the panel away: nothing was promised of it that still *)
(* holds of a panel that is not shown.                                     *)
LEMMA CommitRemoveInv ==
    ASSUME Inv, NEW p \in Panels, CommitRemove(p) PROVE Inv'
<1> DEFINE w == Without(view, p)
<1>1. /\ timers[p] > 0 /\ timers' = [timers EXCEPT ![p] = @ - 1] /\ view' = w
      /\ panels' = panels /\ aged' = aged /\ pushed' = pushed
      /\ link' = link /\ queue' = queue /\ outages' = outages /\ missed' = missed
  BY DEF CommitRemove
<1>2. DOMAIN w = DOMAIN view \ {p} /\ \A o \in DOMAIN w : w[o] = view[o]
  BY DEF Without
<1>3. ViewShape(w) /\ ViewSound(w)
  <2>1. w \in [DOMAIN w -> Shown]
    BY <1>2 DEF Inv, Shape, ViewShape, Without
  <2> QED
    BY <1>2, <2>1 DEF Inv, Shape, ViewShape, ViewSound
<1> HIDE DEF w
<1>4. timers' \in [Panels -> Nat] /\ \A o \in Panels \ {p} : timers'[o] = timers[o]
  BY <1>1 DEF Inv, Shape
<1>5. ASSUME link # "down", NEW o \in Panels
      PROVE  Told(missed, queue, w, timers', o, Known(o), panels[o].status, pushed[o])
  <2>1. Told(missed, queue, view, timers, o, Known(o), panels[o].status, pushed[o])
    BY <1>5 DEF Inv, ClientTold
  <2>2. o \in DOMAIN w => o \in DOMAIN view /\ w[o] = view[o] /\ timers'[o] = timers[o]
    BY <1>2, <1>4
  <2>3. Known(o) /\ <<o, "status">> \notin missed => StatusTold(queue, w, o, panels[o].status)
    BY <2>1, <2>2 DEF Told, StatusTold
  <2>4. ~Known(o) /\ <<o, "removal">> \notin missed => GoneTold(queue, w, timers', o)
    BY <2>1, <2>2 DEF Told, GoneTold
  <2>5. <<o, "event">> \notin missed /\ <<o, "removal">> \notin missed =>
          EventsTold(queue, w, timers', o, pushed[o])
    BY <2>1, <2>2 DEF Told, EventsTold
  <2> QED
    BY <2>3, <2>4, <2>5 DEF Told
<1>6. Shape' /\ ServerSound' /\ ViewSound(view)' /\ Sound(queue)'
  BY <1>1, <1>3, <1>4 DEF Inv, Shape, ServerShape, ViewShape, ServerSound, ViewSound, Sound
<1>7. ClientTold'
  BY <1>1, <1>5 DEF Inv, ClientTold, Known
<1> QED
  BY <1>6, <1>7 DEF Inv

----------------------------------------------------------------------------
(* The invariant holds.                                                    *)

LEMMA InitInv == Init => Inv
<1> SUFFICES ASSUME Init PROVE Inv
  OBVIOUS
<1>1. DOMAIN panels = {} /\ panels \in [{} -> Served] /\ DOMAIN view = {} /\ view \in [{} -> Shown]
  BY DEF Init
<1>2. Shape
  BY <1>1, BoundsAssumption DEF Init, Shape, ServerShape, ViewShape
<1>3. ServerSound /\ ViewSound(view) /\ Sound(queue) /\ ClientTold
  BY <1>1 DEF Init, ServerSound, ViewSound, Sound, ClientTold
<1> QED
  BY <1>2, <1>3 DEF Inv

LEMMA NextInv ==
    ASSUME Inv, [Next]_vars PROVE Inv'
<1>1. CASE ServerStep
  <2>1. PICK p \in Panels :
          \/ \E born, status \in Statuses, refreshed \in {"no", "early", "late"} :
                Ingest(p, born, refreshed, status)
          \/ Refresh(p) \/ AutoTitle(p) \/ TickDemotes(p) \/ TickReaps(p)
          \/ \E status \in Statuses : ForceStatus(p, status)
          \/ Bin(p) \/ Unbin(p) \/ Purge(p) \/ Rebuild(p) \/ AgeOut(p)
    BY <1>1 DEF ServerStep
  <2>2. CASE \E born, status \in Statuses, refreshed \in {"no", "early", "late"} :
               Ingest(p, born, refreshed, status)
    BY <2>2, IngestInv
  <2>3. CASE Refresh(p) \/ AutoTitle(p) \/ TickDemotes(p)
    BY <2>3, RefreshInv, AutoTitleInv, TickDemotesInv
  <2>4. CASE TickReaps(p) \/ Purge(p) \/ Rebuild(p)
    <3>1. pushed \in [Panels -> 0..MaxPushed] /\ 0 \in 0..MaxPushed
      BY BoundsAssumption DEF Inv, Shape, ServerShape
    <3>2. Forget(p)
      BY <2>4 DEF TickReaps, Purge, Rebuild
    <3>3. pushed' = pushed \/ pushed' = [pushed EXCEPT ![p] = 0]
      BY <2>4 DEF TickReaps, Purge, Rebuild
    <3>4. pushed' \in [Panels -> 0..MaxPushed] /\ \A o \in Panels \ {p} : pushed'[o] = pushed[o]
      BY <3>1, <3>3
    <3> QED
      BY <3>2, <3>4, ForgetInv
  <2>5. CASE \E status \in Statuses : ForceStatus(p, status)
    BY <2>5, ForceStatusInv
  <2>6. CASE Bin(p) \/ Unbin(p) \/ AgeOut(p)
    BY <2>6, BinInv, UnbinInv, AgeOutInv
  <2> QED
    BY <2>1, <2>2, <2>3, <2>4, <2>5, <2>6
<1>2. CASE Subscribe \/ Attach
  BY <1>2, SubscribeInv, AttachInv
<1>3. CASE Disconnect \/ Reload
  BY <1>3, DownInv DEF Disconnect, Reload
<1>4. CASE Deliver
  BY <1>4, DeliverInv
<1>5. CASE \E p \in Panels : CommitRemove(p)
  BY <1>5, CommitRemoveInv
<1>6. CASE UNCHANGED vars
  <2>1. Shape' /\ ServerSound' /\ ViewSound(view)' /\ Sound(queue)'
    BY <1>6 DEF vars, Inv, Shape, ServerShape, ViewShape, ServerSound, ViewSound, Sound
  <2>2. ClientTold'
    BY <1>6 DEF vars, Inv, ClientTold, Known
  <2> QED
    BY <2>1, <2>2 DEF Inv
<1> QED
  BY <1>1, <1>2, <1>3, <1>4, <1>5, <1>6 DEF Next

(* Every reachable state satisfies the invariant: what is under way makes  *)
(* of the client's view what the server's panels are.                      *)
THEOREM StreamInvariant == Spec => []Inv
<1>1. Inv /\ [Next]_vars => Inv'
  BY NextInv
<1> QED
  BY <1>1, InitInv, PTL DEF Spec

----------------------------------------------------------------------------
(* What it gives.                                                          *)

(* Every variable has its type, and no list of events a client shows       *)
(* outgrows the reducer's live window.                                     *)
THEOREM TypeCorrect == Spec => []TypeOK
<1>1. Inv => TypeOK
  <2> SUFFICES ASSUME Inv PROVE TypeOK
    OBVIOUS
  <2>1. \A p \in DOMAIN panels :
          panels[p] \in [status : Statuses, binned : BOOLEAN, events : Seq(1..MaxPushed)]
    BY DEF Inv, Shape, ServerShape, Served, Events
  <2>2. \A p \in DOMAIN view :
          /\ view[p] \in [status : Statuses, events : Seq(1..MaxPushed), removing : BOOLEAN]
          /\ Len(view[p].events) <= LiveWindow
    BY DEF Inv, Shape, ViewShape, ViewSound, Shown, Events
  <2> QED
    BY <2>1, <2>2 DEF Inv, Shape, ServerShape, ViewShape, TypeOK, Losses
<1> QED
  BY <1>1, StreamInvariant, PTL

(* A client with nothing left to be told (attached, nothing under way)     *)
(* shows each panel with the server's status, and once the removal timeouts*)
(* are over no panel the server has forgotten, except where a status or a  *)
(* removal was fired after its snapshot and before its listener.           *)
THEOREM StaysInStep == Spec => []ViewInStep
<1>1. Inv => ViewInStep
  <2> SUFFICES ASSUME Inv, CaughtUp
               PROVE  /\ \A p \in DOMAIN view \cap DOMAIN panels :
                           ~StatusMissed(p) => view[p].status = panels[p].status
                      /\ (\A p \in Panels : timers[p] = 0) =>
                           \A p \in DOMAIN view \ DOMAIN panels : RemovalMissed(p)
    BY DEF ViewInStep, Still
  <2>1. \A p \in DOMAIN view :
          /\ p \in Panels
          /\ Told(missed, queue, view, timers, p, Known(p), panels[p].status, pushed[p])
    BY DEF Inv, Shape, ViewShape, ClientTold, CaughtUp
  <2>2. \A i \in 1..Len(queue) : FALSE
    BY DEF CaughtUp
  <2>3. ASSUME NEW p \in DOMAIN view \cap DOMAIN panels, ~StatusMissed(p)
        PROVE  view[p].status = panels[p].status
    BY <2>1, <2>2, <2>3 DEF Told, StatusTold, Known, StatusMissed
  <2>4. ASSUME \A p \in Panels : timers[p] = 0, NEW p \in DOMAIN view \ DOMAIN panels
        PROVE  RemovalMissed(p)
    <3>1. ~Known(p) /\ ~RemovalMissed(p) => timers[p] > 0
      BY <2>1, <2>2 DEF Told, GoneTold, RemovalMissed
    <3> QED
      BY <2>1, <2>4, <3>1 DEF Known
  <2> QED
    BY <2>3, <2>4
<1> QED
  BY <1>1, StreamInvariant, PTL

(* What a client shows of a transcript fits its window; and unless an      *)
(* event or a removal was fired after its snapshot and before its listener,*)
(* or the panel is on its way out, it has no hole and no repetition and    *)
(* ends where the server's copy ends once nothing is left to tell: caps,   *)
(* docks, reseeds, rebuilds and reconnections only cut it at the front.    *)
THEOREM TailOfHistory == Spec => []HistoryIsATail
<1>1. Inv => HistoryIsATail
  <2> SUFFICES ASSUME Inv, NEW p \in DOMAIN view
               PROVE  /\ Len(view[p].events) <= LiveWindow
                      /\ Greeted /\ ~Leaving(p) /\ ~EventMissed(p) /\ ~RemovalMissed(p) =>
                           /\ \A i \in 1..(Len(view[p].events) - 1) :
                                view[p].events[i + 1] = view[p].events[i] + 1
                           /\ CaughtUp /\ p \in DOMAIN panels /\ view[p].events # <<>> =>
                                view[p].events[Len(view[p].events)]
                                  = panels[p].events[Len(panels[p].events)]
    BY DEF HistoryIsATail
  <2>1. Len(view[p].events) <= LiveWindow /\ p \in Panels /\ queue \in Seq(Deltas)
    BY DEF Inv, Shape, ViewShape, ViewSound
  <2>2. ASSUME Greeted, ~Leaving(p), ~EventMissed(p), ~RemovalMissed(p)
        PROVE  /\ Unbroken(view[p].events)
               /\ CaughtUp /\ p \in DOMAIN panels /\ view[p].events # <<>> =>
                    Newest(view[p].events) = Newest(panels[p].events)
    <3>1. EventsTold(queue, view, timers, p, pushed[p])
      BY <2>1, <2>2 DEF Inv, ClientTold, Greeted, Told, EventMissed, RemovalMissed
    <3>2. Plain(queue) /\ timers[p] = 0
      BY <2>1, <2>2 DEF Inv, Shape, Greeted, Plain, Leaving
    <3>3. Stays(queue, p, 0)
      <4>1. \A j \in (0 + 1)..Len(queue) : j \in 1..Len(queue) /\ queue[j] \in Deltas
        BY <2>1, ElementOfSeq
      <4>2. \A m \in Deltas : IsRemove(m, p) => m = Remove(p)
        BY DEF Deltas, IsRemove, Remove
      <4> QED
        BY <2>2, <4>1, <4>2 DEF Stays, Leaving
    <3>4. /\ Unbroken(view[p].events)
          /\ view[p].events # <<>> => Continues(queue, p, 0, Newest(view[p].events), pushed[p])
      BY <3>1, <3>2, <3>3 DEF EventsTold
    <3>5. ASSUME CaughtUp, p \in DOMAIN panels, view[p].events # <<>>
          PROVE  Newest(view[p].events) = Newest(panels[p].events)
      <4>1. \A i \in 1..Len(queue) : FALSE
        BY <3>5 DEF CaughtUp
      <4>2. Newest(view[p].events) = pushed[p]
        BY <3>4, <3>5, <4>1 DEF Continues
      <4>3. Newest(panels[p].events) = pushed[p]
        BY <3>5 DEF Inv, ServerSound
      <4> QED
        BY <4>2, <4>3
    <3> QED
      BY <3>4, <3>5
  <2> QED
    BY <2>1, <2>2 DEF Unbroken, Newest
<1> QED
  BY <1>1, StreamInvariant, PTL
=============================================================================
