------------------------ MODULE PanelLifecycleProofs ------------------------
(***************************************************************************)
(* Proofs, for every set of sessions, subagents and records and for every  *)
(* choice of timings, of the invariants and action properties of           *)
(* PanelLifecycle.                                                         *)
(***************************************************************************)
EXTENDS PanelLifecycle, SequenceTheorems, TLAPS

USE DEF PanelIds

(* What is always true of one panel, and of one row, at time t.            *)
Good(P, t) ==
    /\ P \in Panel
    /\ Len(P.events) <= EventsCap
    /\ P.last_event_at <= t
    /\ \/ P.status_changed_at <= t
       \/ P.status_changed_at <= P.last_event_at + IdleSeconds
    /\ P.start_minimized /\ P.ended = "no" => Untouched(P)

GoodRow(R, t) ==
    /\ R \in Row
    /\ R.last_event_at <= t
    /\ \/ R.status_changed_at <= t
       \/ R.status_changed_at <= R.last_event_at + IdleSeconds

LEMMA IdleType == IdleSeconds \in Nat \ {0} /\ MiniSeconds \in Nat \ {0}
BY TimingsAssumption

----------------------------------------------------------------------------
(* Each transition of one panel keeps it good.                             *)

LEMMA RowOfGood ==
    ASSUME NEW P, Good(P, now)
    PROVE  GoodRow(PanelToRow(P), now)
BY DEF Good, GoodRow, PanelToRow, Panel, Row

LEMMA PanelOfGoodRow ==
    ASSUME NEW R, GoodRow(R, now)
    PROVE  Good(PanelRowToPanel(R), now)
BY CapAssumption DEF Good, GoodRow, PanelRowToPanel, Panel, Row, Untouched

LEMMA ForcedGood ==
    ASSUME NEW P, Good(P, now), now \in Nat, NEW status \in Statuses
    PROVE  /\ Good(Forced(P, status), now)
           /\ Forced(P, status).ended = P.ended
           /\ Forced(P, status).last_event_at >= P.last_event_at
<1>1. CASE P.status = status
  BY <1>1 DEF Good, Forced, Panel
<1>2. CASE P.status # status
  <2> DEFINE Q == [P EXCEPT !.status = status, !.status_changed_at = now,
                            !.last_event_at = IF status = "live" THEN now ELSE @]
  <2>1. Forced(P, status) = Q
    BY <1>2 DEF Forced
  <2>2. /\ Q \in Panel
        /\ Q.ended = P.ended /\ Q.events = P.events
        /\ Q.start_minimized = P.start_minimized
        /\ Q.status_changed_at = now
        /\ Q.last_event_at \in {now, P.last_event_at}
    BY DEF Good, Panel
  <2>3. P.last_event_at \in Nat
    BY DEF Good, Panel
  <2> HIDE DEF Q
  <2> QED
    BY <2>1, <2>2, <2>3 DEF Good, Untouched
<1> QED
  BY <1>1, <1>2

LEMMA EndedGood ==
    ASSUME NEW P, Good(P, now), NEW provenance \in Provenances
    PROVE  /\ Good(Ended(P, provenance), now)
           /\ Ended(P, provenance).ended # "no"
           /\ Ended(P, provenance).last_event_at = P.last_event_at
BY DEF Good, Ended, Panel, Untouched, Provenances
LEMMA EventTsType ==
    ASSUME now \in Nat, NEW r \in Records
    PROVE  EventTs(r) \in Nat /\ EventTs(r) <= now
BY RecordsAssumption DEF EventTs, Earlier

LEMMA BumpedGood ==
    ASSUME NEW P, Good(P, now), NEW ts \in Nat, ts <= now, now \in Nat
    PROVE  /\ Good(Bumped(P, ts), now)
           /\ Bumped(P, ts).ended = P.ended
           /\ Bumped(P, ts).last_event_at >= P.last_event_at
<1>1. P.last_event_at \in Nat /\ P.status_changed_at \in Nat
  BY DEF Good, Panel
<1>2. /\ Bumped(P, ts) \in Panel
      /\ Bumped(P, ts).status_changed_at = P.status_changed_at
      /\ Bumped(P, ts).ended = P.ended /\ Bumped(P, ts).events = P.events
      /\ Bumped(P, ts).start_minimized = P.start_minimized
      /\ Bumped(P, ts).last_event_at = Later(P.last_event_at, ts)
  BY <1>1 DEF Good, Bumped, Later, Panel
<1>3. Later(P.last_event_at, ts) \in P.last_event_at..now
  BY <1>1 DEF Good, Later
<1> QED
  BY <1>1, <1>2, <1>3, IdleType DEF Good, Untouched

(* A list that grows holds the record and what it held, and stays capped.  *)
LEMMA AppendedProperties ==
    ASSUME NEW events \in Seq(Records), Len(events) <= EventsCap, NEW r \in Records
    PROVE  /\ Appended(events, r) \in Seq(Records)
           /\ Len(Appended(events, r)) <= EventsCap
           /\ \A i \in 1..Len(Appended(events, r)) :
                \/ Appended(events, r)[i] = r
                \/ \E j \in 1..Len(events) : Appended(events, r)[i] = events[j]
<1> DEFINE grown == Append(events, r)
           kept == SubSeq(grown, Evict + 1, Len(grown))
<1>1. /\ grown \in Seq(Records) /\ Len(grown) = Len(events) + 1
      /\ \A i \in 1..Len(events) : grown[i] = events[i]
      /\ grown[Len(events) + 1] = r
  BY AppendProperties
<1>2. \A i \in 1..Len(grown) : grown[i] = r \/ \E j \in 1..Len(events) : grown[i] = events[j]
  BY <1>1
<1>3. Evict \in Nat /\ Evict >= 1 /\ EventsCap \in Nat
  BY CapAssumption
<1>4. \A i \in (Evict + 1)..Len(grown) : grown[i] \in Records
  BY <1>1, <1>3
<1> HIDE DEF grown
<1>5. /\ kept \in Seq(Records)
      /\ Len(kept) = IF Evict + 1 <= Len(grown) THEN Len(grown) - (Evict + 1) + 1 ELSE 0
      /\ \A i \in 1..(Len(grown) - (Evict + 1) + 1) : kept[i] = grown[Evict + 1 + i - 1]
  <2>1. Evict + 1 \in Int /\ Len(grown) \in Int
    BY <1>1, <1>3
  <2> QED
    BY <1>4, <2>1, SubSeqProperties
<1>6. CASE Len(grown) > EventsCap
  <2>1. Appended(events, r) = kept
    BY <1>6 DEF Appended, grown
  <2>2. Len(kept) <= EventsCap
    BY <1>1, <1>3, <1>5
  <2>3. ASSUME NEW i \in 1..Len(kept)
        PROVE  kept[i] = grown[Evict + i] /\ Evict + i \in 1..Len(grown)
    BY <1>1, <1>3, <1>5
  <2> HIDE DEF kept
  <2> QED
    BY <1>2, <1>5, <2>1, <2>2, <2>3
<1>7. CASE ~(Len(grown) > EventsCap)
  <2>1. Appended(events, r) = grown
    BY <1>7 DEF Appended, grown
  <2> QED
    BY <1>1, <1>2, <1>3, <1>7, <2>1
<1> QED
  BY <1>6, <1>7
(* A panel that has just listed a record: as good as before, except that   *)
(* real input may sit on a docked panel until Stirred clears the flag.     *)
LEMMA ListedProperties ==
    ASSUME NEW P, Good(P, now), now \in Nat, NEW r \in Records
    PROVE  /\ Listed(P, r) \in Panel
           /\ Len(Listed(P, r).events) <= EventsCap
           /\ Listed(P, r).last_event_at \in P.last_event_at..now
           /\ Listed(P, r).status = P.status
           /\ Listed(P, r).status_changed_at = P.status_changed_at
           /\ Listed(P, r).start_minimized = P.start_minimized
           /\ Listed(P, r).events = Appended(P.events, r)
           /\ Listed(P, r).ended = IF SelfHeals(P, r, EventTs(r)) THEN "no" ELSE P.ended
           /\ SelfHeals(P, r, EventTs(r)) => Listed(P, r).last_event_at > P.last_event_at
<1> DEFINE Q == IF ClassOf[r] = "meta" THEN P ELSE Bumped(P, EventTs(r))
           events == Appended(P.events, r)
           ended == IF SelfHeals(P, r, EventTs(r)) THEN "no" ELSE P.ended
<1>1. EventTs(r) \in Nat /\ EventTs(r) <= now
  BY EventTsType
<1>2. /\ Q \in Panel /\ Q.last_event_at \in P.last_event_at..now
      /\ Q.status = P.status /\ Q.status_changed_at = P.status_changed_at
      /\ Q.start_minimized = P.start_minimized
      /\ Q.events = P.events /\ Q.ended = P.ended
  <2>1. P \in Panel /\ P.last_event_at \in Nat /\ P.last_event_at <= now
    BY DEF Good, Panel
  <2>2. Bumped(P, EventTs(r)) \in Panel /\ Good(Bumped(P, EventTs(r)), now)
        /\ Bumped(P, EventTs(r)).last_event_at >= P.last_event_at
    BY <1>1, BumpedGood DEF Good
  <2>3. /\ Bumped(P, EventTs(r)).status = P.status
        /\ Bumped(P, EventTs(r)).status_changed_at = P.status_changed_at
        /\ Bumped(P, EventTs(r)).start_minimized = P.start_minimized
        /\ Bumped(P, EventTs(r)).events = P.events
        /\ Bumped(P, EventTs(r)).ended = P.ended
    BY <2>1 DEF Bumped, Panel
  <2>4. Bumped(P, EventTs(r)).last_event_at \in Nat /\ Bumped(P, EventTs(r)).last_event_at <= now
    BY <2>2 DEF Good, Panel
  <2> QED
    BY <2>1, <2>2, <2>3, <2>4
<1>3. /\ events \in Seq(Records) /\ Len(events) <= EventsCap
  BY AppendedProperties DEF Good, Panel
<1>4. ended \in Provenances \cup {"no"}
  BY DEF Good, Panel
<1>6. SelfHeals(P, r, EventTs(r)) => Q.last_event_at > P.last_event_at
  <2>1. P \in Panel /\ P.last_event_at \in Nat
    BY DEF Good, Panel
  <2>2. Bumped(P, EventTs(r)).last_event_at = Later(P.last_event_at, EventTs(r))
    BY <2>1 DEF Bumped, Panel
  <2> QED
    BY <1>1, <2>1, <2>2 DEF SelfHeals, TaggedMeta, Later
<1> HIDE DEF Q, events, ended
<1>5. Listed(P, r) = [Q EXCEPT !.events = events, !.awaiting = FALSE, !.ended = ended]
  BY <1>2 DEF Listed, Q, events, ended
<1> QED
  BY <1>2, <1>3, <1>4, <1>5, <1>6 DEF Panel, events, ended

LEMMA SettledStateType ==
    ASSUME now \in Nat, NEW last \in Nat
    PROVE  /\ SettledState(last).status \in Statuses
           /\ SettledState(last).changed_at \in Nat
           /\ \/ SettledState(last).changed_at <= now
              \/ SettledState(last).changed_at <= last + IdleSeconds
BY IdleType DEF SettledState, Statuses

LEMMA StirredProperties ==
    ASSUME NEW P \in Panel, P.last_event_at <= now, now \in Nat, NEW p, NEW ts,
           \/ P.status_changed_at <= now
           \/ P.status_changed_at <= P.last_event_at + IdleSeconds
    PROVE  /\ Stirred(P, p, ts) \in Panel
           /\ Stirred(P, p, ts).last_event_at = P.last_event_at
           /\ \/ Stirred(P, p, ts).status_changed_at <= now
              \/ Stirred(P, p, ts).status_changed_at <= P.last_event_at + IdleSeconds
           /\ Stirred(P, p, ts).start_minimized = FALSE
           /\ Stirred(P, p, ts).events = P.events
           /\ Stirred(P, p, ts).ended = P.ended
<1> DEFINE settled == SettledState(P.last_event_at)
           Q == [P EXCEPT !.start_minimized = FALSE]
<1>1. P.last_event_at \in Nat
  BY DEF Panel
<1>2. /\ settled.status \in Statuses /\ settled.changed_at \in Nat
      /\ settled.changed_at <= now \/ settled.changed_at <= P.last_event_at + IdleSeconds
  BY <1>1, SettledStateType
<1>3. /\ Q \in Panel /\ Q.last_event_at = P.last_event_at
      /\ Q.status_changed_at = P.status_changed_at /\ Q.start_minimized = FALSE
      /\ Q.events = P.events /\ Q.ended = P.ended
  BY DEF Panel
<1> HIDE DEF settled, Q
<1>4. \/ Stirred(P, p, ts) = Q
      \/ Stirred(P, p, ts) = [Q EXCEPT !.status = "live", !.status_changed_at = P.last_event_at]
      \/ Stirred(P, p, ts) = [Q EXCEPT !.status = settled.status,
                                      !.status_changed_at = settled.changed_at]
  BY DEF Stirred, Q, settled
<1>5. "live" \in Statuses
  BY DEF Statuses
<1> QED
  BY <1>1, <1>2, <1>3, <1>4, <1>5 DEF Panel
LEMMA SettledGood ==
    ASSUME NEW P, Good(P, now), now \in Nat, NEW r \in Records
    PROVE  /\ Good(Settled(Listed(P, r), r), now)
           /\ Settled(Listed(P, r), r).last_event_at = Listed(P, r).last_event_at
           /\ Settled(Listed(P, r), r).ended = Listed(P, r).ended
           /\ Listed(P, r).ended # "no" => Settled(Listed(P, r), r).status = P.status
<1> DEFINE Q == Listed(P, r)
<1>1. /\ Q \in Panel /\ Len(Q.events) <= EventsCap
      /\ Q.last_event_at \in P.last_event_at..now
      /\ Q.status = P.status /\ Q.status_changed_at = P.status_changed_at
      /\ Q.start_minimized = P.start_minimized
      /\ Q.events = Appended(P.events, r)
      /\ Q.ended = IF SelfHeals(P, r, EventTs(r)) THEN "no" ELSE P.ended
  BY ListedProperties
<1>2. /\ P \in Panel /\ P.last_event_at \in Nat /\ P.status_changed_at \in Nat
      /\ P.events \in Seq(Records) /\ Len(P.events) <= EventsCap
      /\ \/ P.status_changed_at <= now
         \/ P.status_changed_at <= P.last_event_at + IdleSeconds
      /\ P.start_minimized /\ P.ended = "no" => Untouched(P)
  BY DEF Good, Panel
<1>3. \/ Q.status_changed_at <= now
      \/ Q.status_changed_at <= Q.last_event_at + IdleSeconds
  BY <1>1, <1>2, IdleType
<1> HIDE DEF Q
<1>4. ASSUME Stirs(Q, r)
      PROVE  /\ Good(Settled(Q, r), now)
             /\ Settled(Q, r).last_event_at = Q.last_event_at
             /\ Settled(Q, r).ended = Q.ended /\ Q.ended = "no"
  <2>1. Settled(Q, r) = Stirred(Q, PanelOf[r], EventTs(r))
    BY <1>4 DEF Settled
  <2>2. Q.ended = "no" /\ Q.last_event_at <= now
    BY <1>1, <1>2, <1>4 DEF Stirs
  <2>3. /\ Stirred(Q, PanelOf[r], EventTs(r)) \in Panel
        /\ Stirred(Q, PanelOf[r], EventTs(r)).last_event_at = Q.last_event_at
        /\ \/ Stirred(Q, PanelOf[r], EventTs(r)).status_changed_at <= now
           \/ Stirred(Q, PanelOf[r], EventTs(r)).status_changed_at <= Q.last_event_at + IdleSeconds
        /\ Stirred(Q, PanelOf[r], EventTs(r)).start_minimized = FALSE
        /\ Stirred(Q, PanelOf[r], EventTs(r)).events = Q.events
        /\ Stirred(Q, PanelOf[r], EventTs(r)).ended = Q.ended
    BY <1>1, <1>3, <2>2, StirredProperties
  <2> QED
    BY <1>1, <2>1, <2>2, <2>3 DEF Good
<1>5. ASSUME ~Stirs(Q, r)
      PROVE  Settled(Q, r) = Q /\ Good(Q, now)
  <2>1. Settled(Q, r) = Q
    BY <1>5 DEF Settled
  <2>2. ASSUME Q.start_minimized, Q.ended = "no"
        PROVE  Untouched(Q)
    <3>1. TaggedMeta(r) \/ IsCommandArtifact(r)
      BY <1>5, <2>2 DEF Stirs
    <3>2. P.ended = "no"
      BY <1>1, <2>2, <3>1 DEF SelfHeals
    <3>3. \A j \in 1..Len(P.events) :
            TaggedMeta(P.events[j]) \/ IsCommandArtifact(P.events[j])
      BY <1>1, <1>2, <2>2, <3>2 DEF Untouched
    <3>4. \A i \in 1..Len(Q.events) :
            Q.events[i] = r \/ \E j \in 1..Len(P.events) : Q.events[i] = P.events[j]
      <4>1. \A i \in 1..Len(Appended(P.events, r)) :
              \/ Appended(P.events, r)[i] = r
              \/ \E j \in 1..Len(P.events) : Appended(P.events, r)[i] = P.events[j]
        BY <1>2, AppendedProperties
      <4> QED
        BY <1>1, <4>1
    <3>5. ASSUME NEW i \in 1..Len(Q.events)
          PROVE  TaggedMeta(Q.events[i]) \/ IsCommandArtifact(Q.events[i])
      <4>1. CASE Q.events[i] = r
        BY <3>1, <4>1
      <4>2. CASE \E j \in 1..Len(P.events) : Q.events[i] = P.events[j]
        <5>1. PICK j \in 1..Len(P.events) : Q.events[i] = P.events[j]
          BY <4>2
        <5> QED
          BY <3>3, <5>1
      <4> QED
        BY <3>4, <4>1, <4>2
    <3> QED
      BY <3>5 DEF Untouched
  <2>3. Q.last_event_at <= now
    BY <1>1, <1>2
  <2> QED
    BY <1>1, <1>3, <2>1, <2>2, <2>3 DEF Good
<1> QED
  BY <1>1, <1>4, <1>5 DEF Q

(* apply() keeps a panel good, never turns its activity back, withdraws no *)
(* end but a supersede disproved by newer activity, and does not bring a   *)
(* closed panel to life.                                                   *)
LEMMA AppliedGood ==
    ASSUME NEW P, Good(P, now), now \in Nat, NEW r \in Records
    PROVE  /\ Good(Applied(P, r), now)
           /\ Applied(P, r).last_event_at >= P.last_event_at
           /\ P.ended # "no" /\ Applied(P, r).ended # P.ended =>
                /\ P.ended = "hook_session_start_supersede"
                /\ Applied(P, r).last_event_at > P.last_event_at
           /\ P.ended # "no" /\ Applied(P, r).ended = P.ended =>
                Applied(P, r).status = P.status
<1> DEFINE Q == Listed(P, r)
           R == Settled(Q, r)
<1>1. CASE ClassOf[r] = "usage"
  <2>1. Applied(P, r) = Bumped(P, EventTs(r))
    BY <1>1 DEF Applied
  <2>2. Bumped(P, EventTs(r)).status = P.status
    BY DEF Bumped, Good, Panel
  <2> QED
    BY <2>1, <2>2, EventTsType, BumpedGood
<1>2. CASE ClassOf[r] # "usage"
  <2>1. /\ Good(R, now) /\ R.last_event_at = Q.last_event_at /\ R.ended = Q.ended
        /\ Q.ended # "no" => R.status = P.status
    BY SettledGood
  <2>2. /\ Q.last_event_at \in P.last_event_at..now
        /\ Q.ended = IF SelfHeals(P, r, EventTs(r)) THEN "no" ELSE P.ended
        /\ SelfHeals(P, r, EventTs(r)) => Q.last_event_at > P.last_event_at
    BY ListedProperties
  <2>3. P.last_event_at \in Nat /\ R \in Panel
    BY <2>1 DEF Good, Panel
  <2>4. SelfHeals(P, r, EventTs(r)) => P.ended = "hook_session_start_supersede"
    BY DEF SelfHeals
  <2>5. Applied(P, r) \in {R, Ended(R, "progress_complete")}
    BY <1>2 DEF Applied
  <2>6. "progress_complete" \in Provenances
    BY DEF Provenances
  <2> HIDE DEF Q, R
  <2>7. /\ Good(Ended(R, "progress_complete"), now)
        /\ Ended(R, "progress_complete").ended # "no"
        /\ Ended(R, "progress_complete").last_event_at = R.last_event_at
    BY <2>1, <2>6, EndedGood
  <2>8. /\ R.ended # "no" => Ended(R, "progress_complete") = R
        /\ R.ended = "no" => Ended(R, "progress_complete").ended = "progress_complete"
    BY <2>3 DEF Ended, Panel
  <2>9. CASE Applied(P, r) = R
    BY <2>1, <2>2, <2>3, <2>4, <2>9
  <2>10. CASE Applied(P, r) = Ended(R, "progress_complete")
    BY <2>1, <2>2, <2>3, <2>4, <2>7, <2>8, <2>10
  <2> QED
    BY <2>5, <2>9, <2>10
<1> QED
  BY <1>1, <1>2
LEMMA NewPanelGood ==
    ASSUME now \in Nat, NEW p, NEW r \in Records
    PROVE  Good(NewPanel(p, EventTs(r)), now)
<1> DEFINE ts == EventTs(r)
           settled == SettledState(ts)
           status == IF p \in pendingStartMini THEN "mini"
                     ELSE IF IsLiveActivity(p, ts) THEN "live" ELSE settled.status
           changed == IF IsLiveActivity(p, ts) THEN ts ELSE settled.changed_at
           docked == p \in pendingStartMini
<1>1. ts \in Nat /\ ts <= now
  BY EventTsType
<1>2. /\ settled.status \in Statuses /\ settled.changed_at \in Nat
      /\ settled.changed_at <= now \/ settled.changed_at <= ts + IdleSeconds
  BY <1>1, SettledStateType
<1> HIDE DEF ts, settled
<1>3. status \in Statuses /\ changed \in Nat /\ docked \in BOOLEAN
      /\ (changed <= now \/ changed <= ts + IdleSeconds)
  BY <1>1, <1>2 DEF Statuses
<1> HIDE DEF status, changed, docked
<1>4. NewPanel(p, ts) =
        [status |-> status, last_event_at |-> ts, status_changed_at |-> changed,
         binned |-> FALSE, awaiting |-> FALSE, ended |-> "no",
         start_minimized |-> docked, events |-> <<>>]
  BY DEF NewPanel, status, changed, docked, ts, settled
<1>5. <<>> \in Seq(Records) /\ Len(<<>>) = 0
  OBVIOUS
<1> QED
  BY <1>1, <1>3, <1>4, <1>5, CapAssumption DEF Good, Panel, Untouched, ts

LEMMA AgedGood ==
    ASSUME NEW P, Good(P, now), now \in Nat, NEW dwell \in Nat, NEW from \in Nat,
           NEW status \in Statuses
    PROVE  /\ Good(Aged(P, dwell, from, status), now)
           /\ Aged(P, dwell, from, status).ended = P.ended
           /\ Aged(P, dwell, from, status).last_event_at = P.last_event_at
           /\ Aged(P, dwell, from, status).status = status
<1> DEFINE stamp == Earlier(now, from + dwell)
<1>1. stamp \in Nat /\ stamp <= now
  BY DEF Earlier
<1> HIDE DEF stamp
<1>2. Aged(P, dwell, from, status) = [P EXCEPT !.status = status, !.status_changed_at = stamp]
  BY DEF Aged, stamp
<1>3. /\ Aged(P, dwell, from, status) \in Panel
      /\ Aged(P, dwell, from, status).status_changed_at = stamp
      /\ Aged(P, dwell, from, status).ended = P.ended
      /\ Aged(P, dwell, from, status).events = P.events
      /\ Aged(P, dwell, from, status).start_minimized = P.start_minimized
      /\ Aged(P, dwell, from, status).last_event_at = P.last_event_at
      /\ Aged(P, dwell, from, status).status = status
  BY <1>1, <1>2 DEF Good, Panel
<1> QED
  BY <1>1, <1>3 DEF Good, Untouched
----------------------------------------------------------------------------
(* What one step may do to a panel that survives it, when the step is not  *)
(* the user's own forceStatus.                                             *)

Follows(P, Q) ==
    /\ Q.last_event_at >= P.last_event_at
    /\ P.ended # "no" /\ Q.ended # P.ended =>
         P.ended = "hook_session_start_supersede" /\ Q.last_event_at > P.last_event_at
    /\ P.ended # "no" /\ Q.ended = P.ended /\ Q.status = "live" => P.status = "live"

LEMMA SameFollows ==
    ASSUME NEW P, Good(P, now)
    PROVE  Follows(P, P)
BY DEF Follows, Good, Panel

LEMMA ForcedFollows ==
    ASSUME NEW P, Good(P, now), now \in Nat, NEW status \in {"done", "mini"}
    PROVE  /\ Good(Forced(P, status), now)
           /\ Follows(P, Forced(P, status))
<1>1. status \in Statuses /\ status # "live"
  BY DEF Statuses
<1>2. Forced(P, status).status = status
  BY <1>1 DEF Forced, Good, Panel
<1> QED
  BY <1>1, <1>2, ForcedGood DEF Follows

LEMMA ClosedFollows ==
    ASSUME NEW P, Good(P, now), now \in Nat, NEW R \in {P, Forced(P, "done")},
           NEW provenance \in Provenances
    PROVE  /\ Good(Ended(R, provenance), now)
           /\ Follows(P, Ended(R, provenance))
<1>1. Good(R, now) /\ Follows(P, R) /\ R.ended = P.ended
  <2>1. "done" \in {"done", "mini"} /\ "done" \in Statuses
    BY DEF Statuses
  <2> QED
    BY <2>1, SameFollows, ForcedFollows, ForcedGood
<1>2. /\ Good(Ended(R, provenance), now)
      /\ Ended(R, provenance).last_event_at = R.last_event_at
  BY <1>1, EndedGood
<1>3. R.ended # "no" => Ended(R, provenance) = R
  BY DEF Ended
<1> QED
  BY <1>1, <1>2, <1>3 DEF Follows

----------------------------------------------------------------------------
(* The inductive invariant.  The rows are part of it because a restart     *)
(* turns them back into panels: the lifecycle columns of every known      *)
(* panel's row say what memory says.                                       *)

WrittenThrough ==
    \A p \in DOMAIN panels : p \in DOMAIN db /\ db[p] = PanelToRow(panels[p])

DataInv ==
    /\ now \in Nat
    /\ DOMAIN panels \subseteq PanelIds
    /\ \A p \in DOMAIN panels : Good(panels[p], now)
    /\ DOMAIN db \subseteq PanelIds
    /\ \A p \in DOMAIN db : GoodRow(db[p], now)
    /\ WrittenThrough

ControlInv ==
    /\ pendingStartMini \subseteq Parents
    /\ miniTimers \subseteq Timer
    /\ procLive \subseteq Parents /\ stamped \subseteq Parents
    /\ ticking \in BOOLEAN

IInv == DataInv /\ ControlInv /\ NoStaleArming

SurvivorsFollow ==
    \A p \in DOMAIN panels \cap DOMAIN panels' : Follows(panels[p], panels'[p])

(* The shape of most handlers: some known panels get a good successor.     *)
LEMMA WriteThroughKeeps ==
    ASSUME DataInv, now' = now, NEW changed, WriteThrough(changed),
           DOMAIN changed \subseteq PanelIds,
           \A q \in DOMAIN changed : Good(changed[q], now)
    PROVE  /\ DataInv'
           /\ DOMAIN panels' = DOMAIN changed \cup DOMAIN panels
           /\ \A q \in DOMAIN panels' :
                panels'[q] = IF q \in DOMAIN changed THEN changed[q] ELSE panels[q]
<1> DEFINE rows == [q \in DOMAIN changed |-> PanelToRow(changed[q])]
<1>1. /\ DOMAIN panels' = DOMAIN changed \cup DOMAIN panels
      /\ \A q \in DOMAIN panels' :
           panels'[q] = IF q \in DOMAIN changed THEN changed[q] ELSE panels[q]
  BY DEF WriteThrough, Over
<1>2. /\ DOMAIN db' = DOMAIN changed \cup DOMAIN db
      /\ \A q \in DOMAIN db' :
           db'[q] = IF q \in DOMAIN changed THEN PanelToRow(changed[q]) ELSE db[q]
  BY DEF WriteThrough, Over
<1>3. \A q \in DOMAIN changed : GoodRow(PanelToRow(changed[q]), now)
  BY RowOfGood
<1>4. \A q \in DOMAIN panels' : Good(panels'[q], now')
  BY <1>1 DEF DataInv
<1>5. \A q \in DOMAIN db' : GoodRow(db'[q], now')
  BY <1>2, <1>3 DEF DataInv
<1>6. WrittenThrough'
  BY <1>1, <1>2 DEF DataInv, WrittenThrough
<1>7. DOMAIN panels' \subseteq PanelIds /\ DOMAIN db' \subseteq PanelIds
  BY <1>1, <1>2 DEF DataInv
<1> QED
  BY <1>1, <1>4, <1>5, <1>6, <1>7 DEF DataInv

(* Handlers that touch only panels already known.                          *)
LEMMA KnownWriteThrough ==
    ASSUME IInv, now' = now, NEW changed, WriteThrough(changed),
           DOMAIN changed \subseteq DOMAIN panels,
           \A q \in DOMAIN changed : Good(changed[q], now) /\ Follows(panels[q], changed[q])
    PROVE  DataInv' /\ DOMAIN panels' = DOMAIN panels /\ SurvivorsFollow
<1>1. DataInv /\ DOMAIN changed \subseteq PanelIds
  BY DEF IInv, DataInv
<1>2. /\ DataInv'
      /\ DOMAIN panels' = DOMAIN changed \cup DOMAIN panels
      /\ \A q \in DOMAIN panels' :
           panels'[q] = IF q \in DOMAIN changed THEN changed[q] ELSE panels[q]
  BY <1>1, WriteThroughKeeps
<1>3. \A q \in DOMAIN panels : Follows(panels[q], panels[q])
  BY <1>1, SameFollows DEF DataInv
<1> QED
  BY <1>2, <1>3 DEF SurvivorsFollow
----------------------------------------------------------------------------
(* One lemma per action.                                                   *)

LEMMA IngestStep ==
    ASSUME IInv, NEW r \in Records, Ingest(r)
    PROVE  IInv' /\ SurvivorsFollow
<1> DEFINE p == PanelOf[r]
           P == IF Known(p) THEN panels[p] ELSE NewPanel(p, EventTs(r))
           changed == [q \in {p} |-> Applied(P, r)]
<1>1. /\ now' = now /\ WriteThrough(changed)
      /\ pendingStartMini' = pendingStartMini \ {p}
      /\ UNCHANGED <<miniTimers, procLive, stamped, ticking>>
  BY DEF Ingest
<1>2. p \in PanelIds /\ DataInv /\ now \in Nat
  BY RecordsAssumption DEF IInv, DataInv
<1>3. Good(P, now)
  BY <1>2, NewPanelGood DEF DataInv, Known
<1> HIDE DEF p, P
<1>4. /\ Good(Applied(P, r), now)
      /\ Follows(P, Applied(P, r))
  BY <1>2, <1>3, AppliedGood DEF Follows
<1>5. /\ DOMAIN changed = {p} /\ \A q \in DOMAIN changed : Good(changed[q], now)
      /\ changed[p] = Applied(P, r)
  BY <1>4
<1> HIDE DEF changed
<1>6. /\ DataInv'
      /\ DOMAIN panels' = DOMAIN changed \cup DOMAIN panels
      /\ \A q \in DOMAIN panels' :
           panels'[q] = IF q \in DOMAIN changed THEN changed[q] ELSE panels[q]
  BY <1>1, <1>2, <1>5, WriteThroughKeeps
<1>7. \A q \in DOMAIN panels : Follows(panels[q], panels[q])
  BY <1>2, SameFollows DEF DataInv
<1>8. SurvivorsFollow
  BY <1>4, <1>5, <1>6, <1>7 DEF SurvivorsFollow, P, Known
<1>9. ControlInv' /\ NoStaleArming'
  BY <1>1, <1>5, <1>6 DEF IInv, ControlInv, NoStaleArming
<1> QED
  BY <1>6, <1>8, <1>9 DEF IInv

LEMMA TickStep ==
    ASSUME IInv, Tick
    PROVE  IInv' /\ SurvivorsFollow
<1> DEFINE running == {p \in DOMAIN panels : ~panels[p].binned}
           demoted == {p \in running : GoesIdle(p) \/ GoesMini(p)}
           reaped == {p \in running : GoesAway(p)}
           aged == [p \in demoted |-> TickedPanel(p)]
<1>1. /\ panels' = [p \in DOMAIN panels \ reaped |-> IF p \in demoted THEN aged[p]
                                                    ELSE panels[p]]
      /\ db' = [p \in (DOMAIN db \cup demoted) \ reaped |->
                  IF p \in demoted THEN PanelToRow(aged[p]) ELSE db[p]]
      /\ UNCHANGED <<now, pendingStartMini, miniTimers, procLive, ticking>>
      /\ stamped' = stamped \ reaped
  BY DEF Tick
<1>2. DataInv /\ now \in Nat /\ demoted \subseteq DOMAIN panels
  BY DEF IInv, DataInv
<1>3. ASSUME NEW p \in demoted
      PROVE  Good(aged[p], now) /\ Follows(panels[p], aged[p])
  <2>1. Good(panels[p], now)
    BY <1>2 DEF DataInv
  <2>2. panels[p].last_event_at \in Nat /\ panels[p].status_changed_at \in Nat
    BY <2>1 DEF Good, Panel
  <2>3. {"done", "mini"} \subseteq Statuses
    BY DEF Statuses
  <2>4. \/ aged[p] = Aged(panels[p], IdleSeconds, panels[p].last_event_at, "done")
        \/ aged[p] = Aged(panels[p], MiniSeconds, panels[p].status_changed_at, "mini")
    BY DEF TickedPanel
  <2>5. ASSUME NEW dwell \in Nat, NEW from \in Nat, NEW status \in {"done", "mini"}
        PROVE  /\ Good(Aged(panels[p], dwell, from, status), now)
               /\ Follows(panels[p], Aged(panels[p], dwell, from, status))
    <3>1. status \in Statuses
      BY <2>3
    <3>2. /\ Good(Aged(panels[p], dwell, from, status), now)
          /\ Aged(panels[p], dwell, from, status).ended = panels[p].ended
          /\ Aged(panels[p], dwell, from, status).last_event_at = panels[p].last_event_at
          /\ Aged(panels[p], dwell, from, status).status = status
      BY <1>2, <2>1, <3>1, AgedGood, Zenon
    <3> QED
      BY <2>2, <3>2 DEF Follows
  <2>6. IdleSeconds \in Nat /\ MiniSeconds \in Nat
    BY IdleType
  <2> QED
    BY <2>2, <2>4, <2>5, <2>6
<1> HIDE DEF demoted, reaped, aged, running
<1>4. /\ DOMAIN panels' = DOMAIN panels \ reaped
      /\ \A p \in DOMAIN panels' : panels'[p] = IF p \in demoted THEN aged[p] ELSE panels[p]
      /\ DOMAIN db' = (DOMAIN db \cup demoted) \ reaped
      /\ \A p \in DOMAIN db' : db'[p] = IF p \in demoted THEN PanelToRow(aged[p]) ELSE db[p]
  BY <1>1
<1>5. \A p \in DOMAIN panels' : Good(panels'[p], now')
  BY <1>1, <1>2, <1>3, <1>4 DEF DataInv
<1>6. \A p \in DOMAIN db' : GoodRow(db'[p], now')
  BY <1>1, <1>2, <1>3, <1>4, RowOfGood DEF DataInv
<1>7. WrittenThrough'
  BY <1>2, <1>4 DEF DataInv, WrittenThrough
<1>8. DataInv'
  BY <1>1, <1>2, <1>4, <1>5, <1>6, <1>7 DEF DataInv
<1>9. SurvivorsFollow
  <2>1. \A q \in DOMAIN panels : Follows(panels[q], panels[q])
    BY <1>2, SameFollows DEF DataInv
  <2> QED
    BY <1>3, <1>4, <2>1 DEF SurvivorsFollow
<1>10. ControlInv' /\ NoStaleArming'
  BY <1>1, <1>4 DEF IInv, ControlInv, NoStaleArming
<1> QED
  BY <1>8, <1>9, <1>10 DEF IInv

(* The handlers that do not touch the control state and keep the panels    *)
(* they know.                                                              *)
LEMMA QuietHandler ==
    ASSUME IInv, NEW changed, WriteThrough(changed),
           DOMAIN changed \subseteq DOMAIN panels,
           \A q \in DOMAIN changed : Good(changed[q], now) /\ Follows(panels[q], changed[q]),
           UNCHANGED <<now, pendingStartMini, procLive, stamped>>,
           miniTimers' \subseteq Timer, ticking' \in BOOLEAN
    PROVE  IInv' /\ SurvivorsFollow
<1>1. DataInv' /\ DOMAIN panels' = DOMAIN panels /\ SurvivorsFollow
  BY KnownWriteThrough
<1>2. ControlInv' /\ NoStaleArming'
  BY <1>1 DEF IInv, ControlInv, NoStaleArming
<1> QED
  BY <1>1, <1>2 DEF IInv
LEMMA ForceStatusStep ==
    ASSUME IInv, NEW p, NEW status \in Statuses, ForceStatus(p, status)
    PROVE  /\ IInv'
           /\ \A q \in DOMAIN panels \cap DOMAIN panels' :
                \/ Follows(panels[q], panels'[q])
                \/ /\ ForceStatus(q, "live") /\ panels'[q].ended = panels[q].ended
                   /\ panels'[q].last_event_at >= panels[q].last_event_at
<1> DEFINE changed == [q \in {p} |-> Forced(panels[p], status)]
<1>1. /\ WriteThrough(changed) /\ p \in DOMAIN panels
      /\ UNCHANGED <<now, pendingStartMini, miniTimers, procLive, stamped, ticking>>
  BY DEF ForceStatus, Known
<1>2. DataInv /\ now \in Nat /\ Good(panels[p], now)
  BY <1>1 DEF IInv, DataInv
<1>3. /\ Good(Forced(panels[p], status), now)
      /\ Forced(panels[p], status).ended = panels[p].ended
      /\ Forced(panels[p], status).last_event_at >= panels[p].last_event_at
  BY <1>2, ForcedGood
<1>4. status # "live" => Follows(panels[p], Forced(panels[p], status))
  <2>1. status # "live" => status \in {"done", "mini"}
    BY DEF Statuses
  <2> QED
    BY <1>2, <2>1, ForcedFollows
<1>5. /\ DataInv'
      /\ DOMAIN panels' = DOMAIN changed \cup DOMAIN panels
      /\ \A q \in DOMAIN panels' :
           panels'[q] = IF q \in DOMAIN changed THEN changed[q] ELSE panels[q]
  <2>1. DOMAIN changed \subseteq PanelIds
    BY <1>1, <1>2 DEF DataInv
  <2>2. \A q \in DOMAIN changed : Good(changed[q], now)
    BY <1>3
  <2> HIDE DEF changed
  <2> QED
    BY <1>1, <1>2, <2>1, <2>2, WriteThroughKeeps
<1>6. ControlInv' /\ NoStaleArming'
  BY <1>1, <1>5 DEF IInv, ControlInv, NoStaleArming
<1>7. \A q \in DOMAIN panels : Follows(panels[q], panels[q])
  BY <1>2, SameFollows DEF DataInv
<1>8. status = "live" => ForceStatus(p, "live")
  OBVIOUS
<1> QED
  BY <1>1, <1>3, <1>4, <1>5, <1>6, <1>7, <1>8 DEF IInv

(* bin, unbin and setAwaiting touch a flag and a stamp.                    *)
LEMMA FlaggedFollows ==
    ASSUME NEW P, Good(P, now), now \in Nat,
           NEW Q \in {[P EXCEPT !.binned = TRUE],
                      [P EXCEPT !.binned = FALSE, !.status_changed_at = now],
                      [P EXCEPT !.awaiting = TRUE]}
    PROVE  Good(Q, now) /\ Follows(P, Q)
<1>1. P \in Panel
  BY DEF Good
<1>2. /\ Q \in Panel /\ Q.last_event_at = P.last_event_at
      /\ Q.ended = P.ended /\ Q.status = P.status
      /\ Q.events = P.events /\ Q.start_minimized = P.start_minimized
      /\ Q.status_changed_at \in {now, P.status_changed_at}
  BY <1>1 DEF Panel
<1>3. P.last_event_at \in Nat /\ P.status_changed_at \in Nat
  BY <1>1 DEF Panel
<1> QED
  BY <1>2, <1>3 DEF Good, Follows, Untouched

LEMMA FlagStep ==
    ASSUME IInv, NEW p, Bin(p) \/ Unbin(p) \/ Notification(p)
    PROVE  IInv' /\ SurvivorsFollow
<1>1. /\ p \in DOMAIN panels
      /\ UNCHANGED <<now, pendingStartMini, miniTimers, procLive, stamped, ticking>>
  BY DEF Bin, Unbin, Notification, Known
<1>2. PICK Q \in {[panels[p] EXCEPT !.binned = TRUE],
                  [panels[p] EXCEPT !.binned = FALSE, !.status_changed_at = now],
                  [panels[p] EXCEPT !.awaiting = TRUE]} :
        WriteThrough([q \in {p} |-> Q])
  BY DEF Bin, Unbin, Notification
<1>3. Good(Q, now) /\ Follows(panels[p], Q)
  BY <1>1, FlaggedFollows DEF IInv, DataInv
<1> DEFINE changed == [q \in {p} |-> Q]
<1>4. /\ DOMAIN changed \subseteq DOMAIN panels
      /\ \A q \in DOMAIN changed : Good(changed[q], now) /\ Follows(panels[q], changed[q])
      /\ WriteThrough(changed)
  BY <1>1, <1>2, <1>3
<1>5. miniTimers' \subseteq Timer /\ ticking' \in BOOLEAN
  BY <1>1 DEF IInv, ControlInv
<1> HIDE DEF changed
<1> QED
  BY <1>1, <1>4, <1>5, QuietHandler

LEMMA ForgetStep ==
    ASSUME IInv, NEW S, Forget(S),
           UNCHANGED <<now, pendingStartMini, miniTimers, procLive, ticking>>
    PROVE  IInv' /\ SurvivorsFollow
<1>1. /\ DOMAIN panels' = DOMAIN panels \ S /\ DOMAIN db' = DOMAIN db \ S
      /\ \A p \in DOMAIN panels' : panels'[p] = panels[p]
      /\ \A p \in DOMAIN db' : db'[p] = db[p]
      /\ stamped' = stamped \ S
  BY DEF Forget
<1>2. \A q \in DOMAIN panels : Follows(panels[q], panels[q])
  BY SameFollows DEF IInv, DataInv
<1> QED
  BY <1>1, <1>2 DEF IInv, DataInv, ControlInv, WrittenThrough, NoStaleArming, SurvivorsFollow
LEMMA StopStep ==
    ASSUME IInv, NEW s, NEW ts, Stop(s, ts)
    PROVE  IInv' /\ SurvivorsFollow
<1> DEFINE changed == [q \in {s} |-> Forced(panels[s], "done")]
<1>1. /\ WriteThrough(changed) /\ s \in DOMAIN panels
      /\ UNCHANGED <<now, pendingStartMini, miniTimers, procLive, stamped, ticking>>
  BY DEF Stop, Known
<1>2. Good(panels[s], now) /\ now \in Nat
  BY <1>1 DEF IInv, DataInv
<1>3. /\ DOMAIN changed \subseteq DOMAIN panels
      /\ \A q \in DOMAIN changed : Good(changed[q], now) /\ Follows(panels[q], changed[q])
  BY <1>1, <1>2, ForcedFollows
<1>4. miniTimers' \subseteq Timer /\ ticking' \in BOOLEAN
  BY <1>1 DEF IInv, ControlInv
<1> HIDE DEF changed
<1> QED
  BY <1>1, <1>3, <1>4, QuietHandler

(* SubagentStop and SessionEnd close panels they know.                     *)
LEMMA ClosedStep ==
    ASSUME IInv, NEW S \in SUBSET DOMAIN panels, NEW ts, NEW provenance \in Provenances,
           WriteThrough([q \in S |-> Closed(q, ts, provenance)]),
           UNCHANGED <<now, pendingStartMini, miniTimers, procLive, stamped, ticking>>
    PROVE  IInv' /\ SurvivorsFollow
<1> DEFINE changed == [q \in S |-> Closed(q, ts, provenance)]
<1>1. ASSUME NEW q \in S
      PROVE  Good(Closed(q, ts, provenance), now) /\ Follows(panels[q], Closed(q, ts, provenance))
  <2> DEFINE R == IF Fresh(ts) THEN Forced(panels[q], "done") ELSE panels[q]
  <2>1. Good(panels[q], now) /\ now \in Nat
    BY DEF IInv, DataInv
  <2>2. R \in {panels[q], Forced(panels[q], "done")}
    OBVIOUS
  <2>3. Closed(q, ts, provenance) = Ended(R, provenance)
    BY DEF Closed
  <2> HIDE DEF R
  <2> QED
    BY <2>1, <2>2, <2>3, ClosedFollows
<1>2. /\ DOMAIN changed \subseteq DOMAIN panels
      /\ \A q \in DOMAIN changed : Good(changed[q], now) /\ Follows(panels[q], changed[q])
      /\ WriteThrough(changed)
  BY <1>1
<1>3. miniTimers' \subseteq Timer /\ ticking' \in BOOLEAN
  BY DEF IInv, ControlInv
<1> HIDE DEF changed
<1> QED
  BY <1>2, <1>3, QuietHandler

LEMMA EndHooksStep ==
    ASSUME IInv, NEW s, NEW ts, SubagentStop(s, ts) \/ SessionEnd(s, ts)
    PROVE  IInv' /\ SurvivorsFollow
<1>1. CASE SubagentStop(s, ts)
  <2>1. UnendedSubagentsOf(s) \subseteq DOMAIN panels
    BY DEF UnendedSubagentsOf, SubagentsOf
  <2>2. "hook_subagent_stop" \in Provenances
    BY DEF Provenances
  <2> QED
    BY <1>1, <2>1, <2>2, ClosedStep DEF SubagentStop
<1>2. CASE SessionEnd(s, ts)
  <2> DEFINE family == ({s} \cap DOMAIN panels) \cup UnendedSubagentsOf(s)
  <2>1. family \subseteq DOMAIN panels
    BY DEF UnendedSubagentsOf, SubagentsOf
  <2>2. "hook_session_end" \in Provenances
    BY DEF Provenances
  <2>3. /\ WriteThrough([q \in family |-> Closed(q, ts, "hook_session_end")])
        /\ UNCHANGED <<now, pendingStartMini, miniTimers, procLive, stamped, ticking>>
    BY <1>2 DEF SessionEnd
  <2> HIDE DEF family
  <2> QED
    BY <2>1, <2>2, <2>3, ClosedStep
<1> QED
  BY <1>1, <1>2

LEMMA ArmedFollows ==
    ASSUME NEW s \in DOMAIN panels, Good(panels[s], now), now \in Nat, Untouched(panels[s])
    PROVE  Good(Armed(s), now) /\ Follows(panels[s], Armed(s))
<1> DEFINE F == Forced(panels[s], "mini")
<1>1. Good(F, now) /\ Follows(panels[s], F)
  BY ForcedFollows
<1>2. F \in Panel /\ F.events = panels[s].events
  BY <1>1 DEF Good, Forced, Panel
<1> HIDE DEF F
<1>3. Armed(s) = [F EXCEPT !.start_minimized = TRUE]
  BY DEF Armed, F
<1>4. /\ Armed(s) \in Panel /\ Armed(s).events = F.events
      /\ Armed(s).last_event_at = F.last_event_at /\ Armed(s).ended = F.ended
      /\ Armed(s).status = F.status /\ Armed(s).status_changed_at = F.status_changed_at
  BY <1>2, <1>3 DEF Panel
<1> QED
  BY <1>1, <1>2, <1>4 DEF Good, Follows, Untouched

LEMMA SupersedeStep ==
    ASSUME IInv, NEW s \in Parents, NEW source, NEW auto,
           NEW victims \in SUBSET DOMAIN panels, Supersede(s, source, auto, victims)
    PROVE  IInv' /\ SurvivorsFollow
<1> DEFINE arms == source = "clear" /\ auto
           armed == IF arms /\ Armable(s) THEN {s} ELSE {}
           retired == victims \cup UNION {UnendedSubagentsOf(v) : v \in victims}
           Retired(q) == Ended(Forced(panels[q], "done"), "hook_session_start_supersede")
           changed == [q \in armed \cup retired |-> IF q \in armed THEN Armed(q) ELSE Retired(q)]
           timers == {[panel |-> q, due |-> now + SupersedeMiniDelay] : q \in retired}
<1>1. /\ WriteThrough(changed)
      /\ pendingStartMini' = pendingStartMini \cup (IF arms THEN ArmedUnborn(s) ELSE {})
      /\ miniTimers' = IF auto THEN miniTimers \cup timers ELSE miniTimers
      /\ UNCHANGED <<now, procLive, stamped, ticking>>
  BY DEF Supersede
<1>2. DataInv /\ now \in Nat /\ DOMAIN panels \subseteq PanelIds
  BY DEF IInv, DataInv
<1>3. armed \subseteq DOMAIN panels /\ retired \subseteq DOMAIN panels
  BY DEF Armable, Known, UnendedSubagentsOf, SubagentsOf
<1>4. ASSUME NEW q \in armed
      PROVE  Good(Armed(q), now) /\ Follows(panels[q], Armed(q))
  <2>1. q \in DOMAIN panels /\ Untouched(panels[q])
    BY <1>4 DEF Armable, Known
  <2> QED
    BY <1>2, <2>1, ArmedFollows DEF DataInv
<1>5. ASSUME NEW q \in retired
      PROVE  Good(Retired(q), now) /\ Follows(panels[q], Retired(q))
  <2>1. Good(panels[q], now)
    BY <1>2, <1>3 DEF DataInv
  <2>2. "hook_session_start_supersede" \in Provenances
    BY DEF Provenances
  <2> QED
    BY <1>2, <2>1, <2>2, ClosedFollows
<1>6. timers \subseteq Timer
  BY <1>2, <1>3, TimingsAssumption DEF Timer
<1> HIDE DEF armed, retired, timers
<1>7. /\ DOMAIN changed \subseteq DOMAIN panels
      /\ \A q \in DOMAIN changed : Good(changed[q], now) /\ Follows(panels[q], changed[q])
  BY <1>3, <1>4, <1>5
<1> HIDE DEF changed
<1>8. DataInv' /\ DOMAIN panels' = DOMAIN panels /\ SurvivorsFollow
  BY <1>1, <1>7, KnownWriteThrough
<1>9. ControlInv' /\ NoStaleArming'
  BY <1>1, <1>6, <1>8 DEF IInv, ControlInv, NoStaleArming, ArmedUnborn, Known
<1> QED
  BY <1>8, <1>9 DEF IInv
LEMMA SessionStartStep ==
    ASSUME IInv, NEW s \in Parents, NEW source, NEW auto, NEW ts,
           SessionStart(s, source, auto, ts)
    PROVE  IInv' /\ SurvivorsFollow
<1>1. Predecessors(s, ts) \subseteq DOMAIN panels
  BY DEF Predecessors, MostRecent, PaneOccupants, Supersedable, OpenOthers
<1>2. CASE \E v \in Predecessors(s, ts) : Supersede(s, source, auto, {v})
  <2>1. PICK v \in Predecessors(s, ts) : Supersede(s, source, auto, {v})
    BY <1>2
  <2>2. {v} \in SUBSET DOMAIN panels
    BY <1>1
  <2> QED
    BY <2>1, <2>2, SupersedeStep
<1>3. CASE Supersede(s, source, auto, {})
  BY <1>3, SupersedeStep
<1> QED
  BY <1>2, <1>3 DEF SessionStart

LEMMA MiniTimerStep ==
    ASSUME IInv, NEW timer, NEW pinned, MiniTimerFires(timer, pinned)
    PROVE  IInv' /\ SurvivorsFollow
<1> DEFINE p == timer.panel
           docked == IF Known(p) /\ panels[p].status = "done" /\ ~pinned THEN {p} ELSE {}
           changed == [q \in {p} \cap docked |-> Forced(panels[q], "mini")]
<1>1. /\ WriteThrough(changed) /\ miniTimers' = miniTimers \ {timer}
      /\ UNCHANGED <<now, pendingStartMini, procLive, stamped, ticking>>
  BY DEF MiniTimerFires
<1>2. docked \subseteq DOMAIN panels
  BY DEF Known
<1>3. \A q \in DOMAIN panels : Good(panels[q], now) /\ now \in Nat
  BY DEF IInv, DataInv
<1> HIDE DEF docked, p
<1>4. /\ DOMAIN changed \subseteq DOMAIN panels
      /\ \A q \in DOMAIN changed : Good(changed[q], now) /\ Follows(panels[q], changed[q])
  BY <1>2, <1>3, ForcedFollows
<1>5. miniTimers' \subseteq Timer /\ ticking' \in BOOLEAN
  BY <1>1 DEF IInv, ControlInv
<1> HIDE DEF changed
<1> QED
  BY <1>1, <1>4, <1>5, QuietHandler

LEMMA FinishBootStep ==
    ASSUME IInv, FinishBoot
    PROVE  IInv' /\ SurvivorsFollow
<1> DEFINE stale == {p \in DOMAIN panels \cap Subagents :
                       panels[p].ended = "no" /\ now - panels[p].last_event_at > IdleSeconds}
           changed == [q \in stale |-> Ended(panels[q], "bootstrap_stale")]
<1>1. /\ WriteThrough(changed) /\ ticking' = TRUE
      /\ UNCHANGED <<now, pendingStartMini, miniTimers, procLive, stamped>>
  BY DEF FinishBoot
<1>2. stale \subseteq DOMAIN panels
  OBVIOUS
<1>3. "bootstrap_stale" \in Provenances
  BY DEF Provenances
<1>4. \A q \in DOMAIN panels : Good(panels[q], now) /\ now \in Nat
  BY DEF IInv, DataInv
<1> HIDE DEF stale
<1>5. /\ DOMAIN changed \subseteq DOMAIN panels
      /\ \A q \in DOMAIN changed : Good(changed[q], now) /\ Follows(panels[q], changed[q])
  BY <1>2, <1>3, <1>4, ClosedFollows
<1>6. miniTimers' \subseteq Timer /\ ticking' \in BOOLEAN
  BY <1>1 DEF IInv, ControlInv
<1> HIDE DEF changed
<1> QED
  BY <1>1, <1>5, <1>6, QuietHandler

(* What a restart brings back of a panel is what memory held, because the  *)
(* row was written through.                                                *)
LEMMA RestartStep ==
    ASSUME IInv, NEW kept, Restart(kept)
    PROVE  IInv' /\ SurvivorsFollow
<1> DEFINE loaded == {p \in DOMAIN db : p \in kept \/ db[p].last_event_at + HydrateWindow >= now}
<1>1. /\ panels' = [p \in loaded |-> PanelRowToPanel(db[p])]
      /\ pendingStartMini' = {} /\ miniTimers' = {} /\ ticking' = FALSE
      /\ procLive' = {} /\ stamped' = {}
      /\ UNCHANGED <<now, db>>
  BY DEF Restart
<1>2. DataInv /\ loaded \subseteq DOMAIN db
  BY DEF IInv
<1> HIDE DEF loaded
<1>3. DOMAIN panels' = loaded /\ \A p \in loaded : panels'[p] = PanelRowToPanel(db[p])
  BY <1>1
<1>4. \A p \in DOMAIN panels' : Good(panels'[p], now')
  BY <1>1, <1>2, <1>3, PanelOfGoodRow DEF DataInv
<1>5. \A R \in Row : PanelToRow(PanelRowToPanel(R)) = R
  BY DEF PanelToRow, PanelRowToPanel, Row
<1>6. WrittenThrough'
  BY <1>1, <1>2, <1>3, <1>5 DEF DataInv, WrittenThrough, GoodRow
<1>7. SurvivorsFollow
  <2>1. ASSUME NEW p \in DOMAIN panels, p \in loaded
        PROVE  Follows(panels[p], panels'[p])
    <3>1. panels'[p] = PanelRowToPanel(PanelToRow(panels[p]))
      BY <1>2, <1>3, <2>1 DEF DataInv, WrittenThrough
    <3>2. panels[p] \in Panel
      BY <1>2 DEF DataInv, Good
    <3> QED
      BY <3>1, <3>2 DEF Follows, PanelToRow, PanelRowToPanel, Panel
  <2> QED
    BY <1>3, <2>1 DEF SurvivorsFollow
<1>8. DataInv'
  BY <1>1, <1>2, <1>3, <1>4, <1>6 DEF DataInv
<1>9. ControlInv' /\ NoStaleArming'
  BY <1>1 DEF IInv, ControlInv, NoStaleArming
<1> QED
  BY <1>7, <1>8, <1>9 DEF IInv

LEMMA ClockStep ==
    ASSUME IInv,
           AdvanceTime \/ (\E s \in Parents : ProcessChange(s) \/ SessionPid(s)) \/ UNCHANGED vars
    PROVE  IInv' /\ SurvivorsFollow
<1>1. /\ UNCHANGED <<panels, db, pendingStartMini, miniTimers, ticking>>
      /\ now' \in {now, now + 1} /\ procLive' \subseteq Parents
      /\ stamped' \subseteq Parents
  BY DEF AdvanceTime, ProcessChange, SessionPid, vars, IInv, ControlInv
<1>2. DataInv /\ now \in Nat
  BY DEF IInv, DataInv
<1>3. now' \in Nat /\ now <= now'
  BY <1>1, <1>2
<1>4. ASSUME NEW p \in DOMAIN panels
      PROVE  Good(panels[p], now')
  <2>1. Good(panels[p], now)
    BY <1>2 DEF DataInv
  <2>2. panels[p].last_event_at \in Nat /\ panels[p].status_changed_at \in Nat
    BY <2>1 DEF Good, Panel
  <2> QED
    BY <1>2, <1>3, <2>1, <2>2 DEF Good
<1>5. ASSUME NEW p \in DOMAIN db
      PROVE  GoodRow(db[p], now')
  <2>1. GoodRow(db[p], now)
    BY <1>2 DEF DataInv
  <2>2. db[p].last_event_at \in Nat /\ db[p].status_changed_at \in Nat
    BY <2>1 DEF GoodRow, Row
  <2> QED
    BY <1>2, <1>3, <2>1, <2>2 DEF GoodRow
<1>6. DataInv'
  BY <1>1, <1>2, <1>3, <1>4, <1>5 DEF DataInv, WrittenThrough
<1>7. SurvivorsFollow
  BY <1>1, <1>2, SameFollows DEF SurvivorsFollow, DataInv
<1>8. ControlInv' /\ NoStaleArming'
  BY <1>1 DEF IInv, ControlInv, NoStaleArming
<1> QED
  BY <1>6, <1>7, <1>8 DEF IInv
----------------------------------------------------------------------------
(* All actions together.                                                   *)

LEMMA InitInv == Init => IInv
<1> SUFFICES ASSUME Init PROVE IInv
  OBVIOUS
<1>1. DOMAIN panels = {} /\ DOMAIN db = {}
  BY DEF Init
<1>2. DataInv
  BY <1>1 DEF Init, DataInv, WrittenThrough
<1>3. ControlInv
  BY DEF Init, ControlInv
<1>4. NoStaleArming
  BY <1>1 DEF NoStaleArming
<1> QED
  BY <1>2, <1>3, <1>4 DEF IInv

LEMMA NextStep ==
    ASSUME IInv, [Next]_vars
    PROVE  /\ IInv'
           /\ \A q \in DOMAIN panels \cap DOMAIN panels' :
                \/ Follows(panels[q], panels'[q])
                \/ /\ ForceStatus(q, "live") /\ panels'[q].ended = panels[q].ended
                   /\ panels'[q].last_event_at >= panels[q].last_event_at
<1>1. CASE \E r \in Records : Ingest(r)
  BY <1>1, IngestStep DEF SurvivorsFollow
<1>2. CASE Tick
  BY <1>2, TickStep DEF SurvivorsFollow
<1>3. CASE UserStep
  <2>1. PICK p \in PanelIds :
          \/ \E status \in Statuses : ForceStatus(p, status)
          \/ Bin(p) \/ Unbin(p) \/ Remove(p) \/ TearDown(p)
    BY <1>3 DEF UserStep
  <2>2. CASE \E status \in Statuses : ForceStatus(p, status)
    BY <2>2, ForceStatusStep
  <2>3. CASE Bin(p) \/ Unbin(p)
    BY <2>3, FlagStep DEF SurvivorsFollow
  <2>4. CASE Remove(p)
    BY <2>4, ForgetStep DEF Remove, SurvivorsFollow
  <2>5. CASE TearDown(p)
    BY <2>5, ForgetStep DEF TearDown, SurvivorsFollow
  <2> QED
    BY <2>1, <2>2, <2>3, <2>4, <2>5
<1>4. CASE \E ts \in 0..now : HookStep(ts)
  <2>1. PICK ts \in 0..now : HookStep(ts)
    BY <1>4
  <2>2. PICK s \in Parents :
          \/ Stop(s, ts) \/ SubagentStop(s, ts) \/ SessionEnd(s, ts)
          \/ \E source \in {"clear", "compact"}, auto \in BOOLEAN :
               SessionStart(s, source, auto, ts)
    BY <2>1 DEF HookStep
  <2>3. CASE Stop(s, ts)
    BY <2>3, StopStep DEF SurvivorsFollow
  <2>4. CASE SubagentStop(s, ts) \/ SessionEnd(s, ts)
    BY <2>4, EndHooksStep DEF SurvivorsFollow
  <2>5. CASE \E source \in {"clear", "compact"}, auto \in BOOLEAN :
               SessionStart(s, source, auto, ts)
    BY <2>5, SessionStartStep DEF SurvivorsFollow
  <2> QED
    BY <2>2, <2>3, <2>4, <2>5
<1>5. CASE \E s \in Parents : Notification(s)
  BY <1>5, FlagStep DEF SurvivorsFollow
<1>6. CASE \E timer \in miniTimers, pinned \in BOOLEAN : MiniTimerFires(timer, pinned)
  BY <1>6, MiniTimerStep DEF SurvivorsFollow
<1>7. CASE \E kept \in SUBSET DOMAIN db : Restart(kept)
  BY <1>7, RestartStep DEF SurvivorsFollow
<1>8. CASE FinishBoot
  BY <1>8, FinishBootStep DEF SurvivorsFollow
<1>9. CASE AdvanceTime \/ (\E s \in Parents : ProcessChange(s) \/ SessionPid(s)) \/ UNCHANGED vars
  BY <1>9, ClockStep DEF SurvivorsFollow
<1> QED
  BY <1>1, <1>2, <1>3, <1>4, <1>5, <1>6, <1>7, <1>8, <1>9 DEF Next

THEOREM Inductive == Spec => []IInv
<1>1. Init => IInv
  BY InitInv
<1>2. IInv /\ [Next]_vars => IInv'
  BY NextStep
<1> QED
  BY <1>1, <1>2, PTL DEF Spec

(* Every variable keeps its type, and no event list outgrows its cap.      *)
THEOREM TypeCorrect == Spec => []TypeOK
<1>1. IInv => TypeOK
  BY DEF IInv, DataInv, ControlInv, TypeOK, Good, GoodRow
<1> QED
  BY <1>1, Inductive, PTL

(* Activity never runs ahead of the clock, and a status stamp runs ahead   *)
(* only within one idle window of the last activity.                       *)
THEOREM StampsCorrect == Spec => []StampsBounded
<1>1. IInv => StampsBounded
  BY DEF IInv, DataInv, StampsBounded, Good
<1> QED
  BY <1>1, Inductive, PTL

(* A session waiting in the dock since its /clear holds no real input: of  *)
(* the records read since the server started and still listed, none is.    *)
THEOREM DockCorrect == Spec => []DockedMeansUntouched
<1>1. IInv => DockedMeansUntouched
  BY DEF IInv, DataInv, DockedMeansUntouched, Good
<1> QED
  BY <1>1, Inductive, PTL

(* No "born minimized" order outlives the birth of its panel.              *)
THEOREM ArmingCorrect == Spec => []NoStaleArming
<1>1. IInv => NoStaleArming
  BY DEF IInv
<1> QED
  BY <1>1, Inductive, PTL

(* No step undoes an end, but for a supersede disproved by newer activity. *)
THEOREM EndsAreFinal == Spec => EndedIsFinal
<1>1. IInv /\ [Next]_vars =>
        [\A p \in DOMAIN panels \cap DOMAIN panels' :
           panels[p].ended # "no" /\ panels'[p].ended # panels[p].ended =>
             /\ panels[p].ended = "hook_session_start_supersede"
             /\ panels'[p].last_event_at > panels[p].last_event_at]_vars
  BY NextStep DEF Follows
<1> QED
  BY <1>1, Inductive, PTL DEF Spec, EndedIsFinal

(* No step but the user's own brings a closed panel back to life.          *)
THEOREM ClosedStaysDown == Spec => NoResurrection
<1>1. IInv /\ [Next]_vars =>
        [\A p \in DOMAIN panels \cap DOMAIN panels' :
           /\ panels[p].ended # "no" /\ panels'[p].ended = panels[p].ended
           /\ panels[p].status # "live" /\ panels'[p].status = "live"
           => ForceStatus(p, "live")]_vars
  BY NextStep DEF Follows
<1> QED
  BY <1>1, Inductive, PTL DEF Spec, NoResurrection

(* No step, restarts included, moves a panel's last activity back.         *)
THEOREM ActivityOnlyGrows == Spec => ActivityNeverRewinds
<1>1. IInv /\ [Next]_vars =>
        [\A p \in DOMAIN panels \cap DOMAIN panels' :
           panels'[p].last_event_at >= panels[p].last_event_at]_vars
  BY NextStep DEF Follows
<1> QED
  BY <1>1, Inductive, PTL DEF Spec, ActivityNeverRewinds

(* The tick never removes a session from over an unfinished subagent.      *)
THEOREM ReapIsSafe == Spec => ReapLeavesNoOrphan
<1>1. ASSUME IInv, Tick, NEW p \in DOMAIN panels \ DOMAIN panels',
             NEW c \in DOMAIN panels' \cap Subagents, ParentOf[c] = p
      PROVE  panels'[c].ended # "no"
  <2> DEFINE running == {q \in DOMAIN panels : ~panels[q].binned}
             demoted == {q \in running : GoesIdle(q) \/ GoesMini(q)}
             reaped == {q \in running : GoesAway(q)}
             aged == [q \in demoted |-> TickedPanel(q)]
  <2>1. panels' = [q \in DOMAIN panels \ reaped |-> IF q \in demoted THEN aged[q]
                                                    ELSE panels[q]]
    BY <1>1 DEF Tick
  <2>2. p \in reaped /\ c \in DOMAIN panels
    BY <1>1, <2>1
  <2>3. panels[c].ended # "no"
    BY <1>1, <2>2 DEF GoesAway, UnendedSubagentsOf, SubagentsOf
  <2>4. panels[c] \in Panel
    BY <1>1, <2>2 DEF IInv, DataInv, Good
  <2>5. TickedPanel(c).ended = panels[c].ended
    BY <2>4 DEF TickedPanel, Aged, Panel
  <2> QED
    BY <1>1, <2>1, <2>3, <2>5
<1>2. IInv /\ [Next]_vars =>
        [Tick => \A p \in DOMAIN panels \ DOMAIN panels' :
           \A c \in DOMAIN panels' \cap Subagents :
             ParentOf[c] = p => panels'[c].ended # "no"]_vars
  BY <1>1
<1> QED
  BY <1>2, Inductive, PTL DEF Spec, ReapLeavesNoOrphan

(* Noise keeps a panel that waits in the dock where it is.                 *)
LEMMA NoiseIsQuiet ==
    ASSUME NEW P, Good(P, now), now \in Nat, NEW r \in Records,
           P.start_minimized, P.ended = "no", TaggedMeta(r) \/ IsCommandArtifact(r)
    PROVE  Applied(P, r).status = P.status
<1>1. ~SelfHeals(P, r, EventTs(r))
  BY DEF SelfHeals
<1>2. /\ Listed(P, r).status = P.status /\ Listed(P, r).ended = "no"
      /\ Listed(P, r).start_minimized
  BY <1>1, ListedProperties
<1>3. Settled(Listed(P, r), r) = Listed(P, r)
  BY <1>2 DEF Settled, Stirs
<1>4. ClassOf[r] \notin {"usage", "checklist"}
  BY DEF TaggedMeta, IsCommandArtifact
<1> QED
  BY <1>2, <1>3, <1>4 DEF Applied

(* Command noise and meta records leave a session born of /clear in the    *)
(* dock, whether its hook or its transcript came first.                    *)
THEOREM NoiseStaysDocked == Spec => NoiseNeverUndocks
<1>1. ASSUME IInv, NEW r \in Records, Ingest(r), TaggedMeta(r) \/ IsCommandArtifact(r)
      PROVE  LET p == PanelOf[r]
             IN /\ p \in pendingStartMini => panels'[p].status = "mini"
                /\ Known(p) /\ panels[p].start_minimized /\ panels[p].ended = "no"
                     => panels'[p].status = panels[p].status
  <2> DEFINE p == PanelOf[r]
             P == IF Known(p) THEN panels[p] ELSE NewPanel(p, EventTs(r))
  <2>1. now \in Nat /\ Good(P, now)
    BY <1>1, NewPanelGood DEF IInv, DataInv, Known
  <2>2. panels'[p] = Applied(P, r)
    BY <1>1 DEF Ingest, WriteThrough, Over
  <2>3. ASSUME p \in pendingStartMini
        PROVE  P.status = "mini" /\ P.start_minimized /\ P.ended = "no"
    BY <1>1, <2>3 DEF IInv, NoStaleArming, Known, NewPanel
  <2>4. P.start_minimized /\ P.ended = "no" => Applied(P, r).status = P.status
    BY <1>1, <2>1, NoiseIsQuiet
  <2> QED
    BY <2>2, <2>3, <2>4
<1>2. IInv /\ [Next]_vars =>
        [\A r \in Records :
           Ingest(r) /\ (TaggedMeta(r) \/ IsCommandArtifact(r)) =>
             LET p == PanelOf[r]
             IN /\ p \in pendingStartMini => panels'[p].status = "mini"
                /\ Known(p) /\ panels[p].start_minimized /\ panels[p].ended = "no"
                     => panels'[p].status = panels[p].status]_vars
  BY <1>1
<1> QED
  BY <1>2, Inductive, PTL DEF Spec, NoiseNeverUndocks

=============================================================================
