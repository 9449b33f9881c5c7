-------------------------- MODULE AlertQueueProofs --------------------------
(***************************************************************************)
(* That a wait has one banner in one life of the server (AlertQueue).      *)
(*                                                                         *)
(* Three things keep a wait from being announced again: an alert that is   *)
(* queued keeps another from being fired, the cursor keeps it from being   *)
(* sent again, and the first answer to a restarted helper is not shown.    *)
(* None of them knows of waits.  What ties them together is                *)
(* QueuedOrUnspoken: while a wait is young its alert is queued, or nobody  *)
(* has been told of it; so an alert that is fired is news.                 *)
(***************************************************************************)
EXTENDS AlertQueue, TLAPS

-----------------------------------------------------------------------------
(* The inductive invariant *)

\* A wait has been announced, or an answer on its way speaks of it.
Spoken(w) == w \in banners \/ \E r \in replies : w \in Waits(r)

\* Nothing speaks of a wait or of a life that has not begun.  P is the panels: a
\* notification is followed in two steps, its mark on the panel and its alert.
Begun(P) ==
    /\ \A a \in alerts : a.life = life /\ a.wait <= P[a.panel].wait
    /\ \A r \in replies : \A a \in r : a.life = life /\ a.wait <= P[a.panel].wait
    /\ \A b \in banners : b[2] <= P[b[1]].wait /\ b[3] <= life

\* A panel has one awaiting alert in the queue, and no answer has two of a wait.
OneQueued == \A a, b \in Asking(alerts) : a.panel = b.panel => a = b
NoneTwice == \A r \in replies : ~Twice(r)

\* The queue and an answer that both speak of a wait do it with the same alert.
SameAlert ==
    \A r \in replies : \A a \in Asking(alerts), b \in Asking(r) : WaitOf(a) = WaitOf(b) => a.id = b.id

\* A grace timer runs for a panel with nothing queued, and for a young wait.
TimerAlone(P) == \A p \in pendingTimers : ~Queued(p) /\ (P[p].awaiting => ~P[p].late)

\* An alert that expires is of a wait no longer young.
OldIsLate(P) == \A a \in Asking(alerts) : a.old /\ a.wait = P[a.panel].wait => P[a.panel].late

\* A young wait is queued, or nobody has been told of it.
QueuedOrUnspoken(P) ==
    \A p \in Panels :
        P[p].awaiting /\ ~P[p].late
        => \/ \E a \in Asking(alerts) : a.panel = p /\ a.wait = P[p].wait
           \/ ~Spoken(<<p, P[p].wait, life>>)

\* What is queued of a wait that has its banner is behind the cursor, or behind
\* the answer that is to seed it.
BehindTheCursor ==
    \A a \in Asking(alerts) : WaitOf(a) \in banners =>
        /\ helper.seeded => a.id <= helper.cursor
        /\ \A r \in replies : ~helper.seeded => \E b \in r : a.id <= b.id
Unseeded == ~helper.seeded => helper.cursor = -1

\* An answer to a helper that listens speaks of no wait that has its banner.
NewsOnly == helper.seeded => \A r \in replies : Waits(r) \cap banners = {}

AInvAt(P) ==
    /\ Begun(P) /\ OneQueued /\ NoneTwice /\ SameAlert /\ TimerAlone(P) /\ OldIsLate(P)
    /\ QueuedOrUnspoken(P) /\ BehindTheCursor /\ Unseeded /\ NewsOnly /\ ~repeated
AInv == TypeOK /\ AInvAt(panel)

-----------------------------------------------------------------------------
(* What firing and listing do *)

\* Firing queues one new alert or does nothing, and an awaiting one only for a
\* panel that waits.
Fresh(P, p, reason) == [id |-> nextId, panel |-> p, reason |-> reason,
                        wait |-> P[p].wait, life |-> life, old |-> FALSE]

LEMMA FireCases ==
    ASSUME NEW P, NEW p, NEW reason, Fire(P, p, reason)
    PROVE  \/ UNCHANGED <<alerts, nextId>>
           \/ /\ alerts' = alerts \cup {Fresh(P, p, reason)} /\ nextId' = nextId + 1
              /\ reason = "awaiting" => P[p].awaiting
<1>1. CASE prefs.on /\ P[p].there /\ (reason = "awaiting" => P[p].awaiting)
  BY <1>1 DEF Fire, Fresh
<1>2. CASE ~(prefs.on /\ P[p].there /\ (reason = "awaiting" => P[p].awaiting))
  BY <1>2 DEF Fire
<1> QED BY <1>1, <1>2

\* What is fired is an alert.
LEMMA FireType ==
    ASSUME NEW P \in [Panels -> Panel], NEW p \in Panels, NEW reason \in {"awaiting", "turn_complete"},
           TypeOK, Fire(P, p, reason)
    PROVE  alerts' \subseteq Alert /\ nextId' \in Nat
<1>1. P[p].wait \in 0..MaxWaits
  BY DEF Panel
<1>2. Fresh(P, p, reason) \in Alert
  BY <1>1 DEF TypeOK, Alert, Fresh
<1> QED BY <1>2, FireCases DEF TypeOK

\* A notification leaves panels behind.
LEMMA WaitingType ==
    ASSUME TypeOK, NEW p \in Panels, Waiting(p)[p].wait <= MaxWaits
    PROVE  Waiting(p) \in [Panels -> Panel]
<1>1. CASE ~panel[p].there \/ panel[p].awaiting
  BY <1>1 DEF TypeOK, Waiting
<1>2. CASE ~(~panel[p].there \/ panel[p].awaiting)
  <2>1. panel[p].wait \in Nat /\ panel[p].wait + 1 <= MaxWaits
    BY <1>2 DEF TypeOK, Panel, Waiting
  <2>2. panel[p].wait + 1 \in 0..MaxWaits
    BY <2>1, BoundsAssumption
  <2>3. [there |-> TRUE, awaiting |-> TRUE, wait |-> panel[p].wait + 1, late |-> FALSE] \in Panel
    BY <2>2 DEF Panel
  <2> QED BY <1>2, <2>3 DEF TypeOK, Waiting
<1> QED BY <1>1, <1>2

\* onAwaiting ends in the queue as it was, a timer, or an alert.
LEMMA AwaitingType ==
    ASSUME NEW P \in [Panels -> Panel], NEW p \in Panels, TypeOK, onAwaiting(P, p)
    PROVE  pendingTimers' \subseteq Panels /\ alerts' \subseteq Alert /\ nextId' \in Nat
<1>1. CASE UNCHANGED queue
  BY <1>1 DEF queue, TypeOK
<1>2. CASE pendingTimers' = pendingTimers \cup {p} /\ UNCHANGED <<alerts, nextId>>
  BY <1>2 DEF TypeOK
<1>3. CASE Fire(P, p, "awaiting") /\ UNCHANGED pendingTimers
  BY <1>3, FireType DEF TypeOK
<1> QED BY <1>1, <1>2, <1>3 DEF onAwaiting

LEMMA InitTypeOK == Init => TypeOK
<1> SUFFICES ASSUME Init PROVE TypeOK
  OBVIOUS
<1>1. 0 \in 0..MaxWaits /\ 0 \in 0..MaxStops /\ 0 \in 0..MaxRestarts
  BY BoundsAssumption
<1>2. prefs \in Prefs
  BY PrefsAssumption DEF Init
<1>3. panel \in [Panels -> Panel]
  BY <1>1 DEF Init, Panel
<1>4. helper \in [seeded : BOOLEAN, cursor : Int, restarts : 0..MaxRestarts]
  BY <1>1 DEF Init
<1> QED BY <1>1, <1>2, <1>3, <1>4 DEF Init, TypeOK

LEMMA NextTypeOK == TypeOK /\ [Next]_vars => TypeOK'
<1> SUFFICES ASSUME TypeOK, [Next]_vars PROVE TypeOK'
  OBVIOUS
<1> USE DEF delivery, queue
<1>1. ASSUME NEW p \in Panels, NEW isFresh \in BOOLEAN, Notify(p, isFresh) PROVE TypeOK'
  <2>1. Waiting(p) \in [Panels -> Panel]
    BY <1>1, WaitingType DEF Notify
  <2>2. pendingTimers' \subseteq Panels /\ alerts' \subseteq Alert /\ nextId' \in Nat
    <3>1. CASE isFresh
      BY <1>1, <2>1, <3>1, AwaitingType DEF Notify
    <3>2. CASE ~isFresh
      BY <1>1, <3>2 DEF Notify, TypeOK
    <3> QED BY <3>1, <3>2
  <2> QED BY <1>1, <2>1, <2>2 DEF Notify, TypeOK
<1>2. ASSUME NEW p \in Panels, Answer(p) PROVE TypeOK'
  <2>1. panel' \in [Panels -> Panel]
    BY <1>2 DEF Answer, TypeOK, Panel
  <2> QED BY <1>2, <2>1 DEF Answer, TypeOK
<1>3. ASSUME NEW p \in Panels, Stop(p) PROVE TypeOK'
  <2>1. alerts' \subseteq Alert /\ nextId' \in Nat
    <3>1. CASE prefs.on /\ prefs.turns
      BY <1>3, <3>1, FireType DEF Stop, TypeOK
    <3>2. CASE ~(prefs.on /\ prefs.turns)
      BY <1>3, <3>2 DEF Stop, TypeOK
    <3> QED BY <3>1, <3>2
  <2>2. stops' \in 0..MaxStops
    BY <1>3, BoundsAssumption DEF Stop, TypeOK
  <2> QED BY <1>3, <2>1, <2>2 DEF Stop, TypeOK
<1>4. ASSUME NEW p \in Panels, TimerFires(p) PROVE TypeOK'
  <2>1. alerts' \subseteq Alert /\ nextId' \in Nat
    BY <1>4, FireType DEF TimerFires, TypeOK
  <2> QED BY <1>4, <2>1 DEF TimerFires, TypeOK
<1>5. ASSUME NEW p \in Panels, Remove(p) \/ Purge(p) PROVE TypeOK'
  <2>1. panel' = [panel EXCEPT ![p].there = FALSE, ![p].awaiting = FALSE]
    BY <1>5 DEF Remove, Purge
  <2>2. panel' \in [Panels -> Panel]
    BY <2>1 DEF TypeOK, Panel
  <2>3. CASE Remove(p)
    BY <2>2, <2>3 DEF Remove, TypeOK, delivery
  <2>4. CASE Purge(p)
    BY <2>2, <2>4 DEF Purge, TypeOK, queue, delivery
  <2> QED BY <1>5, <2>3, <2>4
<1>6. ASSUME NEW p \in Panels, Return(p) PROVE TypeOK'
  <2>1. panel' \in [Panels -> Panel]
    BY <1>6 DEF Return, TypeOK, Panel
  <2> QED BY <1>6, <2>1 DEF Return, TypeOK
<1>7. ASSUME NEW a \in alerts, Expire(a) PROVE TypeOK'
  <2>0. a \in Alert
    BY DEF TypeOK
  <2>1. a \in Alert /\ [a EXCEPT !.old = TRUE] \in Alert
    BY <2>0 DEF Alert
  <2>2. panel' \in [Panels -> Panel]
    BY <1>7, <2>1 DEF Expire, TypeOK, Panel, Alert
  <2> QED BY <1>7, <2>1, <2>2 DEF Expire, TypeOK
<1>8. CASE SetPrefs
  BY <1>8, PrefsAssumption DEF SetPrefs, TypeOK
<1>9. CASE RestartServer
  <2>1. life' \in 0..MaxRestarts
    BY <1>9, BoundsAssumption DEF RestartServer, TypeOK
  <2>2. banners' \subseteq Panels \X (0..MaxWaits) \X (0..MaxRestarts)
    BY <1>9 DEF RestartServer, TypeOK
  <2> QED BY <1>9, <2>1, <2>2 DEF RestartServer, TypeOK
<1>10. CASE RestartHelper
  <2>1. helper' \in [seeded : BOOLEAN, cursor : Int, restarts : 0..MaxRestarts]
    BY <1>10, BoundsAssumption DEF RestartHelper, TypeOK
  <2> QED BY <1>10, <2>1 DEF RestartHelper, TypeOK
<1>11. CASE Poll
  BY <1>11 DEF Poll, TypeOK, Listed
<1>12. CASE LoseReply
  BY <1>12 DEF LoseReply, TypeOK
<1>13. CASE Deliver
  <2>1. PICK r \in replies :
            /\ IF helper.seeded
               THEN /\ banners' = banners \cup Waits(r)
                    /\ repeated' = (repeated \/ Twice(r) \/ Waits(r) \cap banners # {})
               ELSE UNCHANGED <<banners, repeated>>
            /\ \E last \in Heard(r) : helper' = [helper EXCEPT !.seeded = TRUE, !.cursor = last]
    BY <1>13 DEF Deliver
  <2>2. r \subseteq Alert
    BY DEF TypeOK
  <2>3. Waits(r) \subseteq Panels \X (0..MaxWaits) \X (0..MaxRestarts)
    BY <2>2 DEF Waits, WaitOf, Asking, Alert
  <2>4. Heard(r) \subseteq Int
    BY <2>2 DEF Heard, TypeOK, Alert
  <2>5. helper' \in [seeded : BOOLEAN, cursor : Int, restarts : 0..MaxRestarts]
    BY <2>1, <2>4 DEF TypeOK
  <2>6. banners' \subseteq Panels \X (0..MaxWaits) \X (0..MaxRestarts)
    BY <2>1, <2>3 DEF TypeOK
  <2>7. repeated' \in BOOLEAN
    BY <2>1 DEF TypeOK
  <2> QED BY <1>13, <2>5, <2>6, <2>7 DEF Deliver, TypeOK
<1>14. CASE UNCHANGED vars
  BY <1>14 DEF vars, TypeOK
<1> QED BY <1>1, <1>2, <1>3, <1>4, <1>5, <1>6, <1>7, <1>8, <1>9, <1>10, <1>11, <1>12, <1>13, <1>14 DEF Next

\* The variables stay within their types.
THEOREM TypeCorrect == Spec => []TypeOK
<1> QED BY InitTypeOK, NextTypeOK, PTL DEF Spec

-----------------------------------------------------------------------------
(* A banner per wait *)

LEMMA InitAInv == Init => AInv
<1> SUFFICES ASSUME Init PROVE AInv
  OBVIOUS
<1>1. TypeOK
  BY InitTypeOK
<1>2. AInvAt(panel)
  BY DEF Init, AInvAt, Begun, OneQueued, NoneTwice, SameAlert, TimerAlone, OldIsLate,
         QueuedOrUnspoken, BehindTheCursor, Unseeded, NewsOnly, Spoken, Asking
<1> QED BY <1>1, <1>2 DEF AInv

\* The mark of a notification: a wait that begins has a number nothing speaks of.
LEMMA WaitingKeeps ==
    ASSUME AInv, NEW p \in Panels, panel[p].awaiting => ~panel[p].late, Waiting(p)[p].wait <= MaxWaits
    PROVE  /\ AInvAt(Waiting(p))
           /\ Waiting(p)[p].awaiting => ~Waiting(p)[p].late
<1>1. CASE ~panel[p].there \/ panel[p].awaiting
  BY <1>1 DEF AInv, Waiting
<1>2. CASE ~(~panel[p].there \/ panel[p].awaiting)
  <2> DEFINE P == Waiting(p)
  <2>0. panel[p] \in Panel /\ panel[p].wait \in Nat
    BY DEF AInv, TypeOK, Panel
  <2>1. /\ P[p].awaiting /\ ~P[p].late /\ P[p].wait = panel[p].wait + 1
        /\ \A q \in Panels : q # p => P[q] = panel[q]
    BY <1>2 DEF AInv, TypeOK, Waiting
  <2> HIDE DEF P
  <2>2. ASSUME NEW q \in Panels
        PROVE  panel[q].wait \in Int /\ panel[q].wait <= P[q].wait /\ P[q].wait \in Int
    <3>1. panel[q].wait \in Int
      BY DEF AInv, TypeOK, Panel
    <3> QED BY <2>0, <2>1, <3>1
  <2>3. Begun(P)
    BY <2>2 DEF AInv, AInvAt, Begun, TypeOK, Alert
  <2>4. \A a \in alerts : a.panel = p => a.wait # P[p].wait
    BY <2>0, <2>1 DEF AInv, AInvAt, Begun, TypeOK, Alert
  <2>5. OldIsLate(P)
    BY <2>1, <2>4 DEF AInv, AInvAt, OldIsLate, TypeOK, Alert, Asking
  <2>6. TimerAlone(P)
    BY <2>1 DEF AInv, AInvAt, TimerAlone, TypeOK
  <2>7. <<p, P[p].wait, life>> \notin banners
    BY <2>0, <2>1 DEF AInv, AInvAt, Begun, TypeOK
  <2>8. ASSUME NEW r \in replies PROVE <<p, P[p].wait, life>> \notin Waits(r)
    BY <2>0, <2>1 DEF AInv, AInvAt, Begun, TypeOK, Waits, WaitOf, Asking, Alert
  <2>9. QueuedOrUnspoken(P)
    BY <2>1, <2>7, <2>8 DEF AInv, AInvAt, QueuedOrUnspoken, Spoken
  <2> QED BY <2>1, <2>3, <2>5, <2>6, <2>9 DEF AInv, AInvAt, P
<1> QED BY <1>1, <1>2

\* A panel with nothing queued gets its alert.
LEMMA FireKeeps ==
    ASSUME TypeOK, NEW P \in [Panels -> Panel], AInvAt(P), NEW p \in Panels,
           Fire(P, p, "awaiting"), ~Queued(p), P[p].awaiting => ~P[p].late,
           pendingTimers' = pendingTimers \ {p}, panel' = P, UNCHANGED <<life, delivery>>
    PROVE  AInvAt(panel)'
<1> USE DEF delivery
<1>1. CASE UNCHANGED <<alerts, nextId>>
  BY <1>1 DEF AInvAt, Begun, OneQueued, NoneTwice, SameAlert, TimerAlone, OldIsLate,
              QueuedOrUnspoken, BehindTheCursor, Unseeded, NewsOnly, Spoken, Asking, Queued,
              Twice, Waits, WaitOf
<1>2. ASSUME alerts' = alerts \cup {Fresh(P, p, "awaiting")}, P[p].awaiting
      PROVE  AInvAt(panel)'
  <2> DEFINE n == Fresh(P, p, "awaiting")
  <2>1. /\ n.panel = p /\ n.wait = P[p].wait /\ n.life = life /\ n.reason = "awaiting" /\ ~n.old
        /\ WaitOf(n) = <<p, P[p].wait, life>>
    BY DEF Fresh, WaitOf
  <2>2. Asking(alerts)' = Asking(alerts) \cup {n}
    BY <1>2, <2>1 DEF Asking
  <2>3. \A a \in Asking(alerts) : a.panel # p
    BY DEF Queued, Asking
  <2>4. ~Spoken(WaitOf(n))
    BY <1>2, <2>1, <2>3 DEF AInvAt, QueuedOrUnspoken
  <2> HIDE DEF n
  <2>5. P[p].wait \in Int
    BY DEF Panel
  <2>6. Begun(P)'
    BY <1>2, <2>1, <2>5 DEF AInvAt, Begun, n
  <2>7. OneQueued'
    BY <2>1, <2>2, <2>3 DEF AInvAt, OneQueued
  <2>8. NoneTwice'
    BY DEF AInvAt, NoneTwice, Twice, Asking, WaitOf
  <2>9. \A r \in replies : \A b \in Asking(r) : WaitOf(b) # WaitOf(n)
    BY <2>4 DEF Spoken, Waits
  <2>10. SameAlert'
    <3> SUFFICES ASSUME NEW r \in replies, NEW a \in Asking(alerts) \cup {n}, NEW b \in Asking(r),
                        WaitOf(a) = WaitOf(b)
                 PROVE  a.id = b.id
      BY <2>2 DEF SameAlert, Asking, WaitOf
    <3> QED BY <2>9 DEF AInvAt, SameAlert
  <2>11. TimerAlone(P)'
    BY <1>2, <2>1 DEF AInvAt, TimerAlone, Queued, n
  <2>12. OldIsLate(P)'
    BY <2>1, <2>2 DEF AInvAt, OldIsLate
  <2>13. \A w : Spoken(w)' <=> Spoken(w)
    BY DEF Spoken, Waits, Asking, WaitOf
  <2>14. QueuedOrUnspoken(P)'
    BY <2>1, <2>2, <2>13 DEF AInvAt, QueuedOrUnspoken
  <2>15. BehindTheCursor'
    <3>1. WaitOf(n) \notin banners
      BY <2>4 DEF Spoken
    <3> QED BY <2>2, <3>1 DEF AInvAt, BehindTheCursor, WaitOf
  <2>16. Unseeded' /\ NewsOnly' /\ ~repeated'
    BY DEF AInvAt, Unseeded, NewsOnly, Waits, Asking, WaitOf
  <2> QED BY <2>6, <2>7, <2>8, <2>10, <2>11, <2>12, <2>14, <2>15, <2>16
          DEF AInvAt, Begun, TimerAlone, OldIsLate, QueuedOrUnspoken
<1> QED BY <1>1, <1>2, FireCases

\* A notification that is fresh: nothing, a timer, or an alert.
LEMMA AwaitingKeeps ==
    ASSUME TypeOK, NEW P \in [Panels -> Panel], AInvAt(P), NEW p \in Panels,
           onAwaiting(P, p), P[p].awaiting => ~P[p].late, panel' = P, UNCHANGED <<life, delivery>>
    PROVE  AInvAt(panel)'
<1>1. CASE UNCHANGED queue
  BY <1>1 DEF AInvAt, Begun, OneQueued, NoneTwice, SameAlert, TimerAlone, OldIsLate,
              QueuedOrUnspoken, BehindTheCursor, Unseeded, NewsOnly, Spoken, Asking, Queued,
              Twice, Waits, WaitOf, delivery, queue
<1>2. CASE ~Queued(p) /\ pendingTimers' = pendingTimers \cup {p} /\ UNCHANGED <<alerts, nextId>>
  BY <1>2 DEF AInvAt, Begun, OneQueued, NoneTwice, SameAlert, TimerAlone, OldIsLate,
              QueuedOrUnspoken, BehindTheCursor, Unseeded, NewsOnly, Spoken, Asking, Queued,
              Twice, Waits, WaitOf, delivery
<1>3. CASE ~Queued(p) /\ p \notin pendingTimers /\ Fire(P, p, "awaiting") /\ UNCHANGED pendingTimers
  <2>1. pendingTimers' = pendingTimers \ {p}
    BY <1>3
  <2> QED BY <1>3, <2>1, FireKeeps
<1> QED BY <1>1, <1>2, <1>3 DEF onAwaiting

LEMMA NotifyKeeps ==
    ASSUME AInv, NEW p \in Panels, NEW isFresh \in BOOLEAN, Notify(p, isFresh)
    PROVE  AInvAt(panel)'
<1>1. Waiting(p) \in [Panels -> Panel]
  BY WaitingType DEF Notify, AInv
<1>2. AInvAt(Waiting(p)) /\ (Waiting(p)[p].awaiting => ~Waiting(p)[p].late)
  BY WaitingKeeps DEF Notify
<1>3. panel' = Waiting(p) /\ UNCHANGED <<life, delivery>>
  BY DEF Notify
<1> DEFINE P == Waiting(p)
<1> HIDE DEF P
<1>4. CASE isFresh
  <2>1. onAwaiting(P, p)
    BY <1>4 DEF Notify, P
  <2>2. P \in [Panels -> Panel] /\ AInvAt(P) /\ (P[p].awaiting => ~P[p].late) /\ panel' = P
    BY <1>1, <1>2, <1>3 DEF P
  <2> QED BY <1>3, <2>1, <2>2, AwaitingKeeps DEF AInv
<1>5. CASE ~isFresh
  <2>1. UNCHANGED queue /\ panel' = P
    BY <1>5 DEF Notify, P
  <2>2. AInvAt(P)
    BY <1>2 DEF P
  <2> QED BY <1>3, <2>1, <2>2 DEF AInvAt, Begun, OneQueued, NoneTwice, SameAlert, TimerAlone,
              OldIsLate, QueuedOrUnspoken, BehindTheCursor, Unseeded, NewsOnly, Spoken, Asking,
              Queued, Twice, Waits, WaitOf, queue, delivery
<1> QED BY <1>4, <1>5

\* An answered, returned or removed panel waits no more than it did.
LEMMA PanelKeeps ==
    ASSUME AInv, NEW p \in Panels, Answer(p) \/ Return(p) \/ Purge(p) \/ Remove(p)
    PROVE  AInvAt(panel)'
<1>1. /\ \A q \in Panels : panel'[q].wait = panel[q].wait /\ panel'[q].late = panel[q].late
      /\ \A q \in Panels : panel'[q].awaiting => panel[q].awaiting
      /\ Remove(p) => ~panel'[p].awaiting /\ \A q \in Panels : q # p => panel'[q] = panel[q]
  BY DEF AInv, TypeOK, Panel, Answer, Return, Purge, Remove
<1>2. /\ alerts' \subseteq alerts /\ pendingTimers' \subseteq pendingTimers
      /\ Remove(p) => alerts' = {a \in alerts : a.panel # p}
      /\ ~Remove(p) => alerts' = alerts
      /\ UNCHANGED <<life, helper, replies, banners, repeated>>
  BY DEF Answer, Return, Purge, Remove, delivery, queue
<1>3. Asking(alerts)' \subseteq Asking(alerts)
  BY <1>2 DEF Asking
<1>4. Begun(panel)'
  BY <1>1, <1>2 DEF AInv, AInvAt, Begun, TypeOK, Alert
<1>5. OneQueued' /\ NoneTwice' /\ SameAlert'
  BY <1>2, <1>3 DEF AInv, AInvAt, OneQueued, NoneTwice, SameAlert, Twice, Asking, WaitOf
<1>6. TimerAlone(panel)'
  BY <1>1, <1>2 DEF AInv, AInvAt, TimerAlone, Queued, TypeOK
<1>7. OldIsLate(panel)'
  BY <1>1, <1>3 DEF AInv, AInvAt, OldIsLate, TypeOK, Alert, Asking
<1>8. \A w : Spoken(w)' <=> Spoken(w)
  BY <1>2 DEF Spoken, Waits, Asking, WaitOf
<1>9. QueuedOrUnspoken(panel)'
  <2> SUFFICES ASSUME NEW q \in Panels, panel'[q].awaiting, ~panel'[q].late
               PROVE  \/ \E a \in Asking(alerts)' : a.panel = q /\ a.wait = panel'[q].wait
                      \/ ~Spoken(<<q, panel'[q].wait, life>>)
    BY <1>2, <1>8 DEF QueuedOrUnspoken
  <2>1. panel[q].awaiting /\ ~panel[q].late /\ panel[q].wait = panel'[q].wait
    BY <1>1
  <2>2. CASE ~Remove(p)
    <3>1. Asking(alerts)' = Asking(alerts)
      BY <1>2, <2>2 DEF Asking
    <3> QED BY <2>1, <3>1 DEF AInv, AInvAt, QueuedOrUnspoken
  <2>3. CASE Remove(p)
    <3>1. q # p
      BY <1>1, <2>3
    <3>2. \A a \in Asking(alerts) : a.panel = q => a \in Asking(alerts)'
      BY <1>2, <2>3, <3>1 DEF Asking
    <3> QED BY <2>1, <3>2 DEF AInv, AInvAt, QueuedOrUnspoken
  <2> QED BY <2>2, <2>3
<1>10. BehindTheCursor' /\ Unseeded' /\ NewsOnly' /\ ~repeated'
  BY <1>2, <1>3 DEF AInv, AInvAt, BehindTheCursor, Unseeded, NewsOnly, Waits, Asking, WaitOf
<1> QED BY <1>4, <1>5, <1>6, <1>7, <1>9, <1>10 DEF AInvAt

\* The end of a turn asks nobody for anything.
LEMMA StopKeeps ==
    ASSUME AInv, NEW p \in Panels, Stop(p)
    PROVE  AInvAt(panel)'
<1>1. UNCHANGED <<panel, pendingTimers, life, helper, replies, banners, repeated>>
  BY DEF Stop, delivery
<1>2. \/ alerts' = alerts
      \/ alerts' = alerts \cup {Fresh(panel, p, "turn_complete")}
  BY FireCases DEF Stop
<1>3. Asking(alerts)' = Asking(alerts)
  BY <1>2 DEF Asking, Fresh
<1>4. panel[p].wait \in Int
  BY DEF AInv, TypeOK, Panel
<1>5. Begun(panel)'
  BY <1>1, <1>2, <1>4 DEF AInv, AInvAt, Begun, Fresh
<1>6. \A q : Queued(q)' => Queued(q)
  BY <1>2 DEF Queued, Fresh
<1>7. TimerAlone(panel)'
  BY <1>1, <1>6 DEF AInv, AInvAt, TimerAlone
<1> QED BY <1>1, <1>3, <1>5, <1>7
        DEF AInv, AInvAt, OneQueued, NoneTwice, SameAlert, OldIsLate, QueuedOrUnspoken,
            BehindTheCursor, Unseeded, NewsOnly, Spoken, Twice, Waits, WaitOf, Asking

LEMMA TimerKeeps ==
    ASSUME AInv, NEW p \in Panels, TimerFires(p)
    PROVE  AInvAt(panel)'
<1>1. ~Queued(p) /\ (panel[p].awaiting => ~panel[p].late)
  BY DEF TimerFires, AInv, AInvAt, TimerAlone
<1>2. panel \in [Panels -> Panel] /\ AInvAt(panel) /\ TypeOK
  BY DEF AInv, TypeOK
<1> QED BY <1>1, <1>2, FireKeeps DEF TimerFires

\* A queued alert ages, and with it the wait it is of.
LEMMA ExpireKeeps ==
    ASSUME AInv, NEW a \in alerts, Expire(a)
    PROVE  AInvAt(panel)'
<1> DEFINE b == [a EXCEPT !.old = TRUE]
<1>1. a \in Alert /\ a.panel \in Panels
  BY DEF AInv, TypeOK, Alert
<1>2. /\ b.id = a.id /\ b.panel = a.panel /\ b.reason = a.reason /\ b.wait = a.wait
      /\ b.life = a.life /\ b.old
  BY <1>1 DEF Alert
<1> HIDE DEF b
<1>3. /\ alerts' = (alerts \ {a}) \cup {b}
      /\ UNCHANGED <<pendingTimers, life, helper, replies, banners, repeated>>
  BY DEF Expire, delivery, b
<1>4. /\ \A q \in Panels : /\ panel'[q].wait = panel[q].wait
                           /\ panel'[q].awaiting = panel[q].awaiting
                           /\ panel[q].late => panel'[q].late
      /\ a.reason = "awaiting" /\ a.wait = panel[a.panel].wait => panel'[a.panel].late
      /\ \A q \in Panels : q # a.panel \/ a.reason # "awaiting" => panel'[q].late = panel[q].late
  BY <1>1 DEF AInv, TypeOK, Panel, Expire
<1>5. WaitOf(b) = WaitOf(a)
  BY <1>2 DEF WaitOf
<1>6. Asking(alerts)' = IF a.reason = "awaiting" THEN (Asking(alerts) \ {a}) \cup {b} ELSE Asking(alerts)
  BY <1>2, <1>3 DEF Asking
<1>7. Begun(panel)'
  BY <1>1, <1>2, <1>3, <1>4 DEF AInv, AInvAt, Begun, TypeOK, Alert
<1>8. OneQueued' /\ NoneTwice'
  BY <1>2, <1>3, <1>6 DEF AInv, AInvAt, OneQueued, NoneTwice, Twice, Asking, WaitOf
<1>9. SameAlert'
  <2> SUFFICES ASSUME NEW r \in replies, NEW c \in Asking(alerts)', NEW d \in Asking(r), WaitOf(c) = WaitOf(d)
               PROVE  c.id = d.id
    BY <1>3 DEF SameAlert, Asking, WaitOf
  <2>1. PICK e \in Asking(alerts) : e.id = c.id /\ WaitOf(e) = WaitOf(c)
    BY <1>2, <1>5, <1>6 DEF Asking
  <2> QED BY <2>1 DEF AInv, AInvAt, SameAlert
<1>10. \A q : Queued(q)' => Queued(q)
  BY <1>2, <1>3 DEF Queued
<1>11. TimerAlone(panel)'
  <2> SUFFICES ASSUME NEW q \in pendingTimers, panel'[q].awaiting PROVE ~panel'[q].late
    BY <1>3, <1>10 DEF AInv, AInvAt, TimerAlone
  <2>1. q \in Panels /\ panel[q].awaiting /\ ~Queued(q)
    BY <1>4 DEF AInv, AInvAt, TimerAlone, TypeOK
  <2>2. q # a.panel \/ a.reason # "awaiting"
    BY <2>1 DEF Queued
  <2> QED BY <1>4, <2>1, <2>2 DEF AInv, AInvAt, TimerAlone
<1>12. OldIsLate(panel)'
  BY <1>1, <1>2, <1>4, <1>6 DEF AInv, AInvAt, OldIsLate, TypeOK, Alert, Asking
<1>13. \A w : Spoken(w)' <=> Spoken(w)
  BY <1>3 DEF Spoken, Waits, Asking, WaitOf
<1>14. QueuedOrUnspoken(panel)'
  <2> SUFFICES ASSUME NEW q \in Panels, panel'[q].awaiting, ~panel'[q].late
               PROVE  \/ \E c \in Asking(alerts)' : c.panel = q /\ c.wait = panel'[q].wait
                      \/ ~Spoken(<<q, panel'[q].wait, life>>)
    BY <1>3, <1>13 DEF QueuedOrUnspoken
  <2>1. panel[q].awaiting /\ ~panel[q].late /\ panel[q].wait = panel'[q].wait
    BY <1>4
  <2>2. CASE \E c \in Asking(alerts) : c.panel = q /\ c.wait = panel[q].wait
    <3>1. PICK c \in Asking(alerts) : c.panel = q /\ c.wait = panel[q].wait
      BY <2>2
    <3>2. \E d \in Asking(alerts)' : d.panel = q /\ d.wait = panel[q].wait
      BY <1>2, <1>6, <3>1
    <3> QED BY <2>1, <3>2
  <2>3. CASE ~\E c \in Asking(alerts) : c.panel = q /\ c.wait = panel[q].wait
    BY <2>1, <2>3 DEF AInv, AInvAt, QueuedOrUnspoken
  <2> QED BY <2>2, <2>3
<1>15. BehindTheCursor'
  <2> SUFFICES ASSUME NEW c \in Asking(alerts)', WaitOf(c) \in banners
               PROVE  /\ helper.seeded => c.id <= helper.cursor
                      /\ \A r \in replies : ~helper.seeded => \E d \in r : c.id <= d.id
    BY <1>3 DEF BehindTheCursor, WaitOf
  <2>1. PICK e \in Asking(alerts) : e.id = c.id /\ WaitOf(e) = WaitOf(c)
    BY <1>2, <1>5, <1>6 DEF Asking
  <2> QED BY <2>1 DEF AInv, AInvAt, BehindTheCursor
<1>16. Unseeded' /\ NewsOnly' /\ ~repeated'
  BY <1>3 DEF AInv, AInvAt, Unseeded, NewsOnly, Waits, Asking, WaitOf
<1> QED BY <1>7, <1>8, <1>9, <1>11, <1>12, <1>14, <1>15, <1>16 DEF AInvAt

\* A server begins with an empty queue, and with a life no banner is of.
LEMMA ServerKeeps == ASSUME AInv, RestartServer PROVE AInvAt(panel)'
<1>1. /\ life' = life + 1 /\ alerts' = {} /\ pendingTimers' = {} /\ replies' = {}
      /\ UNCHANGED <<panel, helper, banners, repeated>>
  BY DEF RestartServer
<1>2. Asking(alerts)' = {}
  BY <1>1 DEF Asking
<1>3. Begun(panel)'
  BY <1>1 DEF AInv, AInvAt, Begun, TypeOK
<1>4. \A p \in Panels : ~Spoken(<<p, panel[p].wait, life>>)'
  BY <1>1 DEF AInv, AInvAt, Begun, TypeOK, Spoken
<1>5. QueuedOrUnspoken(panel)'
  BY <1>1, <1>4 DEF QueuedOrUnspoken
<1> QED BY <1>1, <1>2, <1>3, <1>5
        DEF AInv, AInvAt, OneQueued, NoneTwice, SameAlert, TimerAlone, OldIsLate,
            BehindTheCursor, Unseeded, NewsOnly

\* A helper begins with nothing heard and nothing on its way.
LEMMA HelperKeeps == ASSUME AInv, RestartHelper PROVE AInvAt(panel)'
<1>1. /\ ~helper'.seeded /\ helper'.cursor = -1 /\ replies' = {}
      /\ UNCHANGED <<panel, pendingTimers, alerts, life, banners, repeated>>
  BY DEF RestartHelper, queue
<1>2. \A w : Spoken(w)' => Spoken(w)
  BY <1>1 DEF Spoken
<1> QED BY <1>1, <1>2
        DEF AInv, AInvAt, Begun, OneQueued, NoneTwice, SameAlert, TimerAlone, OldIsLate, Queued,
            QueuedOrUnspoken, BehindTheCursor, Unseeded, NewsOnly, Asking, WaitOf

\* A lost answer is an answer less.
LEMMA LoseKeeps == ASSUME AInv, LoseReply PROVE AInvAt(panel)'
<1>1. /\ replies' = {}
      /\ UNCHANGED <<panel, pendingTimers, alerts, life, helper, banners, repeated>>
  BY DEF LoseReply, queue
<1>2. \A w : Spoken(w)' => Spoken(w)
  BY <1>1 DEF Spoken
<1> QED BY <1>1, <1>2
        DEF AInv, AInvAt, Begun, OneQueued, NoneTwice, SameAlert, TimerAlone, OldIsLate, Queued,
            QueuedOrUnspoken, BehindTheCursor, Unseeded, NewsOnly, Asking, WaitOf

\* An answer is what is listed beyond the cursor, and the list stays queued.
LEMMA PollKeeps == ASSUME AInv, Poll PROVE AInvAt(panel)'
<1> DEFINE r == {a \in Listed : a.id > helper.cursor}
<1>1. /\ replies = {} /\ replies' = {r} /\ alerts' = Listed
      /\ UNCHANGED <<panel, pendingTimers, life, helper, banners, repeated>>
  BY DEF Poll
<1>2. Listed \subseteq alerts /\ r \subseteq Listed
  BY DEF Listed
<1>3. /\ Asking(alerts)' \subseteq Asking(alerts)
      /\ Asking(r) \subseteq Asking(alerts) /\ Asking(r) \subseteq Asking(alerts)'
  BY <1>1, <1>2 DEF Asking
<1>4. Begun(panel)'
  BY <1>1, <1>2 DEF AInv, AInvAt, Begun
<1>5. OneQueued'
  BY <1>3 DEF AInv, AInvAt, OneQueued
<1>6. \A a, b \in Asking(alerts) : WaitOf(a) = WaitOf(b) => a = b
  BY DEF AInv, AInvAt, OneQueued, WaitOf
<1>7. NoneTwice' /\ SameAlert'
  <2>1. ~Twice(r)
    BY <1>3, <1>6 DEF Twice
  <2>2. \A a \in Asking(alerts)', b \in Asking(r) : WaitOf(a) = WaitOf(b) => a.id = b.id
    BY <1>3, <1>6
  <2> QED BY <1>1, <2>1, <2>2 DEF NoneTwice, SameAlert
<1>8. TimerAlone(panel)' /\ OldIsLate(panel)'
  BY <1>1, <1>2, <1>3 DEF AInv, AInvAt, TimerAlone, OldIsLate, Queued
<1>9. QueuedOrUnspoken(panel)'
  <2> SUFFICES ASSUME NEW q \in Panels, panel[q].awaiting, ~panel[q].late,
                      Spoken(<<q, panel[q].wait, life>>)'
               PROVE  \E a \in Asking(alerts)' : a.panel = q /\ a.wait = panel[q].wait
    BY <1>1 DEF QueuedOrUnspoken
  <2>1. \E a \in Asking(alerts) : a.panel = q /\ a.wait = panel[q].wait
    <3>1. CASE <<q, panel[q].wait, life>> \in banners
      BY <3>1 DEF AInv, AInvAt, QueuedOrUnspoken, Spoken
    <3>2. CASE <<q, panel[q].wait, life>> \in Waits(r)
      BY <1>3, <3>2 DEF Waits, WaitOf
    <3> QED BY <1>1, <3>1, <3>2 DEF Spoken
  <2>2. PICK a \in Asking(alerts) : a.panel = q /\ a.wait = panel[q].wait
    BY <2>1
  <2>3. ~a.old
    BY <2>2 DEF AInv, AInvAt, OldIsLate
  <2>4. a \in Asking(alerts)'
    BY <1>1, <2>2, <2>3 DEF Listed, Asking
  <2> QED BY <2>2, <2>4
<1>10. BehindTheCursor'
  <2> SUFFICES ASSUME NEW a \in Asking(alerts)', WaitOf(a) \in banners
               PROVE  /\ helper.seeded => a.id <= helper.cursor
                      /\ ~helper.seeded => \E b \in r : a.id <= b.id
    BY <1>1 DEF BehindTheCursor, WaitOf
  <2>1. helper.seeded => a.id <= helper.cursor
    BY <1>3 DEF AInv, AInvAt, BehindTheCursor
  <2>2. a \in Listed /\ a.id \in Nat
    BY <1>1, <1>2 DEF Asking, AInv, TypeOK, Alert
  <2>3. ~helper.seeded => a \in r
    BY <2>2 DEF AInv, AInvAt, Unseeded
  <2> QED BY <2>1, <2>2, <2>3
<1>11. NewsOnly'
  <2> SUFFICES ASSUME helper.seeded, NEW a \in Asking(r), WaitOf(a) \in banners PROVE FALSE
    BY <1>1 DEF NewsOnly, Waits, WaitOf
  <2>1. a.id <= helper.cursor /\ a.id > helper.cursor
    BY <1>3 DEF AInv, AInvAt, BehindTheCursor, Asking
  <2>2. a.id \in Int /\ helper.cursor \in Int
    BY <1>2, <1>3 DEF AInv, TypeOK, Alert, Asking
  <2> QED BY <2>1, <2>2
<1> QED BY <1>1, <1>4, <1>5, <1>7, <1>8, <1>9, <1>10, <1>11 DEF AInv, AInvAt, Unseeded

\* Its banners are the first of their waits, and it leaves the cursor behind them.
LEMMA DeliverKeeps == ASSUME AInv, Deliver PROVE AInvAt(panel)'
<1>1. PICK r \in replies :
          /\ IF helper.seeded
             THEN /\ banners' = banners \cup Waits(r)
                  /\ repeated' = (repeated \/ Twice(r) \/ Waits(r) \cap banners # {})
             ELSE UNCHANGED <<banners, repeated>>
          /\ \E last \in Heard(r) :
                /\ \A id \in Heard(r) : id <= last
                /\ helper' = [helper EXCEPT !.seeded = TRUE, !.cursor = last]
  BY DEF Deliver
<1>2. PICK last \in Heard(r) :
          /\ \A id \in Heard(r) : id <= last
          /\ helper' = [helper EXCEPT !.seeded = TRUE, !.cursor = last]
  BY <1>1
<1>3. replies' = {} /\ UNCHANGED <<panel, pendingTimers, alerts, life>>
  BY DEF Deliver, queue
<1>4. r \subseteq Alert /\ alerts \subseteq Alert /\ helper.cursor \in Int
  BY DEF AInv, TypeOK
<1>5. helper'.seeded /\ helper'.cursor = last /\ last \in Int
  BY <1>2, <1>4 DEF AInv, TypeOK, Heard, Alert
<1>6. helper.cursor <= last /\ \A a \in r : a.id <= last
  BY <1>2 DEF Heard
<1>7. banners \subseteq banners' /\ banners' \subseteq banners \cup Waits(r)
  BY <1>1
<1>8. ~repeated'
  BY <1>1 DEF AInv, AInvAt, NoneTwice, NewsOnly
<1>9. Begun(panel)'
  <2>1. \A w \in Waits(r) : w[2] <= panel[w[1]].wait /\ w[3] <= life
    BY <1>4 DEF AInv, AInvAt, Begun, Waits, WaitOf, Asking, TypeOK
  <2> QED BY <1>3, <1>7, <2>1 DEF AInv, AInvAt, Begun
<1>10. \A w : Spoken(w)' => Spoken(w)
  BY <1>3, <1>7 DEF Spoken
<1>11. BehindTheCursor'
  <2> SUFFICES ASSUME NEW a \in Asking(alerts), WaitOf(a) \in banners' PROVE a.id <= last
    BY <1>3, <1>5 DEF BehindTheCursor, WaitOf, Asking
  <2>1. a.id \in Int
    BY <1>4 DEF Asking, Alert
  <2>2. CASE WaitOf(a) \in Waits(r)
    <3>1. PICK b \in Asking(r) : WaitOf(a) = WaitOf(b)
      BY <2>2 DEF Waits
    <3>2. a.id = b.id /\ b \in r
      BY <3>1 DEF AInv, AInvAt, SameAlert, Asking
    <3> QED BY <1>6, <3>2
  <2>3. CASE WaitOf(a) \in banners
    <3>1. CASE helper.seeded
      <4>1. a.id <= helper.cursor
        BY <2>3, <3>1 DEF AInv, AInvAt, BehindTheCursor
      <4> QED BY <1>4, <1>5, <1>6, <2>1, <4>1
    <3>2. CASE ~helper.seeded
      <4>1. PICK b \in r : a.id <= b.id
        BY <2>3, <3>2 DEF AInv, AInvAt, BehindTheCursor
      <4>2. b.id \in Int /\ b.id <= last
        BY <1>4, <1>6 DEF Alert
      <4> QED BY <1>5, <2>1, <4>1, <4>2
    <3> QED BY <3>1, <3>2
  <2> QED BY <1>7, <2>2, <2>3
<1>12. QueuedOrUnspoken(panel)'
  BY <1>3, <1>10 DEF AInv, AInvAt, QueuedOrUnspoken, Asking
<1> QED BY <1>3, <1>5, <1>8, <1>9, <1>11, <1>12
        DEF AInv, AInvAt, OneQueued, NoneTwice, SameAlert, TimerAlone, OldIsLate, Queued,
            Unseeded, NewsOnly, Asking

LEMMA NextAInv == AInv /\ [Next]_vars => AInv'
<1> SUFFICES ASSUME AInv, [Next]_vars PROVE AInv'
  OBVIOUS
<1>1. TypeOK'
  BY NextTypeOK DEF AInv
<1>2. AInvAt(panel)'
  <2>1. CASE SetPrefs \/ UNCHANGED vars
    <3>1. UNCHANGED <<panel, pendingTimers, alerts, life, helper, replies, banners, repeated>>
      BY <2>1 DEF SetPrefs, vars, queue, delivery
    <3> QED BY <3>1 DEF AInv, AInvAt, Begun, OneQueued, NoneTwice, SameAlert, TimerAlone,
              OldIsLate, QueuedOrUnspoken, BehindTheCursor, Unseeded, NewsOnly, Spoken, Asking,
              Queued, Twice, Waits, WaitOf
  <2>2. CASE \E p \in Panels, isFresh \in BOOLEAN : Notify(p, isFresh)
    BY <2>2, NotifyKeeps
  <2>3. CASE \E p \in Panels : Answer(p) \/ Return(p) \/ Purge(p) \/ Remove(p)
    BY <2>3, PanelKeeps
  <2>4. CASE \E p \in Panels : Stop(p)
    BY <2>4, StopKeeps
  <2>5. CASE \E p \in Panels : TimerFires(p)
    BY <2>5, TimerKeeps
  <2>6. CASE \E a \in alerts : Expire(a)
    BY <2>6, ExpireKeeps
  <2>7. CASE RestartServer \/ RestartHelper \/ LoseReply
    BY <2>7, ServerKeeps, HelperKeeps, LoseKeeps
  <2>8. CASE Poll \/ Deliver
    BY <2>8, PollKeeps, DeliverKeeps
  <2> QED BY <2>1, <2>2, <2>3, <2>4, <2>5, <2>6, <2>7, <2>8 DEF Next
<1> QED BY <1>1, <1>2 DEF AInv

\* The invariant the banners rest on.
THEOREM AlertInvariant == Spec => []AInv
<1> QED BY InitAInv, NextAInv, PTL DEF Spec

\* No wait is announced twice in one life of the server, for any number of
\* panels, waits and restarts: what is queued of an announced wait is behind the
\* cursor or behind the answer that seeds it, and what is on its way to a helper
\* that listens is of waits not announced yet.
THEOREM OneBanner == Spec => []OneBannerPerWait
<1>1. AInv => OneBannerPerWait
  BY DEF AInv, AInvAt, OneBannerPerWait
<1> QED BY <1>1, AlertInvariant, PTL
=============================================================================
