--------------------------- MODULE SpawnGateProofs ---------------------------
(***************************************************************************)
(* Proofs about SpawnGate, for any number of invocations, permits and      *)
(* attempts.  The inductive invariant is the conjunction of the four       *)
(* invariants the run `gate` checks: the permit count is only right        *)
(* because the queue holds exactly the parked callers (so that the caller  *)
(* a finishing spawn wakes was not woken before), and a permit is only     *)
(* safe from sleeping because the count is right.                          *)
(***************************************************************************)
EXTENDS SpawnGate, FiniteSetTheorems, TLAPS

IInv == TypeOK /\ QueueIsTheParked /\ GateHolds /\ NoSleepingPermit

LEMMA Counted == \A ph : IsFiniteSet(In(ph)) /\ Cardinality(In(ph)) \in Nat
<1> TAKE ph
<1>1. In(ph) \in SUBSET Calls
  BY DEF In
<1> QED
  BY <1>1, CallsAssumption, FS_Subset, FS_CardinalityType

(* A caller parks: it leaves the phase it was in and joins the queue.      *)
LEMMA ParkStep ==
    ASSUME IInv, NEW c \in Calls, phase[c] \in {"idle", "woken", "backoff"}, Park(c)
    PROVE  IInv'
<1>1. /\ inFlight >= MaxConcurrentSpawns
      /\ phase' = [phase EXCEPT ![c] = "parked"]
      /\ spawnWaiters' = Append(spawnWaiters, c)
      /\ UNCHANGED <<attempt, inFlight>>
  BY DEF Park
<1>2. TypeOK /\ QueueIsTheParked /\ GateHolds
  BY DEF IInv
<1>3. In("spawned")' = In("spawned")
  BY <1>1, <1>2 DEF In, TypeOK
<1>4. TypeOK'
  BY <1>1, <1>2 DEF TypeOK, Phases
<1>5. /\ Len(spawnWaiters') = Len(spawnWaiters) + 1 /\ Len(spawnWaiters) \in Nat
      /\ \A i \in 1..Len(spawnWaiters) :
           spawnWaiters'[i] = spawnWaiters[i] /\ spawnWaiters[i] \in Calls
      /\ spawnWaiters'[Len(spawnWaiters) + 1] = c
  BY <1>1, <1>2 DEF TypeOK
<1>6. \A i \in 1..Len(spawnWaiters) : spawnWaiters[i] # c
  BY <1>2 DEF QueueIsTheParked
<1>7. QueueIsTheParked'
  <2>1. \A i \in 1..Len(spawnWaiters') : phase'[spawnWaiters'[i]] = "parked"
    BY <1>1, <1>2, <1>5 DEF QueueIsTheParked, TypeOK
  <2>2. \A i, j \in 1..Len(spawnWaiters') : spawnWaiters'[i] = spawnWaiters'[j] => i = j
    BY <1>2, <1>5, <1>6 DEF QueueIsTheParked
  <2>3. ASSUME NEW d \in Calls, phase'[d] = "parked"
        PROVE  \E i \in 1..Len(spawnWaiters') : spawnWaiters'[i] = d
    <3>1. CASE d = c
      BY <1>5, <3>1
    <3>2. CASE d # c
      <4>1. PICK i \in 1..Len(spawnWaiters) : spawnWaiters[i] = d
        BY <1>1, <1>2, <2>3, <3>2 DEF QueueIsTheParked, In, TypeOK
      <4>2. i \in 1..Len(spawnWaiters') /\ spawnWaiters'[i] = d
        BY <1>5, <4>1
      <4> QED
        BY <4>2
    <3> QED
      BY <3>1, <3>2
  <2> QED
    BY <2>1, <2>2, <2>3 DEF QueueIsTheParked, In
<1>8. GateHolds'
  BY <1>1, <1>2, <1>3 DEF GateHolds
<1>9. NoSleepingPermit'
  <2>1. In("woken")' \in SUBSET Calls
    BY DEF In
  <2>2. Cardinality(In("woken")') \in Nat
    BY <2>1, CallsAssumption, FS_Subset, FS_CardinalityType
  <2>3. inFlight' + Cardinality(In("woken")') >= MaxConcurrentSpawns
    BY <1>1, <1>2, <2>2, PermitsAssumption DEF TypeOK
  <2> QED
    BY <2>3 DEF NoSleepingPermit
<1> QED
  BY <1>4, <1>7, <1>8, <1>9 DEF IInv

(* A caller takes a free permit.                                           *)
LEMMA EnterStep ==
    ASSUME IInv, NEW c \in Calls, phase[c] \in {"idle", "woken", "backoff"}, Enter(c)
    PROVE  IInv'
<1>1. /\ inFlight < MaxConcurrentSpawns
      /\ phase' = [phase EXCEPT ![c] = "spawned"]
      /\ inFlight' = inFlight + 1
      /\ UNCHANGED <<attempt, spawnWaiters>>
  BY DEF Enter
<1>2. TypeOK /\ QueueIsTheParked /\ GateHolds /\ NoSleepingPermit
  BY DEF IInv
<1>3. In("spawned")' = In("spawned") \cup {c} /\ c \notin In("spawned")
  BY <1>1, <1>2 DEF In, TypeOK
<1>4. In("woken")' = In("woken") \ {c} /\ In("parked")' = In("parked")
  BY <1>1, <1>2 DEF In, TypeOK
<1>5. TypeOK'
  BY <1>1, <1>2 DEF TypeOK, Phases
<1>6. QueueIsTheParked'
  BY <1>1, <1>2, <1>4 DEF QueueIsTheParked, TypeOK
<1>7. GateHolds'
  <2>1. Cardinality(In("spawned")') = Cardinality(In("spawned")) + 1
    BY <1>3, Counted, FS_AddElement
  <2> QED
    BY <1>1, <1>2, <2>1, PermitsAssumption DEF GateHolds, TypeOK
<1>8. NoSleepingPermit'
  <2>1. Cardinality(In("woken")') \in Nat
        /\ Cardinality(In("woken")') >= Cardinality(In("woken")) - 1
    <3>1. IsFiniteSet(In("woken")) /\ Cardinality(In("woken")) \in Nat
      BY Counted
    <3>2. /\ IsFiniteSet(In("woken") \ {c})
          /\ \/ Cardinality(In("woken") \ {c}) = Cardinality(In("woken"))
             \/ Cardinality(In("woken") \ {c}) = Cardinality(In("woken")) - 1
      BY <3>1, FS_RemoveElement
    <3>3. Cardinality(In("woken") \ {c}) \in Nat
      BY <3>2, FS_CardinalityType
    <3> QED
      BY <1>4, <3>1, <3>2, <3>3
  <2> QED
    BY <1>1, <1>2, <2>1, Counted, PermitsAssumption DEF NoSleepingPermit, TypeOK
<1> QED
  BY <1>5, <1>6, <1>7, <1>8 DEF IInv

(* A spawn ends: its permit returns and the first parked caller, if there  *)
(* is one, counts among the woken from now on.                             *)
LEMMA FinishStep ==
    ASSUME IInv, NEW c \in Calls, NEW transient \in BOOLEAN, Finish(c, transient)
    PROVE  IInv'
<1> DEFINE after == AfterSpawn(c, transient)
<1>1. /\ phase[c] = "spawned"
      /\ inFlight' = inFlight - 1
      /\ spawnWaiters' = IF spawnWaiters = <<>> THEN <<>> ELSE Tail(spawnWaiters)
      /\ phase' = [d \in Calls |-> IF d = c THEN after
                                   ELSE IF d \in WokenUp THEN "woken" ELSE phase[d]]
      /\ attempt' = [attempt EXCEPT ![c] = IF after = "backoff" THEN @ + 1 ELSE @]
  BY DEF Finish
<1>2. TypeOK /\ QueueIsTheParked /\ GateHolds /\ NoSleepingPermit
  BY DEF IInv
<1>3. after \in {"backoff", "settled"}
  BY DEF AfterSpawn
<1>4. attempt' \in [Calls -> 0..(Attempts - 1)]
  BY <1>1, <1>2, AttemptsAssumption DEF AfterSpawn, TypeOK
<1> HIDE DEF after
<1>5. In("spawned")' = In("spawned") \ {c} /\ c \in In("spawned")
  <2>1. \A d \in WokenUp : d \in Calls /\ phase[d] = "parked"
    BY <1>2 DEF WokenUp, QueueIsTheParked, TypeOK
  <2> QED
    BY <1>1, <1>2, <1>3, <2>1 DEF In, TypeOK
<1>6. TypeOK'
  BY <1>1, <1>2, <1>3, <1>4 DEF TypeOK, Phases
<1>7. GateHolds'
  <2>1. Cardinality(In("spawned")') = Cardinality(In("spawned")) - 1
    BY <1>5, Counted, FS_RemoveElement
  <2> QED
    BY <1>1, <1>2, <2>1, PermitsAssumption DEF GateHolds, TypeOK
<1>8. CASE spawnWaiters = <<>>
  <2>1. spawnWaiters' = <<>> /\ WokenUp = {}
    BY <1>1, <1>8 DEF WokenUp
  <2>2. In("parked") = {}
    BY <1>2, <1>8 DEF QueueIsTheParked
  <2>3. In("parked")' = {}
    BY <1>1, <1>2, <1>3, <2>1, <2>2 DEF In, TypeOK
  <2>4. QueueIsTheParked'
    BY <2>1, <2>3 DEF QueueIsTheParked
  <2> QED
    BY <1>6, <1>7, <2>1, <2>4 DEF IInv, NoSleepingPermit
<1>9. CASE spawnWaiters # <<>>
  <2> DEFINE w == Head(spawnWaiters)
  <2>1. /\ WokenUp = {w} /\ w = spawnWaiters[1] /\ w \in Calls
        /\ Len(spawnWaiters) \in Nat \ {0}
        /\ Len(spawnWaiters') = Len(spawnWaiters) - 1
        /\ \A i \in 1..Len(spawnWaiters') :
             i + 1 \in 1..Len(spawnWaiters) /\ spawnWaiters'[i] = spawnWaiters[i + 1]
    BY <1>1, <1>2, <1>9 DEF WokenUp, TypeOK
  <2>2. phase[w] = "parked" /\ w # c
    BY <1>1, <1>2, <2>1 DEF QueueIsTheParked
  <2> HIDE DEF w
  <2>3. In("woken")' = In("woken") \cup {w} /\ w \notin In("woken")
    BY <1>1, <1>2, <1>3, <2>1, <2>2 DEF In, TypeOK
  <2>4. In("parked")' = In("parked") \ {w}
    BY <1>1, <1>2, <1>3, <2>1, <2>2 DEF In, TypeOK
  <2>5. QueueIsTheParked'
    <3>1. \A i \in 1..Len(spawnWaiters') :
            phase[spawnWaiters'[i]] = "parked" /\ spawnWaiters'[i] # w
              /\ spawnWaiters'[i] \in Calls
      <4> TAKE i \in 1..Len(spawnWaiters')
      <4>1. i + 1 \in 1..Len(spawnWaiters) /\ spawnWaiters'[i] = spawnWaiters[i + 1]
        BY <2>1
      <4>2. 1 \in 1..Len(spawnWaiters) /\ i + 1 # 1
        BY <2>1
      <4>3. spawnWaiters[i + 1] # spawnWaiters[1]
        BY <1>2, <4>1, <4>2 DEF QueueIsTheParked
      <4>4. spawnWaiters[i + 1] \in Calls
        BY <1>2, <4>1 DEF TypeOK
      <4> QED
        BY <1>2, <2>1, <4>1, <4>3, <4>4 DEF QueueIsTheParked
    <3>2. \A i \in 1..Len(spawnWaiters') : phase'[spawnWaiters'[i]] = "parked"
      BY <1>1, <2>1, <3>1
    <3>3. \A i, j \in 1..Len(spawnWaiters') : spawnWaiters'[i] = spawnWaiters'[j] => i = j
      BY <1>2, <2>1 DEF QueueIsTheParked
    <3>4. ASSUME NEW d \in In("parked")'
          PROVE  \E i \in 1..Len(spawnWaiters') : spawnWaiters'[i] = d
      <4>1. d \in In("parked") /\ d # w
        BY <2>4, <3>4
      <4>2. PICK j \in 1..Len(spawnWaiters) : spawnWaiters[j] = d
        BY <1>2, <4>1 DEF QueueIsTheParked
      <4>3. j # 1
        BY <2>1, <4>1, <4>2
      <4>4. j - 1 \in 1..Len(spawnWaiters') /\ spawnWaiters'[j - 1] = d
        BY <2>1, <4>2, <4>3
      <4> QED
        BY <4>4
    <3> QED
      BY <3>2, <3>3, <3>4 DEF QueueIsTheParked
  <2>6. NoSleepingPermit'
    <3>1. Cardinality(In("woken")') = Cardinality(In("woken")) + 1
      BY <2>3, Counted, FS_AddElement
    <3> QED
      BY <1>1, <1>2, <1>9, <3>1, Counted, PermitsAssumption DEF NoSleepingPermit, TypeOK
  <2> QED
    BY <1>6, <1>7, <2>5, <2>6 DEF IInv
<1> QED
  BY <1>8, <1>9

THEOREM InitHolds == Init => IInv
<1> SUFFICES ASSUME Init PROVE IInv
  OBVIOUS
<1>1. TypeOK
  <2>1. 0 \in 0..(Attempts - 1)
    BY AttemptsAssumption
  <2>2. attempt \in [Calls -> 0..(Attempts - 1)] /\ phase \in [Calls -> Phases]
    BY <2>1 DEF Init, Phases
  <2>3. spawnWaiters \in Seq(Calls)
    BY DEF Init
  <2>4. inFlight \in Int
    BY DEF Init
  <2> QED
    BY <2>2, <2>3, <2>4 DEF TypeOK
<1>2. In("spawned") = {} /\ In("parked") = {}
  BY DEF Init, In
<1>3. Cardinality(In("spawned")) = 0
  BY <1>2, FS_EmptySet
<1> QED
  BY <1>1, <1>2, <1>3, PermitsAssumption
     DEF IInv, Init, QueueIsTheParked, GateHolds, NoSleepingPermit

THEOREM StepHolds == IInv /\ [Next]_vars => IInv'
<1> SUFFICES ASSUME IInv, [Next]_vars PROVE IInv'
  OBVIOUS
<1>1. CASE Next
  <2>1. PICK c \in Calls :
          Call(c) \/ Resume(c) \/ Retry(c) \/ \E transient \in BOOLEAN : Finish(c, transient)
    BY <1>1 DEF Next
  <2>2. CASE Call(c) \/ Resume(c) \/ Retry(c)
    <3>1. phase[c] \in {"idle", "woken", "backoff"} /\ (Park(c) \/ Enter(c))
      BY <2>2 DEF Call, Resume, Retry, TestGate
    <3> QED
      BY <3>1, ParkStep, EnterStep
  <2>3. CASE \E transient \in BOOLEAN : Finish(c, transient)
    BY <2>3, FinishStep
  <2> QED
    BY <2>1, <2>2, <2>3
<1>2. CASE UNCHANGED vars
  BY <1>2 DEF IInv, vars, TypeOK, QueueIsTheParked, GateHolds, NoSleepingPermit, In
<1> QED
  BY <1>1, <1>2

(* The four invariants are inductive together.                             *)
THEOREM Inductive == Spec => []IInv
BY InitHolds, StepHolds, PTL DEF Spec

(* Every variable keeps its type; no invocation outruns its attempts.      *)
THEOREM TypeCorrect == Spec => []TypeOK
<1>1. IInv => TypeOK
  BY DEF IInv
<1> QED
  BY <1>1, Inductive, PTL

(* No more children at once than there are permits, whoever barges in.     *)
THEOREM GateCorrect == Spec => []GateHolds
<1>1. IInv => GateHolds
  BY DEF IInv
<1> QED
  BY <1>1, Inductive, PTL

(* No permit lies idle while a caller is parked: no wake-up is lost.       *)
THEOREM NoLostWakeUp == Spec => []NoSleepingPermit
<1>1. IInv => NoSleepingPermit
  BY DEF IInv
<1> QED
  BY <1>1, Inductive, PTL

(* The calls that run in the promise are those that hold a permit.         *)
LEMMA RunningIsSpawned == TypeOK => Promise!Running = In("spawned")
BY DEF TypeOK, Phases, PromisedState, Promise!Running, In

(* An idle gate is an idle promise.                                        *)
LEMMA InitRefines == Init => Promise!Init
BY DEF Init, PromisedState, Promise!Init

(* Parking is waiting, for who is not waiting already.                     *)
LEMMA ParkRefines ==
    ASSUME IInv, NEW c \in Calls, phase[c] \in {"idle", "woken", "backoff"}, Park(c)
    PROVE  Promise!Next \/ UNCHANGED Promise!vars
<1>1. TypeOK
  BY DEF IInv
<1>2. phase' = [phase EXCEPT ![c] = "parked"] /\ attempt' = attempt
  BY DEF Park
<1>3. CASE phase[c] = "idle"
  <2>1. PromisedState[c] = "idle"
    BY <1>3 DEF PromisedState
  <2>2. PromisedState' = [PromisedState EXCEPT ![c] = "waiting"]
    BY <1>1, <1>2 DEF PromisedState, TypeOK
  <2>3. Promise!Wait(c)
    BY <1>2, <2>1, <2>2 DEF Promise!Wait
  <2> QED
    BY <2>3 DEF Promise!Next
<1>4. CASE phase[c] \in {"woken", "backoff"}
  <2>1. PromisedState' = PromisedState
    BY <1>1, <1>2, <1>4 DEF PromisedState, TypeOK
  <2> QED
    BY <1>2, <2>1 DEF Promise!vars
<1> QED
  BY <1>3, <1>4

(* Taking a permit is running.                                             *)
LEMMA EnterRefines ==
    ASSUME IInv, NEW c \in Calls, phase[c] \in {"idle", "woken", "backoff"}, Enter(c)
    PROVE  Promise!Next
<1>1. TypeOK /\ GateHolds
  BY DEF IInv
<1>2. phase' = [phase EXCEPT ![c] = "spawned"] /\ attempt' = attempt
      /\ inFlight < MaxConcurrentSpawns
  BY DEF Enter
<1>3. PromisedState[c] \in {"idle", "waiting"}
  BY DEF PromisedState
<1>4. PromisedState' = [PromisedState EXCEPT ![c] = "running"]
  BY <1>1, <1>2 DEF PromisedState, TypeOK
<1>5. Promise!Cardinality(Promise!Running) < MaxConcurrentSpawns
  <2>1. Promise!Cardinality(Promise!Running) = Cardinality(Promise!Running)
    BY Zenon DEF Promise!Cardinality, Cardinality
  <2> QED
    BY <1>1, <1>2, <2>1, RunningIsSpawned DEF GateHolds
<1>6. Promise!Run(c)
  BY <1>2, <1>3, <1>4, <1>5 DEF Promise!Run
<1> QED
  BY <1>6 DEF Promise!Next

(* A spawn that ends settles its call or sends it back to wait; the caller *)
(* it wakes goes on waiting.                                               *)
LEMMA FinishRefines ==
    ASSUME IInv, NEW c \in Calls, NEW transient \in BOOLEAN, Finish(c, transient)
    PROVE  Promise!Next
<1>1. TypeOK /\ QueueIsTheParked
  BY DEF IInv
<1>2. phase[c] = "spawned"
  BY DEF Finish
<1>3. phase' = [d \in Calls |-> IF d = c THEN AfterSpawn(c, transient)
                                ELSE IF d \in WokenUp THEN "woken" ELSE phase[d]]
      /\ attempt' = [attempt EXCEPT ![c] = IF AfterSpawn(c, transient) = "backoff"
                                           THEN @ + 1 ELSE @]
  BY DEF Finish
<1>4. \A d \in WokenUp : phase[d] = "parked"
  <2>1. CASE spawnWaiters = <<>>
    BY <2>1 DEF WokenUp
  <2>2. CASE spawnWaiters # <<>>
    <3>1. 1 \in 1..Len(spawnWaiters) /\ Head(spawnWaiters) = spawnWaiters[1]
      BY <1>1, <2>2 DEF TypeOK
    <3> QED
      BY <1>1, <2>2, <3>1 DEF WokenUp, QueueIsTheParked
  <2> QED
    BY <2>1, <2>2
<1>5. PromisedState[c] = "running"
  BY <1>2 DEF PromisedState
<1>6. \A d \in Calls : d # c => PromisedState'[d] = PromisedState[d]
  BY <1>1, <1>3, <1>4 DEF PromisedState, TypeOK
<1>7. CASE AfterSpawn(c, transient) = "backoff"
  <2>1. attempt[c] + 1 < Attempts
    BY <1>1, <1>7, AttemptsAssumption DEF AfterSpawn, TypeOK
  <2>2. attempt' = [attempt EXCEPT ![c] = @ + 1]
    BY <1>3, <1>7
  <2>3. PromisedState'[c] = "waiting"
    BY <1>3, <1>7 DEF PromisedState
  <2>4. PromisedState' = [PromisedState EXCEPT ![c] = "waiting"]
    BY <1>6, <2>3 DEF PromisedState
  <2>5. Promise!RunAgain(c)
    BY <1>5, <2>1, <2>2, <2>4 DEF Promise!RunAgain
  <2> QED
    BY <2>5 DEF Promise!Next
<1>8. CASE AfterSpawn(c, transient) = "settled"
  <2>1. attempt' = attempt
    BY <1>1, <1>3, <1>8 DEF TypeOK
  <2>2. PromisedState'[c] = "settled"
    BY <1>3, <1>8 DEF PromisedState
  <2>3. PromisedState' = [PromisedState EXCEPT ![c] = "settled"]
    BY <1>6, <2>2 DEF PromisedState
  <2>4. Promise!Settle(c)
    BY <1>5, <2>1, <2>3 DEF Promise!Settle
  <2> QED
    BY <2>4 DEF Promise!Next
<1> QED
  BY <1>7, <1>8 DEF AfterSpawn

(* Every step of the gate is a step of the promise, or none.               *)
LEMMA StepRefines == IInv /\ [Next]_vars => [Promise!Next]_(Promise!vars)
<1> SUFFICES ASSUME IInv, [Next]_vars
             PROVE  Promise!Next \/ UNCHANGED Promise!vars
  OBVIOUS
<1>1. CASE UNCHANGED vars
  BY <1>1 DEF vars, Promise!vars, PromisedState
<1>2. ASSUME NEW c \in Calls, Call(c) \/ Resume(c) \/ Retry(c)
      PROVE  Promise!Next \/ UNCHANGED Promise!vars
  <2>1. phase[c] \in {"idle", "woken", "backoff"} /\ (Park(c) \/ Enter(c))
    BY <1>2 DEF Call, Resume, Retry, TestGate
  <2> QED
    BY <2>1, ParkRefines, EnterRefines
<1>3. ASSUME NEW c \in Calls, NEW transient \in BOOLEAN, Finish(c, transient)
      PROVE  Promise!Next
  BY <1>3, FinishRefines
<1> QED
  BY <1>1, <1>2, <1>3 DEF Next

(* The gate keeps the promise: every behaviour of the semaphore, its queue *)
(* of parked promises and its retry loop is one of a gate that admits at   *)
(* most MaxConcurrentSpawns calls and runs each at most Attempts times.    *)
THEOREM PromiseKept == Spec => KeepsThePromise
<1>1. Init => Promise!Init
  BY InitRefines
<1>2. IInv /\ [Next]_vars => [Promise!Next]_(Promise!vars)
  BY StepRefines
<1>3. Spec => []IInv
  BY Inductive
<1> QED
  BY <1>1, <1>2, <1>3, PTL DEF Spec, KeepsThePromise, Promise!Spec
=============================================================================
