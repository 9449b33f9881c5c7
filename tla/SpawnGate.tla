------------------------------ MODULE SpawnGate ------------------------------
(***************************************************************************)
(* The server's single chokepoint for child processes,                     *)
(* server/src/processes/spawnQueue.ts: execWithRetry, a retry loop around  *)
(* serializeSpawn, a counting semaphore made of a counter and a queue of   *)
(* callers parked on promises.                                             *)
(*                                                                         *)
(* JavaScript runs one caller at a time between two awaits, so a step here *)
(* is what runs between two awaits.  A finishing spawn does not hand its   *)
(* permit over: it resolves the promise of the first parked caller, which  *)
(* tests the counter again in a later microtask, and whoever calls in      *)
(* between finds the permit free.                                          *)
(***************************************************************************)
EXTENDS Integers, Sequences, FiniteSets

CONSTANTS
    Calls,                  \* invocations of execWithRetry
    MaxConcurrentSpawns,    \* MAX_CONCURRENT_SPAWNS
    Attempts                \* the `attempts` option of execWithRetry

ASSUME CallsAssumption == IsFiniteSet(Calls)
ASSUME PermitsAssumption == MaxConcurrentSpawns \in Nat \ {0}
ASSUME AttemptsAssumption == Attempts \in Nat \ {0}

VARIABLES
    phase,          \* where each invocation is
    attempt,        \* its loop counter `i`
    inFlight,       \* the permit counter
    spawnWaiters    \* the invocations parked on a promise, first in first out

vars == <<phase, attempt, inFlight, spawnWaiters>>

Phases == {"idle", "parked", "woken", "spawned", "backoff", "settled"}
In(ph) == {c \in Calls : phase[c] = ph}

----------------------------------------------------------------------------
(* serializeSpawn's loop test: park behind the others while the gate is    *)
(* full, take a permit and spawn otherwise.                                *)

Park(c) ==
    /\ inFlight >= MaxConcurrentSpawns
    /\ phase' = [phase EXCEPT ![c] = "parked"]
    /\ spawnWaiters' = Append(spawnWaiters, c)
    /\ UNCHANGED <<attempt, inFlight>>

Enter(c) ==
    /\ inFlight < MaxConcurrentSpawns
    /\ phase' = [phase EXCEPT ![c] = "spawned"]
    /\ inFlight' = inFlight + 1
    /\ UNCHANGED <<attempt, spawnWaiters>>

TestGate(c) == Park(c) \/ Enter(c)

(* A new invocation arrives; a parked one runs on after its promise was    *)
(* resolved; one that slept after a transient failure tries again.         *)
Call(c) == phase[c] = "idle" /\ TestGate(c)
Resume(c) == phase[c] = "woken" /\ TestGate(c)
Retry(c) == phase[c] = "backoff" /\ TestGate(c)

(* The `finally` of serializeSpawn, on every outcome: the permit returns   *)
(* and the first parked caller is woken.  Then execWithRetry returns,      *)
(* rethrows, or sleeps if the error is transient and attempts are left.    *)
AfterSpawnOnceMore(c, transient) ==                             \* mutant
    IF transient /\ attempt[c] < Attempts THEN "backoff" ELSE "settled"
AfterSpawn(c, transient) ==
    IF transient /\ attempt[c] < Attempts - 1 THEN "backoff" ELSE "settled"

WokenUp == IF spawnWaiters = <<>> THEN {} ELSE {Head(spawnWaiters)}

FinishQuietly(c, transient) ==                                  \* mutant
    /\ phase[c] = "spawned"
    /\ inFlight' = inFlight - 1
    /\ spawnWaiters' = IF transient \/ spawnWaiters = <<>> THEN spawnWaiters
                                                           ELSE Tail(spawnWaiters)
    /\ phase' = [d \in Calls |-> IF d = c THEN AfterSpawn(c, transient)
                                 ELSE IF ~transient /\ d \in WokenUp THEN "woken"
                                 ELSE phase[d]]
    /\ attempt' = [attempt EXCEPT ![c] = IF AfterSpawn(c, transient) = "backoff" THEN @ + 1 ELSE @]
Finish(c, transient) ==
    /\ phase[c] = "spawned"
    /\ inFlight' = inFlight - 1
    /\ spawnWaiters' = IF spawnWaiters = <<>> THEN <<>> ELSE Tail(spawnWaiters)
    /\ phase' = [d \in Calls |-> IF d = c THEN AfterSpawn(c, transient)
                                 ELSE IF d \in WokenUp THEN "woken"
                                 ELSE phase[d]]
    /\ attempt' = [attempt EXCEPT ![c] = IF AfterSpawn(c, transient) = "backoff" THEN @ + 1 ELSE @]

----------------------------------------------------------------------------
Init ==
    /\ phase = [c \in Calls |-> "idle"]
    /\ attempt = [c \in Calls |-> 0]
    /\ inFlight = 0
    /\ spawnWaiters = <<>>

Next ==
    \E c \in Calls :
        \/ Call(c)
        \/ Resume(c)
        \/ Retry(c)
        \/ \E transient \in BOOLEAN : Finish(c, transient)

Spec == Init /\ [][Next]_vars

(* Resolved promises and expired sleeps run; every child exits or is       *)
(* killed by its timeout.  Nothing obliges anyone to call.                 *)
Fairness ==
    \A c \in Calls :
        /\ WF_vars(Resume(c)) /\ WF_vars(Retry(c))
        /\ WF_vars(\E transient \in BOOLEAN : Finish(c, transient))
FairSpec == Spec /\ Fairness

----------------------------------------------------------------------------
(* Properties.                                                             *)

(* Every variable has its type.                                            *)
TypeOK ==
    /\ phase \in [Calls -> Phases]
    /\ attempt \in [Calls -> 0..(Attempts - 1)]
    /\ inFlight \in Int
    /\ spawnWaiters \in Seq(Calls)

(* The queue holds exactly the parked invocations, each once: no wake-up   *)
(* is spent on a caller that is not waiting, and no caller waits unseen.   *)
QueueIsTheParked ==
    /\ \A i \in 1..Len(spawnWaiters) : phase[spawnWaiters[i]] = "parked"
    /\ \A i, j \in 1..Len(spawnWaiters) : spawnWaiters[i] = spawnWaiters[j] => i = j
    /\ \A c \in In("parked") : \E i \in 1..Len(spawnWaiters) : spawnWaiters[i] = c

(* "<= MAX_CONCURRENT_SPAWNS at once", retries and barging callers         *)
(* included, and the counter is the number of live spawns.                 *)
GateHolds ==
    /\ inFlight = Cardinality(In("spawned"))
    /\ inFlight <= MaxConcurrentSpawns

(* A caller waits only while the permits are all taken or on their way to  *)
(* a woken caller: no permit sleeps while someone is parked.               *)
NoSleepingPermit ==
    spawnWaiters # <<>> => inFlight + Cardinality(In("woken")) >= MaxConcurrentSpawns

(* Every invocation that was made returns or throws in the end, however    *)
(* the others barge, fail and retry.                                       *)
EveryCallSettles == \A c \in Calls : phase[c] # "idle" ~> phase[c] = "settled"

(* The gate keeps the promise: whoever is parked, woken or asleep waits,   *)
(* and no step of the queue is anything but a step of the promise or none. *)
PromisedState ==
    [c \in Calls |-> CASE phase[c] = "idle" -> "idle"
                       [] phase[c] = "spawned" -> "running"
                       [] phase[c] = "settled" -> "settled"
                       [] OTHER -> "waiting"]
Promise == INSTANCE SpawnPromise
    WITH Permits <- MaxConcurrentSpawns, state <- PromisedState, retries <- attempt
KeepsThePromise == Promise!Spec
=============================================================================
