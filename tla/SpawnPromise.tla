----------------------------- MODULE SpawnPromise -----------------------------
(***************************************************************************)
(* What execWithRetry promises its callers, with no queue, no wake-ups and *)
(* no counter: a call waits until it runs, at most Permits run at a time,  *)
(* and a call runs again after a transient failure, at most Attempts times *)
(* in all.  SpawnGate implements it.                                       *)
(***************************************************************************)
EXTENDS Integers, FiniteSets

CONSTANTS Calls, Permits, Attempts

VARIABLES
    state,      \* idle, waiting, running, settled
    retries     \* how often each call was sent back to wait

vars == <<state, retries>>

Running == {c \in Calls : state[c] = "running"}

Init ==
    /\ state = [c \in Calls |-> "idle"]
    /\ retries = [c \in Calls |-> 0]

Wait(c) ==
    /\ state[c] = "idle"
    /\ state' = [state EXCEPT ![c] = "waiting"]
    /\ UNCHANGED retries

Run(c) ==
    /\ state[c] \in {"idle", "waiting"}
    /\ Cardinality(Running) < Permits
    /\ state' = [state EXCEPT ![c] = "running"]
    /\ UNCHANGED retries

RunAgain(c) ==
    /\ state[c] = "running"
    /\ retries[c] + 1 < Attempts
    /\ state' = [state EXCEPT ![c] = "waiting"]
    /\ retries' = [retries EXCEPT ![c] = @ + 1]

Settle(c) ==
    /\ state[c] = "running"
    /\ state' = [state EXCEPT ![c] = "settled"]
    /\ UNCHANGED retries

Next == \E c \in Calls : Wait(c) \/ Run(c) \/ RunAgain(c) \/ Settle(c)

Spec == Init /\ [][Next]_vars
=============================================================================
