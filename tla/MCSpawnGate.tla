----------------------------- MODULE MCSpawnGate -----------------------------
(* An instance of SpawnGate: two permits, two attempts per invocation,     *)
(* five invocations, so that three callers can be parked at once, a woken  *)
(* one overtaken and parked again, and a retry met by a full gate.         *)
EXTENDS SpawnGate
=============================================================================
