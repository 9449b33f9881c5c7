------------------------------ MODULE MCSearch ------------------------------
(* One transcript, whose root is configured, taken away or added, and one  *)
(* call at a time.                                                         *)
EXTENDS SearchWorker
CONSTANTS f1, r1, c1
MCRootOf == [f \in Files |-> r1]
=============================================================================
