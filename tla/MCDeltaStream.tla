---------------------------- MODULE MCDeltaStream ----------------------------
(* Instances of DeltaStream: a live window of two events, cut by one; a    *)
(* snapshot of one event and a reseed of two; a server list of two, which  *)
(* an automatic title makes three.  Three events overflow every cap.       *)
EXTENDS DeltaStream

EveryHandler == {"ingest", "refresh", "title", "tick", "force", "bin", "purge",
                 "rebuild", "age"}
=============================================================================
