------------------------------- MODULE MCTail -------------------------------
(* One transcript, which may be older than the bootstrap window.           *)
EXTENDS TranscriptTail
CONSTANT f1
MCFiles == {f1}
MCOld == {f1}
=============================================================================
