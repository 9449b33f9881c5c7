------------------------------ MODULE MCHookTail ------------------------------
(* An instance of HookTail: two drains that overlap, up to four pieces (so *)
(* that a torn line has whole ones on both sides), one restart.            *)
EXTENDS HookTail
=============================================================================
