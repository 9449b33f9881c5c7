------------------------------- MODULE MCClear -------------------------------
(* One claude process and two sessions: the user types /clear.             *)
EXTENDS ProcessTracker
CONSTANTS c, s1, s2
MCPids == {c}
MCSessions == {s1, s2}
MCLives == [p \in MCPids |-> 1]
MCStarters == [id \in Ids |-> {NoPid}]
MCNear == [id \in Ids |-> {}]
=============================================================================
