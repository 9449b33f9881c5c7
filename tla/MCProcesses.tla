----------------------------- MODULE MCProcesses -----------------------------
(* A claude process whose pid is given out twice, and a process it may     *)
(* start, which may outlive it.                                            *)
EXTENDS ProcessTracker
CONSTANTS c, d, s1
MCPids == {c, d}
MCSessions == {s1}
MCLives == [p \in MCPids |-> IF p = c THEN 2 ELSE 1]
MCClaudes == {<<c, 1>>}
MCStarters == [id \in Ids |-> IF id[1] = d THEN {c} ELSE {NoPid}]
MCBackgrounds == {<<d, 1>>}
MCBrief == {<<d, 1>>}
MCBinders == {<<c, 2>>}
MCNear == [id \in Ids |-> IF id = <<d, 1>> THEN {s1} ELSE {}]
=============================================================================
