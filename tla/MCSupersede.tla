---------------------------- MODULE MCSupersede ----------------------------
(* Two sessions of one project that may share a terminal, one of them with *)
(* a subagent, and /clear in either, read late or again after a restart.   *)
EXTENDS PanelLifecycle, TLC

CONSTANTS s1, s2, c1, g1, r1, r2, r3, r4

MCParents == {s1, s2}
MCSubagents == {c1}
MCParentOf == c1 :> s1
MCPaneOf == [s \in MCParents |-> g1]
MCProjectOf == [s \in MCParents |-> 0]
MCRecords == {r1, r2, r3, r4}
MCPanelOf == r1 :> s1 @@ r2 :> s1 @@ r3 :> s2 @@ r4 :> c1
MCClassOf == r1 :> "text" @@ r2 :> "text" @@ r3 :> "artifact" @@ r4 :> "checklist"
MCTsOf == r1 :> 0 @@ r2 :> 1 @@ r3 :> 0 @@ r4 :> 1
=============================================================================
