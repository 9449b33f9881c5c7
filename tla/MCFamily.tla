------------------------------ MODULE MCFamily ------------------------------
(* One session with one subagent: the lifecycle of a family.               *)
EXTENDS PanelLifecycle, TLC

CONSTANTS s1, c1, r1, r2, r3, r4

MCParents == {s1}
MCSubagents == {c1}
MCParentOf == c1 :> s1
MCPaneOf == s1 :> NoPane
MCProjectOf == s1 :> 0
MCRecords == {r1, r2, r3, r4}
MCPanelOf == r1 :> s1 @@ r2 :> s1 @@ r3 :> c1 @@ r4 :> c1
MCClassOf == r1 :> "text" @@ r2 :> "meta_text" @@ r3 :> "text" @@ r4 :> "checklist"
MCTsOf == r1 :> 0 @@ r2 :> 1 @@ r3 :> 1 @@ r4 :> 9
=============================================================================
