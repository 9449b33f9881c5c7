------------------------------ MODULE MCPanel ------------------------------
(* One session alone, under everything that can happen to a panel.         *)
EXTENDS PanelLifecycle, TLC

CONSTANTS s1, r1, r2, r3, r4

MCParents == {s1}
MCSubagents == {}
MCParentOf == <<>>
MCPaneOf == s1 :> NoPane
MCProjectOf == s1 :> 0
MCRecords == {r1, r2, r3, r4}
MCPanelOf == [r \in MCRecords |-> s1]
MCClassOf == r1 :> "text" @@ r2 :> "artifact" @@ r3 :> "usage" @@ r4 :> "meta"
MCTsOf == r1 :> 0 @@ r2 :> 1 @@ r3 :> 2 @@ r4 :> 1
=============================================================================
