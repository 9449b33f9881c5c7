------------------------------- MODULE MCAlerts -------------------------------
(* One panel, a user who mutes, and a switch to no grace at all.           *)
EXTENDS AlertQueue
CONSTANT p
MCPanels == {p}
Pref(on, turns, grace) == [on |-> on, turns |-> turns, grace |-> grace]
MCPrefs == {Pref(TRUE, TRUE, TRUE), Pref(FALSE, TRUE, TRUE), Pref(TRUE, FALSE, FALSE)}
=============================================================================
