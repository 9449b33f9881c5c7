------------------------------- MODULE MCTitle --------------------------------
(* One panel, one proposal.                                                *)
EXTENDS PanelTitle
CONSTANT proposal
MCProposals == {proposal}
=============================================================================
