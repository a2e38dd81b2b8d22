------------------------- MODULE MCCompanionClient -------------------------
(* Instances of CompanionClient for TLC: a refresh and two reviews. *)
EXTENDS CompanionClient, TLC

CONSTANTS refresh, review1, review2
=============================================================================
