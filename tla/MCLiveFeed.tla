----------------------------- MODULE MCLiveFeed -----------------------------
(* Sessions of one account, which share its entry of the label cache. *)
EXTENDS LiveFeed

CONSTANT Me

MCAccountOf == [s \in Session |-> Me]
=============================================================================
