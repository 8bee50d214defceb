------------------------------ MODULE MCStorage ------------------------------
(* Servers and a migrator on no database, and on that of a release that     *)
(* lacks the counters and all that came after them.                         *)
EXTENDS Storage, TLC

MCReleased == {0, 5}
MCServersAlike == Permutations(Server)
=============================================================================
