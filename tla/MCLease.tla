------------------------------ MODULE MCLease -------------------------------
(* Servers and migrators with a node id each. *)
EXTENDS Lease

MCOwnIds == [p \in Process |-> p]
=============================================================================
