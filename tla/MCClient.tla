------------------------------ MODULE MCClient ------------------------------
(* Two channels, the first with three threads of which two are listed, the    *)
(* second with one; one conversation.                                         *)
EXTENDS Client

CONSTANTS c1, c2, t1, t2, t3, t4, d1

MCHome == [t \in Thread |-> IF t = t4 THEN c2 ELSE c1]
MCOrder == <<c1, c2>>
MCPosted == {<<>>, <<t1, t4>>, <<t1, t2, t4, t3>>}

=============================================================================
