----------------------------- MODULE MCTerminal -----------------------------
EXTENDS Terminal

CONSTANTS c1, me

Conns == {c1}
MyConns == [c \in Conns |-> me]
MixedChunks == {<<"wheel", "key">>, <<"quit">>}
=============================================================================
