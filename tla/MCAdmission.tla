---------------------------- MODULE MCAdmission ----------------------------
EXTENDS Admission

CONSTANTS c1, c2, c3, ip1

Conns == {c1, c2, c3}
OneSource == [c \in Conns |-> ip1]
\* The third connection finds the server full, the second one its source busy.
TwoPermits == [admission |-> 2, unauth |-> 2]
PermitsPerIp == [admission |-> 3, unauth |-> 1]
=============================================================================
