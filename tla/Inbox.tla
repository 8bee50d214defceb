------------------------------- MODULE Inbox --------------------------------
(***************************************************************************)
(* What the unread counters of a direct conversation promise: each member  *)
(* has a set of unread messages, and its badge is the size of the set: the *)
(* number the list shows unless the member mutes the conversation.         *)
(* Messages are numbered in the order they are sent and may be withdrawn.  *)
(***************************************************************************)
EXTENDS Integers, FiniteSets

CONSTANT Member

VARIABLES
    last,      \* number of the last message sent
    live,      \* the messages sent and not withdrawn
    unread,    \* for each member the messages that wait for it
    badge      \* for each member the number of its unread messages

vars == <<last, live, unread, badge>>

ShowBadges == badge' = [m \in Member |-> Cardinality(unread'[m])]

Init ==
    /\ last = 0
    /\ live = {}
    /\ unread = [m \in Member |-> {}]
    /\ badge = [m \in Member |-> 0]

\* Whoever sends has read the conversation; everybody else has one more to read.
Send(m) ==
    /\ last' = last + 1
    /\ live' = live \cup {last + 1}
    /\ unread' = [n \in Member |-> IF n = m THEN {} ELSE unread[n] \cup {last + 1}]
    /\ ShowBadges

\* A withdrawn message waits for nobody.
Withdraw(i) ==
    /\ i \in live
    /\ live' = live \ {i}
    /\ unread' = [n \in Member |-> unread[n] \ {i}]
    /\ ShowBadges
    /\ UNCHANGED last

Read(m) ==
    /\ unread' = [unread EXCEPT ![m] = {}]
    /\ ShowBadges
    /\ UNCHANGED <<last, live>>

\* Only the last message becomes unread again, if it was not withdrawn.
Unread(m) ==
    /\ unread' = [unread EXCEPT ![m] = live \cap {last}]
    /\ ShowBadges
    /\ UNCHANGED <<last, live>>

Next ==
    \/ \E m \in Member : Send(m) \/ Read(m) \/ Unread(m)
    \/ \E i \in live : Withdraw(i)

Spec == Init /\ [][Next]_vars
=============================================================================
