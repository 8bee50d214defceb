------------------------- MODULE ConversationProofs -------------------------
(***************************************************************************)
(* Theorems about Conversation, for any number of messages: the counters   *)
(* are exact, and the tables implement the sets of unread messages that    *)
(* Inbox describes.                                                        *)
(***************************************************************************)
EXTENDS Conversation, FiniteSetTheorems, TLAPS

LastRead(m) == conversation_members[m].last_read_index
Count(m) == conversation_members[m].unread_count

After(live, index) == {i \in live : i > index}

\* The counter of m is exact, and m has not read past the last message.
Exact(m) ==
    /\ Count(m) = Cardinality(After(Live, LastRead(m)))
    /\ LastRead(m) <= last_message_index

UnreadInv == TypeOK /\ \A m \in Member : Exact(m)

-----------------------------------------------------------------------------
(* Every reachable state of the tables is well-formed.                     *)
LEMMA InitTypeOK == Init => TypeOK
<1> SUFFICES ASSUME Init PROVE TypeOK
  OBVIOUS
<1>1. last_message_index \in Nat /\ 1..last_message_index = {}
  BY DEF Init
<1>2. messages \in [1..last_message_index -> MessageRow]
  BY <1>1 DEF Init
<1>3. conversation_members \in [Member -> MemberRow]
  BY DEF Init, NewMember, MemberRow
<1> QED
  BY <1>1, <1>2, <1>3 DEF Init, TypeOK

LEMMA LiveFinite ==
  ASSUME TypeOK
  PROVE  /\ Live \subseteq 1..last_message_index
         /\ IsFiniteSet(Live)
         /\ \A i \in Int : IsFiniteSet(UnreadAfter(i)) /\ Cardinality(UnreadAfter(i)) \in Nat
<1>1. Live \subseteq 1..last_message_index /\ last_message_index \in Int
  BY DEF TypeOK, Live
<1>2. IsFiniteSet(1..last_message_index)
  BY <1>1, FS_Interval
<1>3. IsFiniteSet(Live)
  BY <1>1, <1>2, FS_Subset
<1>4. ASSUME NEW i \in Int
      PROVE  IsFiniteSet(UnreadAfter(i)) /\ Cardinality(UnreadAfter(i)) \in Nat
  BY <1>3, UnreadAfter(i) \in SUBSET Live, FS_Subset, FS_CardinalityType DEF UnreadAfter
<1> QED
  BY <1>1, <1>3, <1>4

LEMMA NotifiedType ==
  ASSUME NEW actor, NEW kind \in {"dm", "mention"}, NEW index \in Nat,
         NEW accounts, accounts \subseteq Member
  PROVE  Notified(actor, kind, index, accounts) \subseteq NotificationRow
<1> SUFFICES ASSUME NEW x \in Notified(actor, kind, index, accounts)
             PROVE  x \in NotificationRow
  OBVIOUS
<1>1. PICK m \in accounts : x = [account |-> m, kind |-> kind, obj_index |-> index,
                                 read |-> FALSE, archived |-> FALSE]
  BY DEF Notified
<1> QED
  BY <1>1 DEF NotificationRow

LEMMA ReadAlertsType ==
  ASSUME TypeOK, NEW m \in Member, ReadAlerts(m)
  PROVE  notifications' \subseteq NotificationRow /\ mentions' \subseteq MentionRow
<1>1. ASSUME NEW x \in notifications' PROVE x \in NotificationRow
  <2>1. PICK n \in notifications : x = n \/ x = [n EXCEPT !.read = TRUE]
    BY DEF ReadAlerts
  <2> QED
    BY <2>1 DEF TypeOK, NotificationRow
<1>2. ASSUME NEW x \in mentions' PROVE x \in MentionRow
  <2>1. PICK n \in mentions : x = n \/ x = [n EXCEPT !.read = TRUE]
    BY DEF ReadAlerts
  <2> QED
    BY <2>1 DEF TypeOK, MentionRow
<1> QED
  BY <1>1, <1>2

LEMMA CounterSteps ==
  ASSUME NEW row \in MemberRow
  PROVE  /\ [row EXCEPT !.unread_count = @ + 1] \in MemberRow
         /\ row.unread_count > 0 => [row EXCEPT !.unread_count = @ - 1] \in MemberRow
<1>1. row.unread_count + 1 \in Nat
  BY DEF MemberRow
<1>2. row.unread_count > 0 => row.unread_count - 1 \in Nat
  BY DEF MemberRow
<1> QED
  BY <1>1, <1>2 DEF MemberRow

LEMMA NextTypeOK == TypeOK /\ [Next]_vars => TypeOK'
<1> SUFFICES ASSUME TypeOK, [Next]_vars PROVE TypeOK'
  OBVIOUS
<1> USE DEF TypeOK, MessageRow, MemberRow, NotificationRow, MentionRow, alerts
<1>1. ASSUME NEW m \in Member, OpenDm(m) PROVE TypeOK'
  BY <1>1 DEF OpenDm, NewMember
<1>2. ASSUME NEW m \in Member, NEW body \in Body, SendDm(m, body) PROVE TypeOK'
  <2>1. body \subseteq Member
    BY BodiesMention
  <2>2. /\ messages' \in [1..last_message_index' -> MessageRow]
        /\ last_message_index' \in Nat
    BY <1>2 DEF SendDm, DmCreated
  <2>3. conversation_members' \in [Member -> MemberRow]
    <3>1. ASSUME NEW n \in Member
          PROVE  CountMessage(m, last_message_index + 1)[n] \in MemberRow
      <4>1. conversation_members[n] \in MemberRow
        OBVIOUS
      <4>2. CASE n = m
        BY <4>1, <4>2, last_message_index + 1 \in Nat \cup {-1} DEF CountMessage, WithRead
      <4>3. CASE n # m
        BY <4>1, <4>3, CounterSteps DEF CountMessage
      <4> QED
        BY <4>2, <4>3
    <3>2. conversation_members' = CountMessage(m, last_message_index + 1)
      BY <1>2 DEF SendDm, DmCreated
    <3> QED
      BY <3>1, <3>2 DEF CountMessage
  <2>4. notifications' \subseteq NotificationRow
    BY <1>2, <2>1, NotifiedType, last_message_index + 1 \in Nat DEF SendDm, DmCreated
  <2>5. mentions' \subseteq MentionRow
    <3>1. ASSUME NEW x \in mentions' PROVE x \in MentionRow
      <4>1. CASE x \in mentions
        BY <4>1
      <4>2. CASE x \notin mentions
        <5>1. PICK n \in body : x = [account |-> n, obj_index |-> last_message_index + 1,
                                     read |-> FALSE]
          BY <1>2, <4>2 DEF SendDm, DmCreated
        <5> QED
          BY <5>1, <2>1, last_message_index + 1 \in Nat
      <4> QED
        BY <4>1, <4>2
    <3> QED
      BY <3>1
  <2> QED
    BY <1>2, <2>2, <2>3, <2>4, <2>5 DEF SendDm, DmCreated
<1>3. ASSUME NEW m \in Member, NEW i \in Live, SoftDeleteDm(m, i) PROVE TypeOK'
  <2>1. \A n \in Member : UncountMessage(i)[n] \in MemberRow
    BY CounterSteps DEF UncountMessage
  <2>2. conversation_members' \in [Member -> MemberRow]
    BY <1>3, <2>1 DEF SoftDeleteDm, UncountMessage
  <2>3. messages' \in [1..last_message_index -> MessageRow]
    <3>1. messages \in [1..last_message_index -> MessageRow] /\ i \in 1..last_message_index
      BY <1>3 DEF Live
    <3>2. [messages[i] EXCEPT !.deleted = TRUE] \in MessageRow
      BY <3>1 DEF MessageRow
    <3>3. messages' = [messages EXCEPT ![i] = [messages[i] EXCEPT !.deleted = TRUE]]
      BY <1>3 DEF SoftDeleteDm
    <3> QED BY ONLY <3>1, <3>2, <3>3
  <2> QED
    BY <1>3, <2>2, <2>3 DEF SoftDeleteDm
<1>4. ASSUME NEW m \in Member, MarkConversationRead(m) PROVE TypeOK'
  <2>1. notifications' \subseteq NotificationRow /\ mentions' \subseteq MentionRow
    BY <1>4, ReadAlertsType DEF MarkConversationRead
  <2> QED
    BY <1>4, <2>1, last_message_index \in Nat \cup {-1}
       DEF MarkConversationRead, WithRead
<1>5. ASSUME NEW m \in Member, MarkConversationUnread(m) PROVE TypeOK'
  <2>1. Cardinality(UnreadAfter(last_message_index - 1)) \in Nat
    BY LiveFinite
  <2>2. last_message_index - 1 \in Nat \cup {-1}
    OBVIOUS
  <2> QED
    BY <1>5, <2>1, <2>2 DEF MarkConversationUnread, WithRead
<1>6. ASSUME NEW m \in Member, NEW muted \in BOOLEAN, SetConversationMuted(m, muted)
      PROVE TypeOK'
  BY <1>6 DEF SetConversationMuted
<1>7. ASSUME NEW m \in Member, MuteExpires(m) PROVE TypeOK'
  BY <1>7 DEF MuteExpires
<1>8. ASSUME NEW m \in Member, NEW chosen, MarkNotificationRead(m, chosen) PROVE TypeOK'
  <2>1. ASSUME NEW x \in notifications' PROVE x \in NotificationRow
    <3>1. PICK n \in notifications : x = n \/ x = [n EXCEPT !.read = TRUE]
      BY <1>8 DEF MarkNotificationRead
    <3> QED
      BY <3>1
  <2> QED
    BY <1>8, <2>1 DEF MarkNotificationRead
<1>9. ASSUME NEW m \in Member, ArchiveNotifications(m) PROVE TypeOK'
  <2>1. ASSUME NEW x \in notifications' PROVE x \in NotificationRow
    <3>1. PICK n \in notifications : x = n \/ x = [n EXCEPT !.archived = TRUE]
      BY <1>9 DEF ArchiveNotifications
    <3> QED
      BY <3>1
  <2> QED
    BY <1>9, <2>1 DEF ArchiveNotifications
<1>10. ASSUME NEW m \in Member, NEW isDisabled \in BOOLEAN, SetUserDisabled(m, isDisabled)
       PROVE TypeOK'
  BY <1>10 DEF SetUserDisabled
<1>11. CASE UNCHANGED vars
  BY <1>11 DEF vars
<1> QED
  BY <1>1, <1>2, <1>3, <1>4, <1>5, <1>6, <1>7, <1>8, <1>9, <1>10, <1>11 DEF Next

THEOREM TypeCorrect == Spec => []TypeOK
  BY InitTypeOK, NextTypeOK, PTL DEF Spec

-----------------------------------------------------------------------------
(* The live messages after an index, before and after each step.           *)

LEMMA SendSets ==
  ASSUME TypeOK, NEW m \in Member, NEW body \in Body, SendDm(m, body)
  PROVE  /\ last_message_index + 1 \notin Live
         /\ Live' = Live \cup {last_message_index + 1}
<1> DEFINE index == last_message_index + 1
<1>1. index \notin Live
  BY DEF TypeOK, Live
<1>2. /\ DOMAIN messages = 1..last_message_index
      /\ DOMAIN messages' = 1..index
      /\ 1..index = 1..last_message_index \cup {index}
      /\ messages'[index] = [author |-> m, deleted |-> FALSE]
      /\ \A i \in 1..last_message_index : messages'[i] = messages[i]
  BY DEF TypeOK, SendDm, DmCreated
<1>3. Live' = Live \cup {index}
  BY <1>2 DEF Live
<1> QED
  BY <1>1, <1>3

LEMMA DeleteSets ==
  ASSUME TypeOK, NEW m \in Member, NEW index \in Live, SoftDeleteDm(m, index)
  PROVE  Live' = Live \ {index}
  BY DEF TypeOK, SoftDeleteDm, Live, MessageRow

LEMMA LiveAfter ==
  ASSUME TypeOK
  PROVE  /\ \A i \in Live : i \in Int /\ i <= last_message_index
         /\ \A i \in Int : IsFiniteSet(After(Live, i))
         /\ \A i : UnreadAfter(i) = After(Live, i)
         /\ After(Live, last_message_index) = {}
         /\ After(Live, last_message_index - 1) = Live \cap {last_message_index}
<1>1. last_message_index \in Nat /\ Live \subseteq 1..last_message_index
  BY LiveFinite DEF TypeOK
<1>2. \A i \in Live : i \in Int /\ i <= last_message_index
  BY <1>1
<1>3. \A i \in Live : i > last_message_index - 1 <=> i = last_message_index
  BY <1>1, <1>2
<1>4. \A i : UnreadAfter(i) = After(Live, i)
  BY DEF UnreadAfter, After
<1>5. \A i \in Live : ~(i > last_message_index)
  BY <1>1, <1>2
<1>6. After(Live, last_message_index) = {}
  BY <1>5 DEF After
<1>7. After(Live, last_message_index - 1) = Live \cap {last_message_index}
  BY <1>3 DEF After
<1> QED
  BY <1>2, <1>4, <1>6, <1>7, LiveFinite

LEMMA InitUnreadInv == Init => UnreadInv
<1> SUFFICES ASSUME Init PROVE UnreadInv
  OBVIOUS
<1>1. TypeOK
  BY InitTypeOK
<1>2. Cardinality(After(Live, 0)) = 0
  <2>1. DOMAIN messages = {}
    BY DEF Init
  <2>2. After(Live, 0) = {}
    BY <2>1 DEF After, Live
  <2> QED
    BY <2>2, FS_EmptySet
<1>3. \A m \in Member : LastRead(m) = 0 /\ Count(m) = 0
  BY DEF Init, NewMember, LastRead, Count
<1> QED
  BY <1>1, <1>2, <1>3 DEF UnreadInv, Exact, Init

LEMMA NextUnreadInv == UnreadInv /\ [Next]_vars => UnreadInv'
<1> SUFFICES ASSUME UnreadInv, [Next]_vars PROVE UnreadInv'
  OBVIOUS
<1>1. TypeOK /\ TypeOK'
  BY NextTypeOK DEF UnreadInv
<1>2. SUFFICES ASSUME NEW n \in Member PROVE Exact(n)'
  BY <1>1 DEF UnreadInv
<1>3. /\ last_message_index \in Nat
      /\ LastRead(n) \in Int /\ Count(n) \in Nat
      /\ Count(n) = Cardinality(After(Live, LastRead(n)))
      /\ LastRead(n) <= last_message_index
  BY <1>1 DEF UnreadInv, Exact, TypeOK, MemberRow, LastRead, Count
<1>4. ASSUME messages' = messages, last_message_index' = last_message_index,
             LastRead(n)' = LastRead(n), Count(n)' = Count(n)
      PROVE  Exact(n)'
  <2>1. Live' = Live
    BY <1>4 DEF Live
  <2> QED
    BY <1>3, <1>4, <2>1 DEF Exact
<1>5. ASSUME NEW m \in Member, OpenDm(m) PROVE Exact(n)'
  <2>1. CASE opened
    BY <1>4, <1>5, <2>1 DEF OpenDm, LastRead, Count
  <2>2. CASE ~opened
    <3>1. LastRead(n)' = 0 /\ Count(n)' = 0 /\ last_message_index' = 0
      BY <1>1, <1>5, <2>2 DEF OpenDm, TypeOK, LastRead, Count, NewMember
    <3>2. DOMAIN messages' = {}
      BY <1>1, <3>1 DEF TypeOK
    <3>3. After(Live', 0) = {}
      BY <3>2 DEF After, Live
    <3> QED
      BY <3>1, <3>3, FS_EmptySet DEF Exact
  <2> QED
    BY <2>1, <2>2
<1>6. ASSUME NEW m \in Member, NEW body \in Body, SendDm(m, body) PROVE Exact(n)'
  <2> DEFINE index == last_message_index + 1
  <2>1. last_message_index' = index
    BY <1>6 DEF SendDm, DmCreated
  <2>2. CASE n = m
    <3>1. LastRead(n)' = index /\ Count(n)' = 0
      BY <1>6, <2>2 DEF SendDm, DmCreated, CountMessage, WithRead, LastRead, Count
    <3>2. After(Live', index) = {}
      <4>1. \A i \in Live' : i \in Int /\ i <= index
        BY <1>1, <1>3, <1>6, SendSets, LiveAfter
      <4>2. \A i \in Live' : ~(i > index)
        BY <4>1, <1>3
      <4> QED
        BY <4>2 DEF After
    <3> QED
      BY <2>1, <3>1, <3>2, <1>3, FS_EmptySet DEF Exact
  <2>3. CASE n # m
    <3>1. LastRead(n)' = LastRead(n) /\ Count(n)' = Count(n) + 1
      BY <1>1, <1>6, <2>3 DEF SendDm, DmCreated, CountMessage, LastRead, Count, TypeOK, MemberRow
    <3>2. Live' = Live \cup {index} /\ index \notin Live
      BY <1>1, <1>6, SendSets
    <3>3. After(Live', LastRead(n)) = After(Live, LastRead(n)) \cup {index}
      BY <3>2, <1>3 DEF After
    <3>4. Cardinality(After(Live, LastRead(n)) \cup {index})
              = Cardinality(After(Live, LastRead(n))) + 1
      BY <3>2, <1>1, <1>3, LiveAfter, FS_AddElement DEF After
    <3> QED
      BY <2>1, <3>1, <3>3, <3>4, <1>3 DEF Exact
  <2> QED
    BY <2>2, <2>3
<1>7. ASSUME NEW m \in Member, NEW i \in Live, SoftDeleteDm(m, i) PROVE Exact(n)'
  <2>1. Live' = Live \ {i} /\ i \in Int /\ last_message_index' = last_message_index
    BY <1>1, <1>7, DeleteSets, LiveAfter DEF SoftDeleteDm
  <2>2. After(Live', LastRead(n)) = After(Live, LastRead(n)) \ {i}
    BY <2>1 DEF After
  <2>3. IsFiniteSet(After(Live, LastRead(n)))
    BY <1>1, <1>3, LiveAfter
  <2>4. LastRead(n)' = LastRead(n)
    BY <1>1, <1>7 DEF SoftDeleteDm, UncountMessage, LastRead, TypeOK, MemberRow
  <2>5. CASE LastRead(n) < i
    <3>1. i \in After(Live, LastRead(n))
      BY <2>1, <2>5, <1>3 DEF After
    <3>2. Cardinality(After(Live, LastRead(n)) \ {i}) = Count(n) - 1
      BY <2>3, <3>1, <1>3, FS_RemoveElement
    <3>3. Count(n) > 0
      BY <2>3, <3>1, <1>3, FS_EmptySet
    <3>4. Count(n)' = Count(n) - 1
      BY <1>1, <1>7, <2>5, <3>3
         DEF SoftDeleteDm, UncountMessage, Count, LastRead, TypeOK, MemberRow
    <3> QED
      BY <1>3, <2>1, <2>2, <2>4, <3>2, <3>4 DEF Exact
  <2>6. CASE ~(LastRead(n) < i)
    <3>1. Count(n)' = Count(n)
      BY <1>1, <1>7, <2>6 DEF SoftDeleteDm, UncountMessage, Count, LastRead, TypeOK, MemberRow
    <3>2. i \notin After(Live, LastRead(n))
      BY <2>1, <2>6, <1>3 DEF After
    <3>3. After(Live, LastRead(n)) \ {i} = After(Live, LastRead(n))
      BY <3>2
    <3> QED
      BY <1>3, <2>1, <2>2, <2>4, <3>1, <3>3 DEF Exact
  <2> QED
    BY <2>5, <2>6
<1>8. ASSUME NEW m \in Member, MarkConversationRead(m) PROVE Exact(n)'
  <2>1. CASE n = m
    <3>1. /\ LastRead(n)' = last_message_index /\ Count(n)' = 0
          /\ last_message_index' = last_message_index
      BY <1>1, <1>8, <2>1 DEF MarkConversationRead, WithRead, LastRead, Count, TypeOK
    <3>2. Live' = Live
      BY <1>8 DEF MarkConversationRead, Live
    <3>3. After(Live, last_message_index) = {}
      BY <1>1, LiveAfter
    <3> QED
      BY <1>3, <3>1, <3>2, <3>3, FS_EmptySet DEF Exact
  <2>2. CASE n # m
    BY <1>1, <1>4, <1>8, <2>2 DEF MarkConversationRead, LastRead, Count, TypeOK
  <2> QED
    BY <2>1, <2>2
<1>9. ASSUME NEW m \in Member, MarkConversationUnread(m) PROVE Exact(n)'
  <2>1. CASE n = m
    <3>1. /\ LastRead(n)' = last_message_index - 1
          /\ Count(n)' = Cardinality(UnreadAfter(last_message_index - 1))
          /\ last_message_index' = last_message_index
      BY <1>1, <1>9, <2>1 DEF MarkConversationUnread, WithRead, LastRead, Count, TypeOK
    <3>2. Live' = Live
      BY <1>9 DEF MarkConversationUnread, Live
    <3>3. UnreadAfter(last_message_index - 1) = After(Live, last_message_index - 1)
      BY <1>1, LiveAfter
    <3> QED
      BY <1>3, <3>1, <3>2, <3>3 DEF Exact
  <2>2. CASE n # m
    BY <1>1, <1>4, <1>9, <2>2 DEF MarkConversationUnread, LastRead, Count, TypeOK
  <2> QED
    BY <2>1, <2>2
<1>10. ASSUME NEW m \in Member, NEW muted \in BOOLEAN, SetConversationMuted(m, muted)
       PROVE  Exact(n)'
  BY <1>1, <1>4, <1>10 DEF SetConversationMuted, LastRead, Count, TypeOK, MemberRow
<1>11. ASSUME NEW m \in Member, MuteExpires(m) PROVE Exact(n)'
  BY <1>1, <1>4, <1>11 DEF MuteExpires, LastRead, Count, TypeOK, MemberRow
<1>12. ASSUME NEW m \in Member, NEW chosen, MarkNotificationRead(m, chosen) PROVE Exact(n)'
  BY <1>4, <1>12 DEF MarkNotificationRead, LastRead, Count
<1>13. ASSUME NEW m \in Member, ArchiveNotifications(m) PROVE Exact(n)'
  BY <1>4, <1>13 DEF ArchiveNotifications, LastRead, Count
<1>14. ASSUME NEW m \in Member, NEW isDisabled \in BOOLEAN, SetUserDisabled(m, isDisabled)
       PROVE  Exact(n)'
  BY <1>4, <1>14 DEF SetUserDisabled, LastRead, Count
<1>15. CASE UNCHANGED vars
  BY <1>4, <1>15 DEF vars, LastRead, Count
<1> QED
  BY <1>5, <1>6, <1>7, <1>8, <1>9, <1>10, <1>11, <1>12, <1>13, <1>14, <1>15 DEF Next

(* However the operations of the two members interleave, each counter is   *)
(* the number of live messages after that member's last_read_index.        *)
THEOREM UnreadCountsExact == Spec => []UnreadExact
<1>1. UnreadInv => UnreadExact
  BY LiveAfter DEF UnreadInv, Exact, UnreadExact, LastRead, Count
<1> QED
  BY <1>1, InitUnreadInv, NextUnreadInv, PTL DEF Spec

-----------------------------------------------------------------------------
(* Conversation implements Inbox.                                          *)

LEMMA UnreadMessagesAre ==
  UnreadMessages = [m \in Member |-> After(Live, LastRead(m))]
  BY DEF UnreadMessages, UnreadAfter, After, LastRead

LEMMA InitInbox == Init => UnreadSets!Init
<1> SUFFICES ASSUME Init PROVE UnreadSets!Init
  OBVIOUS
<1>1. DOMAIN messages = {}
  BY DEF Init
<1>2. Live = {} /\ \A i : UnreadAfter(i) = {}
  BY <1>1 DEF Live, UnreadAfter
<1>3. \A m \in Member : conversation_members[m].unread_count = 0
  BY DEF Init, NewMember
<1> QED
  BY <1>2, <1>3 DEF Init, UnreadSets!Init, UnreadMessages, Badges

LEMMA StepInbox ==
  UnreadInv /\ UnreadInv' /\ [Next]_vars => [UnreadSets!Next]_(UnreadSets!vars)
<1> SUFFICES ASSUME UnreadInv, UnreadInv', [Next]_vars
             PROVE  [UnreadSets!Next]_(UnreadSets!vars)
  OBVIOUS
<1>1. TypeOK /\ TypeOK'
  BY DEF UnreadInv
<1>2. /\ UnreadMessages = [m \in Member |-> After(Live, LastRead(m))]
      /\ UnreadMessages' = [m \in Member |-> After(Live', LastRead(m)')]
  BY DEF UnreadMessages, UnreadAfter, After, LastRead
<1>3. UnreadSets!ShowBadges
  <2>1. ASSUME NEW m \in Member PROVE Badges'[m] = Cardinality(UnreadMessages'[m])
    <3>1. Badges'[m] = Count(m)'
      BY DEF Badges, Count
    <3>2. Count(m)' = Cardinality(After(Live', LastRead(m)'))
      BY DEF UnreadInv, Exact
    <3> QED
      BY <1>2, <3>1, <3>2
  <2>2. Badges' = [m \in Member |-> Badges'[m]]
    BY DEF Badges
  <2>3. Badges' = [m \in Member |-> Cardinality(UnreadMessages'[m])]
    BY <2>1, <2>2, Zenon
  <2> QED
    BY <2>3 DEF UnreadSets!ShowBadges, UnreadSets!Cardinality, Cardinality
<1>4. ASSUME messages' = messages, last_message_index' = last_message_index,
             \A m \in Member : LastRead(m)' = LastRead(m) /\ Count(m)' = Count(m)
      PROVE  UNCHANGED UnreadSets!vars
  <2>1. Live' = Live
    BY <1>4 DEF Live
  <2> QED
    BY <1>2, <1>4, <2>1 DEF UnreadSets!vars, Badges, Count
<1>5. ASSUME NEW m \in Member, OpenDm(m) PROVE UNCHANGED UnreadSets!vars
  <2>1. CASE opened
    BY <1>4, <1>5, <2>1 DEF OpenDm, LastRead, Count
  <2>2. CASE ~opened
    <3>1. DOMAIN messages = {} /\ messages' = messages
      BY <1>1, <1>5, <2>2 DEF OpenDm, TypeOK
    <3>2. Live = {} /\ Live' = {}
      BY <3>1 DEF Live
    <3>3. \A n \in Member : Count(n) = 0 /\ Count(n)' = 0
      BY <3>2, <1>1, FS_EmptySet DEF UnreadInv, Exact, After
    <3> QED
      BY <1>2, <1>5, <3>2, <3>3 DEF UnreadSets!vars, OpenDm, Badges, Count, After
  <2> QED
    BY <2>1, <2>2
<1>6. ASSUME NEW m \in Member, NEW body \in Body, SendDm(m, body)
      PROVE  UnreadSets!Send(m)
  <2> DEFINE index == last_message_index + 1
  <2>1. last_message_index' = index /\ Live' = Live \cup {index} /\ index \notin Live
    BY <1>1, <1>6, SendSets DEF SendDm, DmCreated
  <2>2. ASSUME NEW n \in Member
        PROVE  UnreadMessages'[n] = IF n = m THEN {} ELSE UnreadMessages[n] \cup {index}
    <3>1. CASE n = m
      <4>1. LastRead(n)' = index
        BY <1>6, <3>1 DEF SendDm, DmCreated, CountMessage, WithRead, LastRead
      <4>2. \A i \in Live' : ~(i > index)
        BY <1>1, <2>1, LiveAfter DEF TypeOK
      <4> QED
        BY <1>2, <3>1, <4>1, <4>2 DEF After
    <3>2. CASE n # m
      <4>1. LastRead(n)' = LastRead(n)
        BY <1>1, <1>6, <3>2 DEF SendDm, DmCreated, CountMessage, LastRead, TypeOK, MemberRow
      <4>2. index > LastRead(n)
        <5>1. last_message_index \in Nat /\ LastRead(n) \in Int
          BY <1>1 DEF TypeOK, MemberRow, LastRead
        <5>2. LastRead(n) <= last_message_index
          BY DEF UnreadInv, Exact
        <5> QED
          BY <5>1, <5>2
      <4> QED
        BY <1>2, <2>1, <3>2, <4>1, <4>2 DEF After
    <3> QED
      BY <3>1, <3>2
  <2>3. UnreadMessages' =
            [n \in Member |-> IF n = m THEN {} ELSE UnreadMessages[n] \cup {index}]
    BY <1>2, <2>2
  <2> QED
    BY <1>3, <2>1, <2>3 DEF UnreadSets!Send
<1>7. ASSUME NEW m \in Member, NEW i \in Live, SoftDeleteDm(m, i)
      PROVE  UnreadSets!Withdraw(i)
  <2>1. Live' = Live \ {i} /\ last_message_index' = last_message_index
    BY <1>1, <1>7, DeleteSets DEF SoftDeleteDm
  <2>2. \A n \in Member : LastRead(n)' = LastRead(n)
    BY <1>1, <1>7 DEF SoftDeleteDm, UncountMessage, LastRead, TypeOK, MemberRow
  <2>3. UnreadMessages' = [n \in Member |-> UnreadMessages[n] \ {i}]
    BY <1>2, <2>1, <2>2 DEF After
  <2> QED
    BY <1>3, <2>1, <2>3 DEF UnreadSets!Withdraw
<1>8. ASSUME NEW m \in Member, MarkConversationRead(m) PROVE UnreadSets!Read(m)
  <2>1. Live' = Live /\ last_message_index' = last_message_index
    BY <1>8 DEF MarkConversationRead, Live
  <2>2. LastRead(m)' = last_message_index
        /\ \A n \in Member \ {m} : LastRead(n)' = LastRead(n)
    BY <1>1, <1>8 DEF MarkConversationRead, WithRead, LastRead, TypeOK
  <2>3. After(Live, last_message_index) = {}
    BY <1>1, LiveAfter
  <2>4. UnreadMessages' = [UnreadMessages EXCEPT ![m] = {}]
    BY <1>2, <2>1, <2>2, <2>3
  <2> QED
    BY <1>3, <2>1, <2>4 DEF UnreadSets!Read
<1>9. ASSUME NEW m \in Member, MarkConversationUnread(m) PROVE UnreadSets!Unread(m)
  <2>1. Live' = Live /\ last_message_index' = last_message_index
    BY <1>9 DEF MarkConversationUnread, Live
  <2>2. LastRead(m)' = last_message_index - 1
        /\ \A n \in Member \ {m} : LastRead(n)' = LastRead(n)
    BY <1>1, <1>9 DEF MarkConversationUnread, WithRead, LastRead, TypeOK
  <2>3. After(Live, last_message_index - 1) = Live \cap {last_message_index}
    BY <1>1, LiveAfter
  <2>4. UnreadMessages' = [UnreadMessages EXCEPT ![m] = Live \cap {last_message_index}]
    BY <1>2, <2>1, <2>2, <2>3
  <2> QED
    BY <1>3, <2>1, <2>4 DEF UnreadSets!Unread
<1>10. ASSUME NEW m \in Member,
              \/ \E muted \in BOOLEAN : SetConversationMuted(m, muted)
              \/ MuteExpires(m)
       PROVE  UNCHANGED UnreadSets!vars
  BY <1>1, <1>4, <1>10
     DEF SetConversationMuted, MuteExpires, LastRead, Count, TypeOK, MemberRow
<1>11. ASSUME NEW m \in Member,
              \/ \E chosen \in {{n} : n \in notifications} \cup {notifications} :
                     MarkNotificationRead(m, chosen)
              \/ ArchiveNotifications(m)
              \/ \E isDisabled \in BOOLEAN : SetUserDisabled(m, isDisabled)
       PROVE  UNCHANGED UnreadSets!vars
  BY <1>4, <1>11
     DEF MarkNotificationRead, ArchiveNotifications, SetUserDisabled, LastRead, Count
<1>12. CASE UNCHANGED vars
  BY <1>4, <1>12 DEF vars, LastRead, Count
<1> QED
  BY <1>5, <1>6, <1>7, <1>8, <1>9, <1>10, <1>11, <1>12 DEF Next, UnreadSets!Next

(* The tables and their handlers implement the sets of unread messages.    *)
THEOREM RefinesInbox == Spec => ImplementsInbox
  BY InitInbox, StepInbox, InitUnreadInv, NextUnreadInv, PTL
     DEF Spec, ImplementsInbox, UnreadSets!Spec

-----------------------------------------------------------------------------
(* Mutes.                                                                  *)

\* Every notification after a step is new, for somebody without a mute, or is
\* an earlier one about the same event.
Earlier(n) == \E o \in notifications :
    o.account = n.account /\ o.kind = n.kind /\ o.obj_index = n.obj_index

LEMMA StepNotifies ==
    ASSUME TypeOK, [Next]_vars, NEW n \in notifications'
    PROVE  ~conversation_members[n.account].muted \/ Earlier(n)
<1>1. ASSUME NEW actor \in Member, NEW body \in Body, SendDm(actor, body)
      PROVE  ~conversation_members[n.account].muted \/ Earlier(n)
  <2> DEFINE index == last_message_index + 1
             mentioned == body \ ({actor} \cup disabled)
  <2>1. \/ n \in notifications
        \/ n \in Notified(actor, "dm", index, Member)
        \/ n \in Notified(actor, "mention", index, mentioned)
    BY <1>1 DEF SendDm, DmCreated
  <2>2. ASSUME NEW kind, NEW accounts, n \in Notified(actor, kind, index, accounts)
        PROVE  ~conversation_members[n.account].muted
    BY <2>2 DEF Notified, MayNotify
  <2> QED BY <2>1, <2>2 DEF Earlier
<1>2. CASE UNCHANGED notifications
  BY <1>2 DEF Earlier
<1>3. ASSUME NEW m \in Member, NEW chosen,
             MarkConversationRead(m) \/ MarkNotificationRead(m, chosen)
               \/ ArchiveNotifications(m)
      PROVE  ~conversation_members[n.account].muted \/ Earlier(n)
  <2>1. PICK o \in notifications :
          n = o \/ n = [o EXCEPT !.read = TRUE] \/ n = [o EXCEPT !.archived = TRUE]
    BY <1>3 DEF MarkConversationRead, ReadAlerts, MarkNotificationRead,
                ArchiveNotifications
  <2>2. o \in NotificationRow
    BY DEF TypeOK
  <2>3. n.account = o.account /\ n.kind = o.kind /\ n.obj_index = o.obj_index
    BY <2>1, <2>2 DEF NotificationRow
  <2> QED BY <2>3 DEF Earlier
<1>4. ASSUME NEW m \in Member,
             \/ OpenDm(m) \/ MarkConversationUnread(m) \/ MuteExpires(m)
             \/ \E i \in Live : SoftDeleteDm(m, i)
             \/ \E on \in BOOLEAN : SetConversationMuted(m, on) \/ SetUserDisabled(m, on)
      PROVE  UNCHANGED notifications
  BY <1>4 DEF OpenDm, MarkConversationUnread, MuteExpires, SoftDeleteDm,
              SetConversationMuted, SetUserDisabled, alerts
<1>5. CASE UNCHANGED vars
  BY <1>2, <1>5 DEF vars, alerts
<1> QED BY <1>1, <1>2, <1>3, <1>4, <1>5 DEF Next

(* While a member keeps the conversation muted, no operation of anybody    *)
(* leaves it a notification it did not have (create_notification_tx).      *)
THEOREM MuteIsKept == Spec => MuteHoldsNotificationsBack
<1>1. TypeOK /\ [Next]_vars =>
        [\A m \in Member :
           conversation_members[m].muted
               => \A n \in notifications' :
                      n.account = m => \E o \in notifications :
                          o.account = m /\ o.kind = n.kind /\ o.obj_index = n.obj_index]_vars
  BY StepNotifies DEF Earlier
<1> QED
  BY <1>1, TypeCorrect, PTL DEF Spec, MuteHoldsNotificationsBack
=============================================================================
