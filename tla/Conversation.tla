---------------------------- MODULE Conversation ----------------------------
(***************************************************************************)
(* One direct conversation: its messages, the read state of its two        *)
(* members, and the notifications and mentions its messages leave.         *)
(*                                                                         *)
(* An operation is one transaction or one UPDATE statement, hence one      *)
(* action.  Bodies are known by whom they mention; search index, labels,   *)
(* events and audit rows of the same transactions are left out.            *)
(***************************************************************************)
EXTENDS Integers, FiniteSets

CONSTANTS
    Member,       \* the two participants
    Body,         \* message bodies, each the set of accounts it mentions
    MaxIndex      \* bound of the model: messages sent

ASSUME TwoMembers == IsFiniteSet(Member) /\ Cardinality(Member) = 2
ASSUME BodiesMention == Body \subseteq SUBSET Member
ASSUME MaxIndexNat == MaxIndex \in Nat

VARIABLES
    opened,                 \* conversations: there is a row
    last_message_index,     \* conversations.last_message_index
    messages,               \* conversation_messages by obj_index
    conversation_members,   \* by account, written together with the conversation
    notifications,          \* rows with this conversation_id
    mentions,               \* rows with this conversation_id
    disabled                \* accounts with disabled_at set

alerts == <<notifications, mentions>>
vars == <<opened, last_message_index, messages, conversation_members,
          notifications, mentions, disabled>>

MessageRow == [author : Member, deleted : BOOLEAN]
MemberRow == [last_read_index : Nat \cup {-1}, unread_count : Nat, muted : BOOLEAN]
NotificationRow == [account : Member, kind : {"dm", "mention"}, obj_index : Nat,
                    read : BOOLEAN, archived : BOOLEAN]
MentionRow == [account : Member, obj_index : Nat, read : BOOLEAN]

TypeOK ==
    /\ opened \in BOOLEAN
    /\ last_message_index \in Nat
    /\ messages \in [1..last_message_index -> MessageRow]
    /\ conversation_members \in [Member -> MemberRow]
    /\ notifications \subseteq NotificationRow
    /\ mentions \subseteq MentionRow
    /\ disabled \subseteq Member
    /\ ~opened => last_message_index = 0

Live == {i \in DOMAIN messages : ~messages[i].deleted}

\* SELECT COUNT(*) ... WHERE deleted_at IS NULL AND obj_index > last_read_index
UnreadAfter(index) == {i \in Live : i > index}

\* The columns an INSERT into conversation_members does not name.
NewMember == [last_read_index |-> 0, unread_count |-> 0, muted |-> FALSE]

Init ==
    /\ opened = FALSE
    /\ last_message_index = 0
    /\ messages = [i \in {} |-> FALSE]
    /\ conversation_members = [m \in Member |-> NewMember]
    /\ notifications = {}
    /\ mentions = {}
    /\ disabled = {}

\* UPDATE conversation_members SET last_read_index = ?, unread_count = ?
WithRead(row, index, unread) ==
    [last_read_index |-> index, unread_count |-> unread, muted |-> row.muted]

-----------------------------------------------------------------------------
(* The conversation                                                        *)

\* Mutant: opening the conversation again makes its members anew.
OpenDmAnew(m) ==
    /\ disabled = {}
    /\ opened' = TRUE
    /\ conversation_members' = [n \in Member |-> NewMember]
    /\ UNCHANGED <<last_message_index, messages, alerts, disabled>>

\* Either member asks for the other one; both accounts must be active.  An
\* existing conversation is returned as it is.
OpenDm(m) ==
    /\ disabled = {}
    /\ opened' = TRUE
    /\ conversation_members' =
           IF opened THEN conversation_members ELSE [n \in Member |-> NewMember]
    /\ UNCHANGED <<last_message_index, messages, alerts, disabled>>

\* Mutant: a mute does not hold notifications back.
MayNotifyMuted(actor, m) == m # actor /\ m \notin disabled

MayNotify(actor, m) ==
    m # actor /\ m \notin disabled /\ ~conversation_members[m].muted

Notified(actor, kind, index, accounts) ==
    {[account |-> m, kind |-> kind, obj_index |-> index,
      read |-> FALSE, archived |-> FALSE] :
         m \in {n \in accounts : MayNotify(actor, n)}}

CountMessage(actor, index) ==
    [m \in Member |->
        IF m = actor
        THEN WithRead(conversation_members[m], index, 0)
        ELSE [conversation_members[m] EXCEPT !.unread_count = @ + 1]]

\* What a message leaves for others.  A mention is kept even where the mute
\* holds its notification back.
DmCreated(actor, index, body) ==
    LET mentioned == body \ ({actor} \cup disabled)
    IN /\ notifications' = notifications
              \cup Notified(actor, "dm", index, Member)
              \cup Notified(actor, "mention", index, mentioned)
       /\ mentions' = mentions \cup
              {[account |-> m, obj_index |-> index, read |-> FALSE] : m \in mentioned}

\* A participant sends; whether the participant was disabled meanwhile is not
\* asked.
SendDm(actor, body) ==
    LET index == last_message_index + 1
    IN /\ opened
       /\ last_message_index < MaxIndex
       /\ messages' = [i \in 1..index |->
              IF i = index THEN [author |-> actor, deleted |-> FALSE] ELSE messages[i]]
       /\ last_message_index' = index
       /\ conversation_members' = CountMessage(actor, index)
       /\ DmCreated(actor, index, body)
       /\ UNCHANGED <<opened, disabled>>

UncountMessage(index) ==
    [m \in Member |->
        IF /\ conversation_members[m].unread_count > 0
           /\ conversation_members[m].last_read_index < index
        THEN [conversation_members[m] EXCEPT !.unread_count = @ - 1]
        ELSE conversation_members[m]]

\* soft_delete_dm: the author withdraws a live message.  Its notifications stay.
SoftDeleteDm(actor, index) ==
    /\ opened
    /\ index \in Live
    /\ messages[index].author = actor
    /\ messages' = [messages EXCEPT ![index].deleted = TRUE]
    /\ conversation_members' = UncountMessage(index)
    /\ UNCHANGED <<opened, last_message_index, alerts, disabled>>

-----------------------------------------------------------------------------
(* Read state                                                              *)

\* notification_visible_source_sql: the account is active (it stays a member).
Visible(m) == m \notin disabled

\* read_at = COALESCE(read_at, now), for notifications and mentions alike.
ReadAlerts(m) ==
    /\ notifications' = IF Visible(m)
           THEN {IF n.account = m THEN [n EXCEPT !.read = TRUE] ELSE n : n \in notifications}
           ELSE notifications
    /\ mentions' = IF Visible(m)
           THEN {IF n.account = m THEN [n EXCEPT !.read = TRUE] ELSE n : n \in mentions}
           ELSE mentions

MarkConversationRead(m) ==
    /\ opened
    /\ conversation_members' =
           [conversation_members EXCEPT ![m] = WithRead(@, last_message_index, 0)]
    /\ ReadAlerts(m)
    /\ UNCHANGED <<opened, last_message_index, messages, disabled>>

\* Mutant: the last message is put back without looking whether it is live.
MarkLastUnread(m) ==
    /\ opened
    /\ conversation_members' =
           [conversation_members EXCEPT ![m] = WithRead(@, last_message_index - 1, 1)]
    /\ UNCHANGED <<opened, last_message_index, messages, alerts, disabled>>

\* In an empty conversation last_read_index becomes -1 (an i64 saturates far below).
MarkConversationUnread(m) ==
    LET unread_from == last_message_index - 1
    IN /\ opened
       /\ conversation_members' =
              [conversation_members EXCEPT ![m] =
                   WithRead(@, unread_from, Cardinality(UnreadAfter(unread_from)))]
       /\ UNCHANGED <<opened, last_message_index, messages, alerts, disabled>>

\* A time to live of zero or less unmutes.
SetConversationMuted(m, muted) ==
    /\ opened
    /\ conversation_members' = [conversation_members EXCEPT ![m].muted = muted]
    /\ UNCHANGED <<opened, last_message_index, messages, alerts, disabled>>

\* muted_until passes.
MuteExpires(m) ==
    /\ conversation_members[m].muted
    /\ conversation_members' = [conversation_members EXCEPT ![m].muted = FALSE]
    /\ UNCHANGED <<opened, last_message_index, messages, alerts, disabled>>

-----------------------------------------------------------------------------
(* The notification list                                                   *)

\* mark_notification_read: those whose id starts with what was typed, or all.
MarkNotificationRead(m, chosen) ==
    /\ Visible(m)
    /\ notifications' = {IF n \in chosen /\ n.account = m /\ ~n.archived
                         THEN [n EXCEPT !.read = TRUE] ELSE n : n \in notifications}
    /\ UNCHANGED <<opened, last_message_index, messages, conversation_members,
                   mentions, disabled>>

ArchiveNotifications(m) ==
    /\ Visible(m)
    /\ notifications' = {IF n.account = m THEN [n EXCEPT !.archived = TRUE] ELSE n :
                             n \in notifications}
    /\ UNCHANGED <<opened, last_message_index, messages, conversation_members,
                   mentions, disabled>>

\* set_user_disabled, seen from the conversation: the rows stay.
SetUserDisabled(m, isDisabled) ==
    /\ disabled' = IF isDisabled THEN disabled \cup {m} ELSE disabled \ {m}
    /\ UNCHANGED <<opened, last_message_index, messages, conversation_members, alerts>>

Next ==
    \/ \E m \in Member : OpenDm(m)
    \/ \E m \in Member, body \in Body : SendDm(m, body)
    \/ \E m \in Member, i \in Live : SoftDeleteDm(m, i)
    \/ \E m \in Member : MarkConversationRead(m)
    \/ \E m \in Member : MarkConversationUnread(m)
    \/ \E m \in Member, muted \in BOOLEAN : SetConversationMuted(m, muted)
    \/ \E m \in Member : MuteExpires(m)
    \/ \E m \in Member : \E n \in notifications :
           MarkNotificationRead(m, {n}) \/ MarkNotificationRead(m, notifications)
    \/ \E m \in Member : ArchiveNotifications(m)
    \/ \E m \in Member, isDisabled \in BOOLEAN : SetUserDisabled(m, isDisabled)

Spec == Init /\ [][Next]_vars

-----------------------------------------------------------------------------
(* Properties                                                              *)

\* However sends, deletions, reads and "mark unread" interleave, the counter
\* kept up by +1 and -1 is the count of live messages after last_read_index,
\* which is how migrations/20260501000002_performance_counters.sql defines it.
UnreadExact ==
    \A m \in Member : conversation_members[m].unread_count =
        Cardinality(UnreadAfter(conversation_members[m].last_read_index))

UnreadMessages ==
    [m \in Member |-> UnreadAfter(conversation_members[m].last_read_index)]
Badges == [m \in Member |-> conversation_members[m].unread_count]

UnreadSets == INSTANCE Inbox WITH
    last <- last_message_index, live <- Live, unread <- UnreadMessages, badge <- Badges

\* The counters and indices together behave as sets of unread messages with a
\* badge on each.
ImplementsInbox == UnreadSets!Spec

\* While a member keeps the conversation muted it gets no notification about
\* it, not even for a mention (create_notification_tx looks at the mute).
MuteHoldsNotificationsBack ==
    [][\A m \in Member :
           conversation_members[m].muted
               => \A n \in notifications' :
                      n.account = m => \E o \in notifications :
                          o.account = m /\ o.kind = n.kind /\ o.obj_index = n.obj_index]_vars
=============================================================================
