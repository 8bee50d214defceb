------------------------------ MODULE Threads -------------------------------
(***************************************************************************)
(* A thread of a channel whose members come and go: its comments, the read *)
(* state of every account, and the alerts its comments leave.  The channel *)
(* is any but #general, which nobody leaves and nobody archives.           *)
(*                                                                         *)
(* An operation is one transaction, hence one action.  Search index,       *)
(* labels, events, audit rows, titles and pins are left out; the           *)
(* notification list's own operations are in Conversation.                 *)
(***************************************************************************)
EXTENDS Integers, FiniteSets

CONSTANTS
    Account,          \* activated accounts
    ChannelCreator,   \* channels.created_by_account_id
    Admin,            \* accounts whose role can_admin()
    Body,             \* comment bodies, each the set of accounts it mentions
    MaxIndex,         \* bound of the model: comments written
    Muter,            \* bound of the model: accounts that may mute the thread
    MayDisable,       \* bound of the model: accounts that may be disabled
    None              \* no such row

ASSUME CreatorIsAccount == ChannelCreator \in Account /\ Admin \subseteq Account
ASSUME NoneIsNobody == None \notin Account
ASSUME BodiesMention == Body \subseteq SUBSET Account
ASSUME BoundsKnown == MaxIndex \in Nat /\ Muter \cup MayDisable \subseteq Account

VARIABLES
    channel_visibility,   \* channels.visibility, never changed
    channel_members,      \* accounts with a row for the channel
    channel_archived,     \* channels.archived_at is set
    thread,               \* threads.creator_account_id, None before the thread
    thread_archived,      \* threads.archived_at is set
    thread_deleted,       \* threads.deleted_at is set
    last_comment_index,   \* threads.last_comment_index
    comments,             \* comments by obj_index
    comment_count,        \* threads.comment_count
    thread_reads,         \* read state of the accounts that have a row
    notifications,        \* rows about the thread (obj_index 0) and its comments
    mentions,             \* rows about the thread (obj_index 0) and its comments
    disabled,             \* accounts with disabled_at set
    leftSinceRead         \* history: accounts that left and have not read since

channel == <<channel_visibility, channel_members, channel_archived>>
threadFlags == <<thread, thread_archived, thread_deleted>>
alerts == <<notifications, mentions>>
posts == <<last_comment_index, comments, comment_count>>
vars == <<channel, threadFlags, posts, thread_reads, alerts, disabled, leftSinceRead>>

CommentRow == [author : Account, deleted : BOOLEAN]
ReadRow == [last_read_index : Nat \cup {-1}, unread_count : Nat, muted : BOOLEAN]
NotificationRow == [account : Account, kind : {"mention", "reply"},
                    obj_index : Nat, read : BOOLEAN]
MentionRow == [account : Account, obj_index : Nat, read : BOOLEAN]

TypeOK ==
    /\ channel_visibility \in {"public", "private"}
    /\ channel_members \subseteq Account
    /\ channel_archived \in BOOLEAN
    /\ thread \in Account \cup {None}
    /\ thread_archived \in BOOLEAN
    /\ thread_deleted \in BOOLEAN
    /\ last_comment_index \in Nat
    /\ comments \in [1..last_comment_index -> CommentRow]
    /\ comment_count \in Nat
    /\ thread_reads \in [DOMAIN thread_reads -> ReadRow]
    /\ DOMAIN thread_reads \subseteq Account
    /\ notifications \subseteq NotificationRow
    /\ mentions \subseteq MentionRow
    /\ disabled \subseteq Account
    /\ leftSinceRead \subseteq Account

Live == {i \in DOMAIN comments : ~comments[i].deleted}

\* SELECT COUNT(*) ... WHERE deleted_at IS NULL AND obj_index > last_read_index
UnreadAfter(index) == {i \in Live : i > index}

Init ==
    /\ channel_visibility \in {"public", "private"}
    /\ channel_members = {ChannelCreator}
    /\ channel_archived = FALSE
    /\ thread = None
    /\ thread_archived = FALSE
    /\ thread_deleted = FALSE
    /\ last_comment_index = 0
    /\ comments = [i \in {} |-> None]
    /\ comment_count = 0
    /\ thread_reads = [a \in {} |-> None]
    /\ notifications = {}
    /\ mentions = {}
    /\ disabled = {}
    /\ leftSinceRead = {}

Active(a) == a \notin disabled

\* ensure_can_view_channel
CanViewChannel(a) == Active(a) /\ a \in channel_members /\ ~channel_archived

\* ensure_can_manage_channel
CanManageChannel(a) == Active(a) /\ (a \in Admin \/ a = ChannelCreator)

ThreadExists == thread # None /\ ~thread_deleted

-----------------------------------------------------------------------------
(* The channel and its members                                             *)

JoinChannel(a) ==
    /\ Active(a)
    /\ ~channel_archived
    /\ channel_visibility = "public"
    /\ channel_members' = channel_members \cup {a}
    /\ UNCHANGED <<channel_visibility, channel_archived, threadFlags, posts, thread_reads,
                   alerts, disabled, leftSinceRead>>

RemoveMember(a) ==
    /\ channel_members' = channel_members \ {a}
    /\ leftSinceRead' = leftSinceRead \cup (channel_members \cap {a})
    /\ UNCHANGED <<channel_visibility, channel_archived, threadFlags, posts, thread_reads,
                   alerts, disabled>>

\* The account's thread_reads and notifications stay where they are.
LeaveChannel(a) ==
    /\ Active(a)
    /\ ~channel_archived
    /\ a # ChannelCreator
    /\ RemoveMember(a)

\* update_channel_member with add
AddChannelMember(actor, a) ==
    /\ CanManageChannel(actor)
    /\ ~channel_archived
    /\ channel_visibility = "private"
    /\ channel_members' = channel_members \cup {a}
    /\ UNCHANGED <<channel_visibility, channel_archived, threadFlags, posts, thread_reads,
                   alerts, disabled, leftSinceRead>>

\* update_channel_member without add
RemoveChannelMember(actor, a) ==
    /\ CanManageChannel(actor)
    /\ ~channel_archived
    /\ channel_visibility = "private"
    /\ a # ChannelCreator
    /\ RemoveMember(a)

\* An archived channel is no longer found by name, except to unarchive it.
SetChannelArchived(actor, archived) ==
    /\ archived => ~channel_archived
    /\ CanManageChannel(actor)
    /\ channel_archived' = archived
    /\ UNCHANGED <<channel_visibility, channel_members, threadFlags, posts, thread_reads,
                   alerts, disabled, leftSinceRead>>

\* set_user_disabled, seen from the channel: the membership stays.
SetUserDisabled(a, isDisabled) ==
    /\ disabled' = IF isDisabled THEN disabled \cup {a} ELSE disabled \ {a}
    /\ UNCHANGED <<channel, threadFlags, posts, thread_reads, alerts, leftSinceRead>>

-----------------------------------------------------------------------------
(* The thread and its comments                                             *)

Upsert(t, a, row) == [x \in DOMAIN t \cup {a} |-> IF x = a THEN row ELSE t[x]]

Unmuted(lastRead, unread) ==
    [last_read_index |-> lastRead, unread_count |-> unread, muted |-> FALSE]

\* update_thread_flag: the thread's creator or a moderator, member or not.
CanModifyThread(a) == Active(a) /\ ~channel_archived
                      /\ (a \in Admin \/ a = ChannelCreator \/ a = thread)

SetThreadArchived(a, archived) ==
    /\ ThreadExists
    /\ CanModifyThread(a)
    /\ thread_archived' = archived
    /\ UNCHANGED <<channel, thread, thread_deleted, posts, thread_reads,
                   alerts, disabled, leftSinceRead>>

DeleteThread(a) ==
    /\ ThreadExists
    /\ CanModifyThread(a)
    /\ thread_deleted' = TRUE
    /\ UNCHANGED <<channel, thread, thread_archived, posts, thread_reads,
                   alerts, disabled, leftSinceRead>>

\* account_can_view_source_tx, which does not ask whether the channel is archived
CanViewSource(a) == Active(a) /\ a \in channel_members

Muted(a) == a \in DOMAIN thread_reads /\ thread_reads[a].muted

\* Mutant: the recipient's membership is not looked at.
MayNotifyStranger(actor, a) == a # actor /\ ~Muted(a)

MayNotify(actor, a) == a # actor /\ CanViewSource(a) /\ ~Muted(a)

Notified(actor, kind, index, accounts) ==
    {[account |-> a, kind |-> kind, obj_index |-> index, read |-> FALSE] :
         a \in {b \in accounts : MayNotify(actor, b)}}

\* Whoever opened the thread or wrote a comment that was not deleted.  The query
\* also asks for membership, as MayNotify does.
Participants == {thread} \cup {comments[i].author : i \in Live}

\* Mutant: a first row of a member starts from this comment only.
FirstUnreadIsOne(actor, index) ==
    [a \in DOMAIN thread_reads \cup channel_members \cup {actor} |->
        IF a \notin DOMAIN thread_reads
        THEN IF a = actor THEN Unmuted(index, 0) ELSE Unmuted(0, 1)
        ELSE IF a = actor
        THEN [thread_reads[a] EXCEPT !.last_read_index = index, !.unread_count = 0]
        ELSE IF a \in channel_members
        THEN [thread_reads[a] EXCEPT !.unread_count = @ + 1]
        ELSE thread_reads[a]]

\* The author has read everything; each other member gets a row that counts
\* all comments, or one more in its row.
CountComment(actor, index) ==
    [a \in DOMAIN thread_reads \cup channel_members \cup {actor} |->
        IF a \notin DOMAIN thread_reads
        THEN IF a = actor THEN Unmuted(index, 0) ELSE Unmuted(0, comment_count + 1)
        ELSE IF a = actor
        THEN [thread_reads[a] EXCEPT !.last_read_index = index, !.unread_count = 0]
        ELSE IF a \in channel_members
        THEN [thread_reads[a] EXCEPT !.unread_count = @ + 1]
        ELSE thread_reads[a]]

\* Mentions of the accounts that see the channel, whether or not they mute.
Mentioned(actor, body) == {a \in body \ {actor} : CanViewSource(a)}

Mention(index, accounts) ==
    {[account |-> a, obj_index |-> index, read |-> FALSE] : a \in accounts}

ThreadCreated(actor, title) ==
    /\ notifications' = notifications
           \cup Notified(actor, "mention", 0, Mentioned(actor, title))
    /\ mentions' = mentions \cup Mention(0, Mentioned(actor, title))

\* The title is all the text a new thread has.
CreateThread(actor, title) ==
    /\ thread = None
    /\ CanViewChannel(actor)
    /\ thread' = actor
    /\ thread_reads' = Upsert(thread_reads, actor, Unmuted(0, 0))
    /\ ThreadCreated(actor, title)
    /\ UNCHANGED <<channel, thread_archived, thread_deleted, posts, disabled, leftSinceRead>>

\* Those mentioned and those who take part are told, each apart.
CommentCreated(actor, index, body) ==
    /\ notifications' = notifications
           \cup Notified(actor, "mention", index, Mentioned(actor, body))
           \cup Notified(actor, "reply", index, Participants)
    /\ mentions' = mentions \cup Mention(index, Mentioned(actor, body))

\* An archived thread still takes comments.
AddComment(actor, body) ==
    LET index == last_comment_index + 1
    IN /\ ThreadExists
       /\ CanViewChannel(actor)
       /\ last_comment_index < MaxIndex
       /\ last_comment_index' = index
       /\ comments' = Upsert(comments, index, [author |-> actor, deleted |-> FALSE])
       /\ comment_count' = comment_count + 1
       /\ thread_reads' = CountComment(actor, index)
       /\ CommentCreated(actor, index, body)
       /\ leftSinceRead' = leftSinceRead \ {actor}
       /\ UNCHANGED <<channel, threadFlags, disabled>>

\* Mutant: a deleted comment can be deleted again.
DeletableAgain(index) == index \in DOMAIN comments

\* load_comment_meta_tx
Deletable(index) == index \in Live

UncountComment(index) ==
    [a \in DOMAIN thread_reads |->
        IF thread_reads[a].unread_count > 0 /\ thread_reads[a].last_read_index < index
        THEN [thread_reads[a] EXCEPT !.unread_count = @ - 1]
        ELSE thread_reads[a]]

SoftDeleteComment(actor, index) ==
    /\ ThreadExists
    /\ CanViewChannel(actor)
    /\ Deletable(index)
    /\ actor \in Admin \/ actor = ChannelCreator \/ actor = comments[index].author
    /\ comments' = [comments EXCEPT ![index].deleted = TRUE]
    /\ UNCHANGED last_comment_index
    /\ comment_count' = IF comment_count > 0 THEN comment_count - 1 ELSE 0
    /\ thread_reads' = UncountComment(index)
    /\ UNCHANGED <<channel, threadFlags, alerts, disabled, leftSinceRead>>

-----------------------------------------------------------------------------
(* Read state                                                              *)

SetRead(a, lastRead, unread) ==
    /\ thread_reads' = Upsert(thread_reads, a,
           [last_read_index |-> lastRead, unread_count |-> unread, muted |-> Muted(a)])
    /\ leftSinceRead' = leftSinceRead \ {a}

MarkThreadRead(a) ==
    /\ ThreadExists
    /\ CanViewChannel(a)
    /\ SetRead(a, last_comment_index, 0)
    /\ notifications' = {IF n.account = a THEN [n EXCEPT !.read = TRUE] ELSE n :
                             n \in notifications}
    /\ mentions' = {IF t.account = a THEN [t EXCEPT !.read = TRUE] ELSE t : t \in mentions}
    /\ UNCHANGED <<channel, threadFlags, posts, disabled>>

MarkThreadUnread(a) ==
    LET unread_from == last_comment_index - 1
    IN /\ ThreadExists
       /\ CanViewChannel(a)
       /\ SetRead(a, unread_from, Cardinality(UnreadAfter(unread_from)))
       /\ UNCHANGED <<channel, threadFlags, posts, alerts, disabled>>

\* upsert_thread_read_state: a first row counts all comments; saving a thread
\* does the same and leaves the mute alone.
UpsertReadState(a, muted) ==
    thread_reads' =
        IF a \in DOMAIN thread_reads
        THEN [thread_reads EXCEPT ![a].muted = muted]
        ELSE Upsert(thread_reads, a, [last_read_index |-> 0,
                        unread_count |-> Cardinality(Live), muted |-> muted])

SetThreadMuted(a, muted) ==
    /\ ThreadExists
    /\ CanViewChannel(a)
    /\ UpsertReadState(a, muted)
    /\ UNCHANGED <<channel, threadFlags, posts, alerts, disabled, leftSinceRead>>

SetThreadSaved(a) ==
    /\ ThreadExists
    /\ CanViewChannel(a)
    /\ UpsertReadState(a, Muted(a))
    /\ UNCHANGED <<channel, threadFlags, posts, alerts, disabled, leftSinceRead>>

\* muted_until passes.
MuteExpires(a) ==
    /\ Muted(a)
    /\ thread_reads' = [thread_reads EXCEPT ![a].muted = FALSE]
    /\ UNCHANGED <<channel, threadFlags, posts, alerts, disabled, leftSinceRead>>

\* COALESCE(r.unread_count, t.comment_count)
UnreadCount(a) ==
    IF a \in DOMAIN thread_reads THEN thread_reads[a].unread_count ELSE comment_count

\* What the list of threads shows, and what a channel's number gets from it.
UnreadShown(a) == IF Muted(a) THEN 0 ELSE UnreadCount(a)

LastRead(a) ==
    IF a \in DOMAIN thread_reads THEN thread_reads[a].last_read_index ELSE 0

\* next_unread offers the thread to a.
NextUnreadOffers(a) ==
    /\ ThreadExists /\ ~thread_archived /\ ~Muted(a)
    /\ UnreadCount(a) > 0
    /\ a \in channel_members

Next ==
    \/ \E a \in Account : JoinChannel(a) \/ LeaveChannel(a)
    \/ \E actor, a \in Account : AddChannelMember(actor, a) \/ RemoveChannelMember(actor, a)
    \/ \E a \in Account, archived \in BOOLEAN : SetChannelArchived(a, archived)
    \/ \E a \in MayDisable, isDisabled \in BOOLEAN : SetUserDisabled(a, isDisabled)
    \/ \E a \in Account, title \in Body : CreateThread(a, title)
    \/ \E a \in Account, archived \in BOOLEAN : SetThreadArchived(a, archived)
    \/ \E a \in Account : DeleteThread(a)
    \/ \E a \in Account, body \in Body : AddComment(a, body)
    \/ \E a \in Account, i \in DOMAIN comments : SoftDeleteComment(a, i)
    \/ \E a \in Account : MarkThreadRead(a)
    \/ \E a \in Account : MarkThreadUnread(a)
    \/ \E a \in Muter, muted \in BOOLEAN : SetThreadMuted(a, muted)
    \/ \E a \in Account : SetThreadSaved(a)
    \/ \E a \in Muter : MuteExpires(a)

Spec == Init /\ [][Next]_vars

-----------------------------------------------------------------------------
(* Properties                                                              *)

\* comment_count, kept up by +1 and -1, is the number of live comments: the
\* unread number of an account without a row depends on it.
CommentCountExact == comment_count = Cardinality(Live)

\* What there is to read for an account: nothing while it mutes the thread,
\* and the live comments after the last one it read as soon as it no longer does.
Unread(a) == IF Muted(a) THEN {} ELSE UnreadAfter(LastRead(a))

\* Whoever has not left the channel since it last read the thread is shown exactly
\* what there is to read, whichever of the four ways created its row: reading or
\* commenting makes good what an absence missed, and the end of a mute brings
\* back what was written, deleted or read during it.
UnreadExactForStayers ==
    \A a \in Account \ leftSinceRead : UnreadShown(a) = Cardinality(Unread(a))

\* Nobody, not even an account that left and came back, is shown an unread
\* comment that does not exist.
UnreadNeverOvercounts ==
    \A a \in Account : UnreadShown(a) <= Cardinality(Unread(a))

\* What is shown as unread is real: exactly so for whoever stayed since it
\* last read, and never more than there is for anybody else; a thread one
\* mutes shows nothing (load_threads, load_channels).
UnreadShownIsReal == UnreadExactForStayers /\ UnreadNeverOvercounts

\* While an account is not a member (or is disabled) nothing of the thread
\* reaches its notifications and mentions, and none is marked read behind its back.
StrangersAlertsFrozen ==
    [][\A a \in Account : ~CanViewSource(a) =>
           /\ {n \in notifications' : n.account = a} = {n \in notifications : n.account = a}
           /\ {t \in mentions' : t.account = a} = {t \in mentions : t.account = a}]_vars

\* The count every row was given by migration 20260501000002 holds for whoever
\* is a member: the live comments after last_read_index.
UnreadExact ==
    \A a \in DOMAIN thread_reads \cap channel_members : thread_reads[a].unread_count =
        Cardinality(UnreadAfter(thread_reads[a].last_read_index))

\* "Next unread" leads to a thread its account can open (and so mark read).
NextUnreadOpens ==
    \A a \in Account : NextUnreadOffers(a) /\ Active(a) => CanViewChannel(a)
=============================================================================
