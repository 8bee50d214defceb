---------------------------- MODULE ThreadsProofs ----------------------------
(***************************************************************************)
(* Proofs about Threads, for any accounts and any number of comments: its  *)
(* types, its counters, and who is alerted.                                *)
(***************************************************************************)
EXTENDS Threads, FiniteSetTheorems, TLAPS

USE CreatorIsAccount, BodiesMention, BoundsKnown

-----------------------------------------------------------------------------
(* Types.                                                                  *)

LEMMA LiveFinite ==
    ASSUME TypeOK
    PROVE  /\ Live \subseteq 1..last_comment_index
           /\ IsFiniteSet(Live) /\ Cardinality(Live) \in Nat
           /\ \A i \in Int : /\ IsFiniteSet(UnreadAfter(i))
                             /\ Cardinality(UnreadAfter(i)) \in Nat
<1>1. Live \subseteq 1..last_comment_index /\ last_comment_index \in Int
  BY DEF TypeOK, Live
<1>2. IsFiniteSet(Live)
  <2>1. IsFiniteSet(1..last_comment_index)
    BY <1>1, FS_Interval
  <2> QED BY <1>1, <2>1, FS_Subset
<1>3. \A i : UnreadAfter(i) \subseteq Live
  BY DEF UnreadAfter
<1> QED BY <1>1, <1>2, <1>3, FS_Subset, FS_CardinalityType

LEMMA UpsertTyped ==
    ASSUME TypeOK, NEW a \in Account, NEW row \in ReadRow,
           thread_reads' = Upsert(thread_reads, a, row)
    PROVE  /\ thread_reads' \in [DOMAIN thread_reads' -> ReadRow]
           /\ DOMAIN thread_reads' = DOMAIN thread_reads \cup {a}
           /\ DOMAIN thread_reads' \subseteq Account
           /\ thread_reads'[a] = row
           /\ \A x \in DOMAIN thread_reads \ {a} :
                thread_reads'[x] = thread_reads[x]
  BY DEF Upsert, TypeOK

\* What AddComment makes of the rows.
LEMMA CountCommentTyped ==
    ASSUME TypeOK, NEW actor \in Account, NEW index \in Nat,
           thread_reads' = CountComment(actor, index)
    PROVE  /\ thread_reads' \in [DOMAIN thread_reads' -> ReadRow]
           /\ DOMAIN thread_reads' \subseteq Account
<1> DEFINE D == DOMAIN thread_reads \cup channel_members \cup {actor}
<1>1. ASSUME NEW a \in D PROVE CountComment(actor, index)[a] \in ReadRow
  <2>1. CASE a \notin DOMAIN thread_reads
    <3>1. Unmuted(index, 0) \in ReadRow /\ Unmuted(0, comment_count + 1) \in ReadRow
      BY DEF Unmuted, ReadRow, TypeOK
    <3> QED BY <2>1, <3>1 DEF CountComment
  <2>2. CASE a \in DOMAIN thread_reads
    <3> DEFINE row == thread_reads[a]
    <3>1. row \in ReadRow
      BY <2>2 DEF TypeOK
    <3>2. /\ [row EXCEPT !.last_read_index = index, !.unread_count = 0] \in ReadRow
          /\ [row EXCEPT !.unread_count = row.unread_count + 1] \in ReadRow
      <4>1. row.unread_count + 1 \in Nat /\ index \in Nat \cup {-1}
        BY <3>1 DEF ReadRow
      <4>2. [row EXCEPT !.last_read_index = index, !.unread_count = 0] \in ReadRow
        BY <3>1, <4>1 DEF ReadRow
      <4>3. [row EXCEPT !.unread_count = row.unread_count + 1] \in ReadRow
        BY <3>1, <4>1 DEF ReadRow
      <4> QED BY <4>2, <4>3
    <3>3. CountComment(actor, index)[a] \in
            {[row EXCEPT !.last_read_index = index, !.unread_count = 0],
             [row EXCEPT !.unread_count = row.unread_count + 1], row}
      BY <2>2 DEF CountComment
    <3> QED BY <3>1, <3>2, <3>3
  <2> QED BY <2>1, <2>2
<1>2. DOMAIN thread_reads' = D
  BY DEF CountComment
<1>3. D \subseteq Account
  BY DEF TypeOK
<1>4. \A a \in D : thread_reads'[a] \in ReadRow
  BY <1>1
<1>5. thread_reads' = [a \in D |-> thread_reads'[a]]
  BY DEF CountComment
<1> QED BY <1>2, <1>3, <1>4, <1>5

LEMMA UncountCommentTyped ==
    ASSUME TypeOK, NEW index \in Nat, thread_reads' = UncountComment(index)
    PROVE  /\ thread_reads' \in [DOMAIN thread_reads' -> ReadRow]
           /\ DOMAIN thread_reads' = DOMAIN thread_reads
<1>1. ASSUME NEW a \in DOMAIN thread_reads
      PROVE  UncountComment(index)[a] \in ReadRow
  <2>1. thread_reads[a] \in ReadRow
    BY DEF TypeOK
  <2> QED BY <2>1 DEF UncountComment, ReadRow
<1>2. DOMAIN thread_reads' = DOMAIN thread_reads
  BY DEF UncountComment
<1>3. thread_reads' = [a \in DOMAIN thread_reads |-> thread_reads'[a]]
  BY DEF UncountComment
<1> QED BY <1>1, <1>2, <1>3

LEMMA NotifiedTyped ==
    ASSUME NEW actor, NEW kind \in {"mention", "reply"}, NEW index \in Nat,
           NEW accounts, TypeOK
    PROVE  /\ Notified(actor, kind, index, accounts) \subseteq NotificationRow
           /\ Mention(index, Mentioned(actor, accounts)) \subseteq MentionRow
<1>1. \A a : CanViewSource(a) => a \in Account
  BY DEF CanViewSource, TypeOK
<1>2. ASSUME NEW n \in Notified(actor, kind, index, accounts)
      PROVE  n \in NotificationRow
  <2>1. PICK a \in accounts :
          MayNotify(actor, a) /\ n = [account |-> a, kind |-> kind,
                                      obj_index |-> index, read |-> FALSE]
    BY DEF Notified
  <2> QED BY <1>1, <2>1 DEF MayNotify, NotificationRow
<1>3. ASSUME NEW t \in Mention(index, Mentioned(actor, accounts))
      PROVE  t \in MentionRow
  <2>1. PICK a \in Mentioned(actor, accounts) :
          t = [account |-> a, obj_index |-> index, read |-> FALSE]
    BY DEF Mention
  <2> QED BY <1>1, <2>1 DEF Mentioned, MentionRow
<1> QED BY <1>2, <1>3

LEMMA InitTyped == Init => TypeOK
<1> SUFFICES ASSUME Init PROVE TypeOK
  OBVIOUS
<1>1. last_comment_index = 0 /\ 1..0 = {}
  BY DEF Init
<1>2. comments \in [1..last_comment_index -> CommentRow]
  BY <1>1 DEF Init
<1>3. thread_reads \in [DOMAIN thread_reads -> ReadRow]
      /\ DOMAIN thread_reads \subseteq Account
  BY DEF Init
<1>4. last_comment_index \in Nat /\ comment_count \in Nat
  BY DEF Init
<1> QED BY <1>2, <1>3, <1>4 DEF Init, TypeOK

\* A new comment takes the next index, and is live.
LEMMA CommentsAppended ==
    ASSUME TypeOK, NEW actor \in Account, NEW body \in Body,
           AddComment(actor, body)
    PROVE  /\ last_comment_index' = last_comment_index + 1
           /\ comments' \in [1..last_comment_index' -> CommentRow]
           /\ last_comment_index' \notin Live
           /\ Live' = Live \cup {last_comment_index'}
<1> DEFINE n == last_comment_index
<1>1. /\ n \in Nat /\ comments \in [1..n -> CommentRow] /\ n' = n + 1
      /\ comments' = Upsert(comments, n + 1, [author |-> actor, deleted |-> FALSE])
  BY DEF TypeOK, AddComment, CommentCreated
<1>2. (1..n) \cup {n + 1} = 1..n + 1 /\ n + 1 \notin 1..n
  BY <1>1
<1>3. /\ DOMAIN comments' = 1..n + 1
      /\ comments'[n + 1] = [author |-> actor, deleted |-> FALSE]
      /\ \A i \in 1..n : comments'[i] = comments[i]
      /\ comments' = [i \in 1..n + 1 |-> comments'[i]]
  BY <1>1, <1>2 DEF Upsert
<1>4. comments' \in [1..n + 1 -> CommentRow]
  <2>1. \A i \in 1..n + 1 : i \in 1..n \/ i = n + 1
    BY <1>2
  <2>2. [author |-> actor, deleted |-> FALSE] \in CommentRow
    BY DEF CommentRow
  <2>3. \A i \in 1..n + 1 : comments'[i] \in CommentRow
    BY <1>1, <1>3, <2>1, <2>2
  <2> QED BY <1>3, <2>3
<1>5. DOMAIN comments = 1..n /\ (1..n + 1) = (1..n) \cup {n + 1}
  BY <1>1, <1>2
<1>6. Live' = Live \cup {n + 1}
  BY <1>3, <1>5 DEF Live
<1> QED BY <1>1, <1>2, <1>4, <1>5, <1>6 DEF Live

LEMMA CommentDeleted ==
    ASSUME TypeOK, NEW actor \in Account, NEW index \in DOMAIN comments,
           SoftDeleteComment(actor, index)
    PROVE  /\ index \in Live /\ index \in Nat
           /\ last_comment_index' = last_comment_index
           /\ comments' \in [1..last_comment_index -> CommentRow]
           /\ Live' = Live \ {index}
<1>1. /\ comments \in [1..last_comment_index -> CommentRow]
      /\ index \in 1..last_comment_index /\ last_comment_index \in Nat
  BY DEF TypeOK
<1>2. /\ comments' = [comments EXCEPT ![index].deleted = TRUE]
      /\ index \in Live /\ last_comment_index' = last_comment_index
  BY DEF SoftDeleteComment, Deletable
<1>3. [comments[index] EXCEPT !.deleted = TRUE] \in CommentRow
  <2>1. comments[index] \in CommentRow
    BY <1>1
  <2> QED BY <2>1 DEF CommentRow
<1>4. comments' \in [1..last_comment_index -> CommentRow]
  BY ONLY <1>1, <1>2, <1>3
<1>5. Live' = Live \ {index}
  BY <1>1, <1>2, <1>3 DEF Live, CommentRow
<1> QED BY <1>1, <1>2, <1>4, <1>5

LEMMA MutedTyped == TypeOK => \A a : Muted(a) \in BOOLEAN
  BY DEF Muted, TypeOK, ReadRow

\* The row that marking, muting or saving leaves.
LEMMA ReadStateTyped ==
    ASSUME TypeOK, NEW a \in Account,
           \/ \E muted \in BOOLEAN : UpsertReadState(a, muted)
           \/ SetRead(a, last_comment_index, 0)
           \/ SetRead(a, last_comment_index - 1,
                      Cardinality(UnreadAfter(last_comment_index - 1)))
    PROVE  /\ thread_reads' \in [DOMAIN thread_reads' -> ReadRow]
           /\ DOMAIN thread_reads' = DOMAIN thread_reads \cup {a}
           /\ DOMAIN thread_reads' \subseteq Account
<1>1. Muted(a) \in BOOLEAN
  BY MutedTyped
<1>2. CASE SetRead(a, last_comment_index, 0)
  <2>1. [last_read_index |-> last_comment_index, unread_count |-> 0,
         muted |-> Muted(a)] \in ReadRow
    BY <1>1 DEF ReadRow, TypeOK
  <2> QED BY <1>2, <2>1, UpsertTyped DEF SetRead
<1>3. CASE SetRead(a, last_comment_index - 1,
                   Cardinality(UnreadAfter(last_comment_index - 1)))
  <2>1. /\ last_comment_index - 1 \in Nat \cup {-1}
        /\ last_comment_index - 1 \in Int
    BY DEF TypeOK
  <2>2. Cardinality(UnreadAfter(last_comment_index - 1)) \in Nat
    BY <2>1, LiveFinite
  <2>3. [last_read_index |-> last_comment_index - 1,
         unread_count |-> Cardinality(UnreadAfter(last_comment_index - 1)),
         muted |-> Muted(a)] \in ReadRow
    BY <1>1, <2>1, <2>2 DEF ReadRow
  <2>4. thread_reads' = Upsert(thread_reads, a,
            [last_read_index |-> last_comment_index - 1,
             unread_count |-> Cardinality(UnreadAfter(last_comment_index - 1)),
             muted |-> Muted(a)])
    BY <1>3 DEF SetRead
  <2> QED BY <2>3, <2>4, UpsertTyped
<1>4. ASSUME NEW muted \in BOOLEAN, UpsertReadState(a, muted)
      PROVE  /\ thread_reads' \in [DOMAIN thread_reads' -> ReadRow]
             /\ DOMAIN thread_reads' = DOMAIN thread_reads \cup {a}
             /\ DOMAIN thread_reads' \subseteq Account
  <2>1. CASE a \in DOMAIN thread_reads
    BY <1>4, <2>1 DEF UpsertReadState, TypeOK, ReadRow
  <2>2. CASE a \notin DOMAIN thread_reads
    <3>1. [last_read_index |-> 0, unread_count |-> Cardinality(Live),
           muted |-> muted] \in ReadRow
      BY LiveFinite DEF ReadRow
    <3> QED BY <1>4, <2>2, <3>1, UpsertTyped DEF UpsertReadState
  <2> QED BY <2>1, <2>2
<1> QED BY <1>2, <1>3, <1>4

LEMMA StepTyped == TypeOK /\ [Next]_vars => TypeOK'
<1> SUFFICES ASSUME TypeOK, [Next]_vars PROVE TypeOK'
  OBVIOUS
<1> USE DEF channel, threadFlags, alerts, posts
<1>1. CASE UNCHANGED vars
  BY <1>1 DEF TypeOK, vars
<1>2. ASSUME NEW a \in Account, JoinChannel(a) \/ LeaveChannel(a) PROVE TypeOK'
  BY <1>2 DEF TypeOK, JoinChannel, LeaveChannel, RemoveMember
<1>3. ASSUME NEW actor \in Account, NEW a \in Account,
             AddChannelMember(actor, a) \/ RemoveChannelMember(actor, a)
      PROVE TypeOK'
  BY <1>3 DEF TypeOK, AddChannelMember, RemoveChannelMember, RemoveMember
<1>4. ASSUME NEW a \in Account, NEW archived \in BOOLEAN,
             SetChannelArchived(a, archived) \/ SetThreadArchived(a, archived)
      PROVE TypeOK'
  BY <1>4 DEF TypeOK, SetChannelArchived, SetThreadArchived
<1>5. ASSUME NEW a \in MayDisable, NEW isDisabled \in BOOLEAN,
             SetUserDisabled(a, isDisabled)
      PROVE TypeOK'
  BY <1>5 DEF TypeOK, SetUserDisabled
<1>6. ASSUME NEW a \in Account, NEW title \in Body, CreateThread(a, title)
      PROVE TypeOK'
  <2>1. /\ thread_reads' \in [DOMAIN thread_reads' -> ReadRow]
        /\ DOMAIN thread_reads' \subseteq Account
    <3>1. Unmuted(0, 0) \in ReadRow
      BY DEF Unmuted, ReadRow
    <3> QED BY <1>6, <3>1, UpsertTyped DEF CreateThread, ThreadCreated
  <2>2. notifications' \subseteq NotificationRow /\ mentions' \subseteq MentionRow
    BY <1>6, NotifiedTyped DEF CreateThread, ThreadCreated, TypeOK
  <2> QED BY <1>6, <2>1, <2>2 DEF TypeOK, CreateThread, ThreadCreated
<1>7. ASSUME NEW a \in Account, DeleteThread(a) PROVE TypeOK'
  BY <1>7 DEF TypeOK, DeleteThread
<1>8. ASSUME NEW a \in Account, NEW body \in Body, AddComment(a, body)
      PROVE TypeOK'
  <2>1. last_comment_index + 1 \in Nat /\ comment_count' \in Nat
    BY <1>8 DEF TypeOK, AddComment, CommentCreated
  <2>2. /\ thread_reads' \in [DOMAIN thread_reads' -> ReadRow]
        /\ DOMAIN thread_reads' \subseteq Account
    BY <1>8, <2>1, CountCommentTyped DEF AddComment, CommentCreated
  <2>3. notifications' \subseteq NotificationRow /\ mentions' \subseteq MentionRow
    BY <1>8, <2>1, NotifiedTyped DEF AddComment, CommentCreated, TypeOK
  <2> QED BY <1>8, <2>1, <2>2, <2>3, CommentsAppended DEF TypeOK, AddComment, CommentCreated
<1>9. ASSUME NEW a \in Account, NEW i \in DOMAIN comments,
             SoftDeleteComment(a, i)
      PROVE TypeOK'
  <2>1. comment_count' \in Nat
    BY <1>9 DEF TypeOK, SoftDeleteComment
  <2>2. /\ thread_reads' \in [DOMAIN thread_reads' -> ReadRow]
        /\ DOMAIN thread_reads' \subseteq Account
    BY <1>9, CommentDeleted, UncountCommentTyped DEF SoftDeleteComment, TypeOK
  <2> QED BY <1>9, <2>1, <2>2, CommentDeleted DEF TypeOK, SoftDeleteComment
<1>10. ASSUME NEW a \in Account, MarkThreadRead(a) PROVE TypeOK'
  <2>1. /\ thread_reads' \in [DOMAIN thread_reads' -> ReadRow]
        /\ DOMAIN thread_reads' \subseteq Account
    BY <1>10, ReadStateTyped DEF MarkThreadRead
  <2>2. ASSUME NEW n \in notifications' PROVE n \in NotificationRow
    <3>1. PICK o \in notifications : n = o \/ n = [o EXCEPT !.read = TRUE]
      BY <1>10 DEF MarkThreadRead
    <3> QED BY <3>1 DEF TypeOK, NotificationRow
  <2>3. ASSUME NEW t \in mentions' PROVE t \in MentionRow
    <3>1. PICK o \in mentions : t = o \/ t = [o EXCEPT !.read = TRUE]
      BY <1>10 DEF MarkThreadRead
    <3> QED BY <3>1 DEF TypeOK, MentionRow
  <2> QED BY <1>10, <2>1, <2>2, <2>3 DEF TypeOK, MarkThreadRead, SetRead
<1>11. ASSUME NEW a \in Account, MarkThreadUnread(a) PROVE TypeOK'
  <2>1. /\ thread_reads' \in [DOMAIN thread_reads' -> ReadRow]
        /\ DOMAIN thread_reads' \subseteq Account
    BY <1>11, ReadStateTyped DEF MarkThreadUnread
  <2> QED BY <1>11, <2>1 DEF TypeOK, MarkThreadUnread, SetRead
<1>12. ASSUME NEW a \in Muter, NEW muted \in BOOLEAN, SetThreadMuted(a, muted)
       PROVE TypeOK'
  <2>1. /\ thread_reads' \in [DOMAIN thread_reads' -> ReadRow]
        /\ DOMAIN thread_reads' \subseteq Account
    <3>1. a \in Account /\ UpsertReadState(a, muted)
      BY <1>12 DEF SetThreadMuted
    <3> QED BY <3>1, ReadStateTyped
  <2> QED BY <1>12, <2>1 DEF TypeOK, SetThreadMuted
<1>13. ASSUME NEW a \in Account, SetThreadSaved(a) PROVE TypeOK'
  <2>1. \E muted \in BOOLEAN : UpsertReadState(a, muted)
    BY <1>13, MutedTyped DEF SetThreadSaved
  <2>2. /\ thread_reads' \in [DOMAIN thread_reads' -> ReadRow]
        /\ DOMAIN thread_reads' \subseteq Account
    BY <2>1, ReadStateTyped
  <2> QED BY <1>13, <2>2 DEF TypeOK, SetThreadSaved
<1>14. ASSUME NEW a \in Muter, MuteExpires(a) PROVE TypeOK'
  BY <1>14 DEF TypeOK, MuteExpires, Muted, ReadRow
<1> QED BY <1>1, <1>2, <1>3, <1>4, <1>5, <1>6, <1>7, <1>8, <1>9, <1>10, <1>11,
           <1>12, <1>13, <1>14 DEF Next

\* Every reachable state of the channel, the thread and its rows is well-formed.
THEOREM TypeCorrect == Spec => []TypeOK
BY InitTyped, StepTyped, PTL DEF Spec

-----------------------------------------------------------------------------
(* Counters.  A row never counts more than there is after what its account *)
(* read, and counts all of it unless the account left and has not read     *)
(* since; only those have a row without being a member.  Before the thread *)
(* there is nothing to read.                                               *)

Right(row, exact) ==
    /\ row.last_read_index <= last_comment_index
    /\ row.unread_count <= Cardinality(UnreadAfter(row.last_read_index))
    /\ exact => row.unread_count = Cardinality(UnreadAfter(row.last_read_index))

CountInv ==
    /\ CommentCountExact
    /\ thread = None => last_comment_index = 0
    /\ DOMAIN thread_reads \subseteq channel_members \cup leftSinceRead
    /\ \A a \in DOMAIN thread_reads : Right(thread_reads[a], a \notin leftSinceRead)

LEMMA AllUnread == TypeOK => UnreadAfter(0) = Live
  BY LiveFinite DEF UnreadAfter

LEMMA NoneAfterLast ==
    ASSUME TypeOK
    PROVE  Cardinality(UnreadAfter(last_comment_index)) = 0
<1>1. UnreadAfter(last_comment_index) = {}
  BY LiveFinite DEF UnreadAfter, TypeOK
<1> QED BY <1>1, FS_EmptySet

\* A new comment is one more after everything that was read before it, and
\* nothing is after it.
LEMMA AppendedCounts ==
    ASSUME TypeOK, TypeOK', NEW actor \in Account, NEW body \in Body,
           AddComment(actor, body)
    PROVE  /\ \A i \in Int : i <= last_comment_index =>
                Cardinality(UnreadAfter(i)') = Cardinality(UnreadAfter(i)) + 1
           /\ Cardinality(Live') = Cardinality(Live) + 1
<1> DEFINE n == last_comment_index + 1
<1>1. n \notin Live /\ Live' = Live \cup {n} /\ n \in Nat
  BY CommentsAppended DEF TypeOK
<1>2. Cardinality(Live') = Cardinality(Live) + 1
  BY <1>1, LiveFinite, FS_AddElement
<1>3. ASSUME NEW i \in Int, i <= last_comment_index
      PROVE  Cardinality(UnreadAfter(i)') = Cardinality(UnreadAfter(i)) + 1
  <2>1. n > i
    BY <1>3 DEF TypeOK
  <2>2. UnreadAfter(i)' = UnreadAfter(i) \cup {n} /\ n \notin UnreadAfter(i)
    BY <1>1, <2>1 DEF UnreadAfter
  <2> QED BY <2>2, LiveFinite, FS_AddElement
<1> QED BY <1>2, <1>3

\* A deleted comment is one less after everything read before it only.
LEMMA DeletedCounts ==
    ASSUME TypeOK, NEW actor \in Account, NEW index \in DOMAIN comments,
           SoftDeleteComment(actor, index)
    PROVE  /\ \A i \in Int :
                Cardinality(UnreadAfter(i)') =
                  IF i < index THEN Cardinality(UnreadAfter(i)) - 1
                  ELSE Cardinality(UnreadAfter(i))
           /\ Cardinality(Live') = Cardinality(Live) - 1
<1>1. index \in Live /\ index \in Nat /\ Live' = Live \ {index}
  BY CommentDeleted
<1>2. Cardinality(Live') = Cardinality(Live) - 1
  BY <1>1, LiveFinite, FS_RemoveElement
<1>3. ASSUME NEW i \in Int, i < index
      PROVE  Cardinality(UnreadAfter(i)') = Cardinality(UnreadAfter(i)) - 1
  <2>1. UnreadAfter(i)' = UnreadAfter(i) \ {index} /\ index \in UnreadAfter(i)
    BY <1>1, <1>3 DEF UnreadAfter
  <2> QED BY <2>1, LiveFinite, FS_RemoveElement
<1>4. ASSUME NEW i \in Int, ~(i < index)
      PROVE  UnreadAfter(i)' = UnreadAfter(i)
  BY <1>1, <1>4 DEF UnreadAfter
<1> QED BY <1>1, <1>2, <1>3, <1>4

\* What makes a row right after a step.
LEMMA RightAfterStep ==
    ASSUME NEW a, NEW k \in Int, NEW c \in Nat,
           thread_reads'[a].last_read_index = k,
           thread_reads'[a].unread_count = c,
           k <= last_comment_index',
           c <= Cardinality(UnreadAfter(k)'),
           a \notin leftSinceRead' => c = Cardinality(UnreadAfter(k)')
    PROVE  Right(thread_reads[a], a \notin leftSinceRead)'
<1>1. UnreadAfter(thread_reads[a].last_read_index)' = UnreadAfter(k)'
  BY DEF UnreadAfter
<1> QED BY <1>1 DEF Right

\* The rows a comment leaves count it, or have read it.
LEMMA CommentCounted ==
    ASSUME TypeOK, TypeOK', CountInv, NEW actor \in Account, NEW body \in Body,
           AddComment(actor, body)
    PROVE  CountInv'
<1>0. PICK n \in Nat : n = last_comment_index + 1
  BY DEF TypeOK
<1> DEFINE D == DOMAIN thread_reads \cup channel_members \cup {actor}
<1>1. /\ last_comment_index' = n /\ comment_count' = comment_count + 1
      /\ thread_reads' = CountComment(actor, n) /\ actor \in channel_members
      /\ UNCHANGED channel_members /\ leftSinceRead' = leftSinceRead \ {actor}
  BY <1>0 DEF AddComment, CommentCreated, CanViewChannel, channel
<1>2. CommentCountExact'
  BY <1>1, AppendedCounts DEF CountInv, CommentCountExact
<1>3. DOMAIN thread_reads' = D /\ D \subseteq channel_members \cup leftSinceRead
  BY <1>1 DEF CountComment, CountInv
<1>4. ASSUME NEW a \in D, a = actor
      PROVE  Right(thread_reads[a], a \notin leftSinceRead)'
  <2>1. thread_reads'[a].last_read_index = n /\ thread_reads'[a].unread_count = 0
    BY <1>1, <1>4 DEF CountComment, Unmuted, TypeOK, ReadRow
  <2>2. UnreadAfter(n)' = {}
    BY <1>1 DEF TypeOK, UnreadAfter, Live
  <2>3. Cardinality(UnreadAfter(n)') = 0
    BY <2>2, FS_EmptySet
  <2> QED BY <1>1, <2>1, <2>3, RightAfterStep
<1>5. ASSUME NEW a \in D, a # actor, a \notin DOMAIN thread_reads
      PROVE  Right(thread_reads[a], a \notin leftSinceRead)'
  <2>1. PICK c \in Nat : c = comment_count + 1
    BY DEF TypeOK
  <2>2. thread_reads'[a] = Unmuted(0, c)
    BY <1>1, <1>5, <2>1 DEF CountComment
  <2>3. thread_reads'[a].last_read_index = 0 /\ thread_reads'[a].unread_count = c
    BY <2>2 DEF Unmuted
  <2>4. Cardinality(UnreadAfter(0)) = comment_count
    BY AllUnread DEF CountInv, CommentCountExact
  <2>5. Cardinality(UnreadAfter(0)') = c
    BY <2>1, <2>4, AppendedCounts DEF TypeOK
  <2> QED BY <1>1, <2>3, <2>5, RightAfterStep
<1>6. ASSUME NEW a \in DOMAIN thread_reads, a # actor
      PROVE  Right(thread_reads[a], a \notin leftSinceRead)'
  <2>1. PICK i \in Int, c \in Nat : thread_reads[a].last_read_index = i
                                    /\ thread_reads[a].unread_count = c
    BY DEF TypeOK, ReadRow
  <2>2. /\ i <= last_comment_index
        /\ c <= Cardinality(UnreadAfter(i))
        /\ a \notin leftSinceRead => c = Cardinality(UnreadAfter(i))
    BY <2>1 DEF CountInv, Right
  <2>3. /\ thread_reads'[a].last_read_index = i
        /\ thread_reads'[a].unread_count =
              IF a \in channel_members THEN c + 1 ELSE c
    BY <1>1, <1>6, <2>1 DEF CountComment, TypeOK, ReadRow
  <2>4. Cardinality(UnreadAfter(i)') = Cardinality(UnreadAfter(i)) + 1
    BY <2>2, AppendedCounts
  <2>5. Cardinality(UnreadAfter(i)) \in Nat
    BY LiveFinite
  <2>6. a \notin leftSinceRead => a \in channel_members
    BY DEF CountInv
  <2>7. i <= last_comment_index'
    BY <1>0, <1>1, <2>2 DEF TypeOK
  <2>8. PICK d \in Nat : d = thread_reads'[a].unread_count
    BY <2>3
  <2>9. d <= Cardinality(UnreadAfter(i)')
        /\ (a \notin leftSinceRead' => d = Cardinality(UnreadAfter(i)'))
    BY <1>1, <1>6, <2>2, <2>3, <2>4, <2>5, <2>6, <2>8
  <2> QED BY <2>3, <2>7, <2>8, <2>9, RightAfterStep
<1>7. thread' # None
  BY DEF AddComment, CommentCreated, ThreadExists, threadFlags
<1> QED BY <1>1, <1>2, <1>3, <1>4, <1>5, <1>6, <1>7 DEF CountInv

\* The rows a deleted comment leaves no longer count it if they did.
LEMMA DeletionCounted ==
    ASSUME TypeOK, CountInv, NEW actor \in Account, NEW index \in DOMAIN comments,
           SoftDeleteComment(actor, index)
    PROVE  CountInv'
<1>1. /\ index \in Live /\ thread' # None
      /\ comment_count' = IF comment_count > 0 THEN comment_count - 1 ELSE 0
      /\ thread_reads' = UncountComment(index)
      /\ UNCHANGED <<last_comment_index, channel_members, leftSinceRead>>
  BY CommentDeleted DEF SoftDeleteComment, channel, ThreadExists, threadFlags
<1>2. CommentCountExact'
  <2>1. Cardinality(Live') = Cardinality(Live) - 1 /\ Cardinality(Live') \in Nat
    <3>1. Live' = Live \ {index}
      BY CommentDeleted
    <3>2. IsFiniteSet(Live')
      BY <3>1, LiveFinite, FS_RemoveElement
    <3> QED BY <3>2, DeletedCounts, FS_CardinalityType
  <2> QED BY <1>1, <2>1, LiveFinite DEF CountInv, CommentCountExact
<1>3. DOMAIN thread_reads' = DOMAIN thread_reads
  BY <1>1 DEF UncountComment
<1>4. ASSUME NEW a \in DOMAIN thread_reads
      PROVE  Right(thread_reads[a], a \notin leftSinceRead)'
  <2>1. PICK i \in Int, c \in Nat : thread_reads[a].last_read_index = i
                                    /\ thread_reads[a].unread_count = c
    BY DEF TypeOK, ReadRow
  <2>2. /\ i <= last_comment_index
        /\ c <= Cardinality(UnreadAfter(i))
        /\ a \notin leftSinceRead => c = Cardinality(UnreadAfter(i))
    BY <2>1 DEF CountInv, Right
  <2>3. /\ thread_reads'[a].last_read_index = i
        /\ thread_reads'[a].unread_count =
              IF c > 0 /\ i < index THEN c - 1 ELSE c
    BY <1>1, <2>1 DEF UncountComment, TypeOK, ReadRow
  <2>4. PICK d \in Nat : d = thread_reads'[a].unread_count
    BY <2>3
  <2>5. /\ Cardinality(UnreadAfter(i)) \in Nat
        /\ Cardinality(UnreadAfter(i)') =
              IF i < index THEN Cardinality(UnreadAfter(i)) - 1
              ELSE Cardinality(UnreadAfter(i))
    BY LiveFinite, DeletedCounts
  <2>6. i < index => Cardinality(UnreadAfter(i)) > 0
    <3>1. i < index => index \in UnreadAfter(i)
      BY <1>1, LiveFinite DEF UnreadAfter
    <3> QED BY <2>5, <3>1, LiveFinite, FS_EmptySet
  <2>7. d <= Cardinality(UnreadAfter(i)')
        /\ (a \notin leftSinceRead' => d = Cardinality(UnreadAfter(i)'))
    BY <1>1, <2>2, <2>3, <2>4, <2>5, <2>6
  <2> QED BY <1>1, <2>2, <2>3, <2>4, <2>7, RightAfterStep
<1> QED BY <1>1, <1>2, <1>3, <1>4 DEF CountInv

\* A step that leaves the comments alone and changes at most the row of one
\* member keeps the counters right if that row is right.
LEMMA OneRowCounted ==
    ASSUME TypeOK, CountInv, NEW a \in channel_members,
           UNCHANGED <<posts, channel_members>>,
           leftSinceRead' = leftSinceRead \/ leftSinceRead' = leftSinceRead \ {a},
           thread' = None => thread = None,
           DOMAIN thread_reads' = DOMAIN thread_reads \cup {a},
           \A x \in DOMAIN thread_reads \ {a} : thread_reads'[x] = thread_reads[x],
           Right(thread_reads'[a], a \notin leftSinceRead')
    PROVE  CountInv'
<1> USE DEF posts
<1>1. \A i : UnreadAfter(i)' = UnreadAfter(i)
  BY DEF UnreadAfter, Live
<1>2. CommentCountExact'
  BY DEF CountInv, CommentCountExact, Live
<1>3. ASSUME NEW x \in DOMAIN thread_reads'
      PROVE  Right(thread_reads[x], x \notin leftSinceRead)'
  <2>1. Right(thread_reads'[x], x \notin leftSinceRead')
    BY DEF CountInv
  <2> QED BY <2>1 DEF Right, UnreadAfter, Live
<1> QED BY <1>2, <1>3 DEF CountInv

LEMMA ReadStateCounted ==
    ASSUME TypeOK, CountInv, NEW a \in channel_members,
           UNCHANGED <<posts, channel_members, thread>>,
           \/ SetRead(a, last_comment_index, 0)
           \/ SetRead(a, last_comment_index - 1,
                      Cardinality(UnreadAfter(last_comment_index - 1)))
           \/ /\ \E muted \in BOOLEAN : UpsertReadState(a, muted)
              /\ UNCHANGED leftSinceRead
    PROVE  CountInv'
<1>1. ASSUME NEW i \in Int, NEW c \in Nat, i <= last_comment_index,
             c = Cardinality(UnreadAfter(i)), SetRead(a, i, c)
      PROVE  CountInv'
  <2>1. /\ DOMAIN thread_reads' = DOMAIN thread_reads \cup {a}
        /\ \A x \in DOMAIN thread_reads \ {a} : thread_reads'[x] = thread_reads[x]
        /\ thread_reads'[a].last_read_index = i /\ thread_reads'[a].unread_count = c
    BY <1>1 DEF SetRead, Upsert
  <2>2. UnreadAfter(thread_reads'[a].last_read_index) = UnreadAfter(i)
    BY <2>1 DEF UnreadAfter
  <2>3. Right(thread_reads'[a], a \notin leftSinceRead')
    BY <1>1, <2>1, <2>2 DEF Right
  <2>4. leftSinceRead' = leftSinceRead \ {a}
    BY <1>1 DEF SetRead
  <2> QED BY <2>1, <2>3, <2>4, OneRowCounted
<1>2. CASE SetRead(a, last_comment_index, 0)
  BY <1>1, <1>2, NoneAfterLast DEF TypeOK
<1>3. CASE SetRead(a, last_comment_index - 1,
                   Cardinality(UnreadAfter(last_comment_index - 1)))
  <2>1. last_comment_index - 1 \in Int /\ last_comment_index - 1 <= last_comment_index
    BY DEF TypeOK
  <2>2. Cardinality(UnreadAfter(last_comment_index - 1)) \in Nat
    BY <2>1, LiveFinite
  <2> QED BY <1>1, <1>3, <2>1, <2>2
<1>4. ASSUME NEW muted \in BOOLEAN, UpsertReadState(a, muted),
             UNCHANGED leftSinceRead
      PROVE  CountInv'
  <2>1. CASE a \in DOMAIN thread_reads
    <3>1. /\ DOMAIN thread_reads' = DOMAIN thread_reads \cup {a}
          /\ \A x \in DOMAIN thread_reads \ {a} : thread_reads'[x] = thread_reads[x]
          /\ thread_reads'[a].last_read_index = thread_reads[a].last_read_index
          /\ thread_reads'[a].unread_count = thread_reads[a].unread_count
      <4> DEFINE row == thread_reads[a]
      <4>1. row \in ReadRow
        BY <2>1 DEF TypeOK
      <4>2. /\ [row EXCEPT !.muted = muted].last_read_index = row.last_read_index
            /\ [row EXCEPT !.muted = muted].unread_count = row.unread_count
        BY <4>1 DEF ReadRow
      <4>3. thread_reads' = [x \in DOMAIN thread_reads |->
                               IF x = a THEN [row EXCEPT !.muted = muted]
                               ELSE thread_reads[x]]
        BY <1>4, <2>1 DEF UpsertReadState, TypeOK
      <4> HIDE DEF row
      <4>4. thread_reads'[a] = [row EXCEPT !.muted = muted]
        BY <2>1, <4>3
      <4> QED BY <2>1, <4>2, <4>3, <4>4 DEF row
    <3>2. UnreadAfter(thread_reads'[a].last_read_index)
            = UnreadAfter(thread_reads[a].last_read_index)
      BY <3>1 DEF UnreadAfter
    <3>3. Right(thread_reads'[a], a \notin leftSinceRead')
      BY <1>4, <2>1, <3>1, <3>2 DEF Right, CountInv
    <3> QED BY <1>4, <3>1, <3>3, OneRowCounted
  <2>2. CASE a \notin DOMAIN thread_reads
    <3>1. /\ DOMAIN thread_reads' = DOMAIN thread_reads \cup {a}
          /\ \A x \in DOMAIN thread_reads \ {a} : thread_reads'[x] = thread_reads[x]
          /\ thread_reads'[a].last_read_index = 0
          /\ thread_reads'[a].unread_count = Cardinality(Live)
      BY <1>4, <2>2 DEF UpsertReadState, Upsert
    <3>2. UnreadAfter(thread_reads'[a].last_read_index) = Live
      BY <3>1, AllUnread DEF UnreadAfter
    <3>3. Right(thread_reads'[a], a \notin leftSinceRead')
      BY <1>4, <3>1, <3>2, LiveFinite DEF Right, TypeOK
    <3> QED BY <1>4, <3>1, <3>3, OneRowCounted
  <2> QED BY <2>1, <2>2
<1> QED BY <1>2, <1>3, <1>4

\* Nothing of the counters changes when members come and go, except who has
\* once left.
LEMMA MembersCounted ==
    ASSUME TypeOK, CountInv,
           UNCHANGED <<posts, thread_reads, thread>>,
           leftSinceRead \subseteq leftSinceRead',
           channel_members \subseteq channel_members' \cup leftSinceRead'
    PROVE  CountInv'
<1> USE DEF posts
<1>1. CommentCountExact'
  BY DEF CountInv, CommentCountExact, Live
<1>2. ASSUME NEW x \in DOMAIN thread_reads
      PROVE  Right(thread_reads[x], x \notin leftSinceRead)'
  <2>1. Right(thread_reads[x], x \notin leftSinceRead)
    BY DEF CountInv
  <2> QED BY <2>1 DEF Right, UnreadAfter, Live
<1> QED BY <1>1, <1>2 DEF CountInv

LEMMA StepCounted == TypeOK /\ CountInv /\ [Next]_vars => CountInv'
<1> SUFFICES ASSUME TypeOK, CountInv, [Next]_vars PROVE CountInv'
  OBVIOUS
<1> USE DEF channel, threadFlags
<1>0. TypeOK'
  BY StepTyped
<1>1. CASE UNCHANGED vars
  BY <1>1, MembersCounted DEF vars
<1>2. ASSUME NEW a \in Account, JoinChannel(a) \/ LeaveChannel(a) PROVE CountInv'
  BY <1>2, MembersCounted DEF JoinChannel, LeaveChannel, RemoveMember
<1>3. ASSUME NEW actor \in Account, NEW a \in Account,
             AddChannelMember(actor, a) \/ RemoveChannelMember(actor, a)
      PROVE CountInv'
  BY <1>3, MembersCounted DEF AddChannelMember, RemoveChannelMember, RemoveMember
<1>4. ASSUME NEW a \in Account, NEW archived \in BOOLEAN,
             SetChannelArchived(a, archived) \/ SetThreadArchived(a, archived)
      PROVE CountInv'
  BY <1>4, MembersCounted DEF SetChannelArchived, SetThreadArchived
<1>5. ASSUME NEW a \in MayDisable, NEW isDisabled \in BOOLEAN,
             SetUserDisabled(a, isDisabled)
      PROVE CountInv'
  BY <1>5, MembersCounted DEF SetUserDisabled
<1>6. ASSUME NEW a \in Account, NEW title \in Body, CreateThread(a, title)
      PROVE CountInv'
  <2>1. /\ a \in channel_members /\ thread' # None /\ last_comment_index = 0
        /\ thread_reads' = Upsert(thread_reads, a, Unmuted(0, 0))
        /\ UNCHANGED <<posts, channel_members, leftSinceRead>>
    BY <1>6, NoneIsNobody DEF CreateThread, ThreadCreated, CanViewChannel, CountInv
  <2>2. /\ DOMAIN thread_reads' = DOMAIN thread_reads \cup {a}
        /\ \A x \in DOMAIN thread_reads \ {a} : thread_reads'[x] = thread_reads[x]
        /\ thread_reads'[a].last_read_index = 0 /\ thread_reads'[a].unread_count = 0
    BY <2>1 DEF Upsert, Unmuted
  <2>3. Cardinality(UnreadAfter(thread_reads'[a].last_read_index)) = 0
    <3>1. UnreadAfter(thread_reads'[a].last_read_index) = {}
      BY <2>1, <2>2, LiveFinite DEF UnreadAfter
    <3> QED BY <3>1, FS_EmptySet
  <2>4. Right(thread_reads'[a], a \notin leftSinceRead')
    BY <2>1, <2>2, <2>3 DEF Right
  <2> QED BY <2>1, <2>2, <2>4, OneRowCounted
<1>7. ASSUME NEW a \in Account, DeleteThread(a) PROVE CountInv'
  BY <1>7, MembersCounted DEF DeleteThread
<1>8. ASSUME NEW a \in Account, NEW body \in Body, AddComment(a, body)
      PROVE CountInv'
  BY <1>0, <1>8, CommentCounted
<1>9. ASSUME NEW a \in Account, NEW i \in DOMAIN comments, SoftDeleteComment(a, i)
      PROVE CountInv'
  BY <1>9, DeletionCounted
<1>10. ASSUME NEW a \in Account, MarkThreadRead(a) PROVE CountInv'
  BY <1>10, ReadStateCounted DEF MarkThreadRead, CanViewChannel
<1>11. ASSUME NEW a \in Account, MarkThreadUnread(a) PROVE CountInv'
  BY <1>11, ReadStateCounted DEF MarkThreadUnread, CanViewChannel
<1>12. ASSUME NEW a \in Account, NEW muted \in BOOLEAN, SetThreadMuted(a, muted)
       PROVE CountInv'
  BY <1>12, ReadStateCounted DEF SetThreadMuted, CanViewChannel
<1>13. ASSUME NEW a \in Account, SetThreadSaved(a) PROVE CountInv'
  <2>1. \E muted \in BOOLEAN : UpsertReadState(a, muted)
    BY <1>13, MutedTyped DEF SetThreadSaved
  <2> QED BY <1>13, <2>1, ReadStateCounted DEF SetThreadSaved, CanViewChannel
<1>14. ASSUME NEW a \in Muter, MuteExpires(a) PROVE CountInv'
  <2>1. /\ DOMAIN thread_reads' = DOMAIN thread_reads
        /\ UNCHANGED <<posts, channel_members, leftSinceRead, thread>>
        /\ \A x \in DOMAIN thread_reads :
              /\ thread_reads'[x].last_read_index = thread_reads[x].last_read_index
              /\ thread_reads'[x].unread_count = thread_reads[x].unread_count
    BY <1>14 DEF MuteExpires, TypeOK, ReadRow
  <2>2. CommentCountExact'
    BY <2>1 DEF CountInv, CommentCountExact, Live, posts
  <2>3. ASSUME NEW x \in DOMAIN thread_reads
        PROVE  Right(thread_reads[x], x \notin leftSinceRead)'
    <3>1. Right(thread_reads[x], x \notin leftSinceRead)
      BY DEF CountInv
    <3>2. UnreadAfter(thread_reads[x].last_read_index)'
            = UnreadAfter(thread_reads[x].last_read_index)
      BY <2>1 DEF UnreadAfter, Live, posts
    <3> QED BY <2>1, <3>1, <3>2 DEF Right, posts
  <2> QED BY <2>1, <2>2, <2>3 DEF CountInv, posts
<1> QED BY <1>1, <1>2, <1>3, <1>4, <1>5, <1>6, <1>7, <1>8, <1>9, <1>10, <1>11,
           <1>12, <1>13, <1>14, BoundsKnown DEF Next

LEMMA InitCounted == Init => CountInv
<1> SUFFICES ASSUME Init PROVE CountInv
  OBVIOUS
<1>1. Live = {} /\ DOMAIN thread_reads = {}
  BY DEF Init, Live
<1> QED BY <1>1, FS_EmptySet DEF Init, CountInv, CommentCountExact

\* The counter of an account with no row is all comments, and it has read none
\* of them; a mute hides the counter and does not change it.
LEMMA CountedShown == TypeOK /\ CountInv => CommentCountExact /\ UnreadShownIsReal
<1> SUFFICES ASSUME TypeOK, CountInv PROVE CommentCountExact /\ UnreadShownIsReal
  OBVIOUS
<1>1. ASSUME NEW a \in Account
      PROVE  /\ UnreadCount(a) <= Cardinality(UnreadAfter(LastRead(a)))
             /\ a \notin leftSinceRead =>
                  UnreadCount(a) = Cardinality(UnreadAfter(LastRead(a)))
  <2>1. CASE a \in DOMAIN thread_reads
    BY <2>1 DEF UnreadCount, LastRead, CountInv, Right
  <2>2. CASE a \notin DOMAIN thread_reads
    <3>1. UnreadCount(a) = comment_count /\ LastRead(a) = 0
      BY <2>2 DEF UnreadCount, LastRead
    <3>2. comment_count = Cardinality(UnreadAfter(0)) /\ comment_count \in Nat
      BY AllUnread DEF CountInv, CommentCountExact, TypeOK
    <3> QED BY <3>1, <3>2
  <2> QED BY <2>1, <2>2
<1>2. ASSUME NEW a \in Account
      PROVE  /\ UnreadShown(a) <= Cardinality(Unread(a))
             /\ a \notin leftSinceRead => UnreadShown(a) = Cardinality(Unread(a))
  <2>1. CASE Muted(a)
    <3>1. UnreadShown(a) = 0 /\ Unread(a) = {}
      BY <2>1 DEF UnreadShown, Unread
    <3> QED BY <3>1, FS_EmptySet
  <2>2. CASE ~Muted(a)
    <3>1. UnreadShown(a) = UnreadCount(a) /\ Unread(a) = UnreadAfter(LastRead(a))
      BY <2>2 DEF UnreadShown, Unread
    <3> QED BY <1>1, <3>1
  <2> QED BY <2>1, <2>2
<1> QED BY <1>2 DEF CountInv, UnreadShownIsReal, UnreadExactForStayers,
                    UnreadNeverOvercounts

\* The number kept by +1 and -1 is the number of live comments.
THEOREM CommentCountIsExact == Spec => []CommentCountExact
BY InitTyped, StepTyped, InitCounted, StepCounted, CountedShown, PTL DEF Spec

\* Whoever stayed in the channel is shown exactly what is live after its last
\* read comment, or nothing while it mutes the thread, and nobody is shown more.
THEOREM UnreadIsReal == Spec => []UnreadShownIsReal
BY InitTyped, StepTyped, InitCounted, StepCounted, CountedShown, PTL DEF Spec

-----------------------------------------------------------------------------
(* Alerts.                                                                 *)

Frozen(a) ==
    /\ {n \in notifications' : n.account = a} = {n \in notifications : n.account = a}
    /\ {t \in mentions' : t.account = a} = {t \in mentions : t.account = a}

\* What a comment or a title leaves is addressed to who sees the channel.
LEMMA AlertsAddressed ==
    ASSUME NEW actor, NEW kind, NEW index, NEW accounts
    PROVE  /\ \A n \in Notified(actor, kind, index, accounts) : CanViewSource(n.account)
           /\ \A body : \A t \in Mention(index, Mentioned(actor, body)) :
                 CanViewSource(t.account)
  BY DEF Notified, MayNotify, Mention, Mentioned

LEMMA StepFreezes ==
    ASSUME TypeOK, [Next]_vars, NEW a \in Account, ~CanViewSource(a)
    PROVE  Frozen(a)
<1> USE DEF alerts
<1>1. CASE UNCHANGED alerts
  BY <1>1 DEF Frozen
<1>2. ASSUME NEW actor \in Account, NEW title \in Body, CreateThread(actor, title)
      PROVE  Frozen(a)
  BY <1>2, AlertsAddressed DEF CreateThread, ThreadCreated, Frozen
<1>3. ASSUME NEW actor \in Account, NEW body \in Body, AddComment(actor, body)
      PROVE  Frozen(a)
  <2> DEFINE index == last_comment_index + 1
             news == Notified(actor, "mention", index, Mentioned(actor, body))
                       \cup Notified(actor, "reply", index, Participants)
             marks == Mention(index, Mentioned(actor, body))
  <2>1. notifications' = notifications \cup news /\ mentions' = mentions \cup marks
    BY <1>3 DEF AddComment, CommentCreated
  <2>2. /\ \A n \in news : CanViewSource(n.account)
        /\ \A t \in marks : CanViewSource(t.account)
    BY AlertsAddressed
  <2> HIDE DEF news, marks
  <2>3. (\A n \in news : n.account # a) /\ (\A t \in marks : t.account # a)
    BY <2>2
  <2> QED BY <2>1, <2>3 DEF Frozen
<1>4. ASSUME NEW actor \in Account, MarkThreadRead(actor) PROVE Frozen(a)
  <2>1. actor # a
    BY <1>4 DEF MarkThreadRead, CanViewChannel, CanViewSource
  <2>2. \A n \in notifications : [n EXCEPT !.read = TRUE].account = n.account
    BY DEF TypeOK, NotificationRow
  <2>3. \A t \in mentions : [t EXCEPT !.read = TRUE].account = t.account
    BY DEF TypeOK, MentionRow
  <2>4. /\ {n \in notifications' : n.account = a} = {n \in notifications : n.account = a}
        /\ {t \in mentions' : t.account = a} = {t \in mentions : t.account = a}
    <3>1. ASSUME NEW n PROVE (n \in notifications' /\ n.account = a)
                               <=> (n \in notifications /\ n.account = a)
      BY <1>4, <2>1, <2>2 DEF MarkThreadRead
    <3>2. ASSUME NEW t PROVE (t \in mentions' /\ t.account = a)
                               <=> (t \in mentions /\ t.account = a)
      BY <1>4, <2>1, <2>3 DEF MarkThreadRead
    <3> QED BY <3>1, <3>2
  <2> QED BY <2>4 DEF Frozen
<1>5. CASE UNCHANGED vars
  BY <1>1, <1>5 DEF vars
<1>6. ASSUME NEW b \in Account, NEW c \in Account, NEW on \in BOOLEAN,
             \/ JoinChannel(b) \/ LeaveChannel(b)
             \/ AddChannelMember(b, c) \/ RemoveChannelMember(b, c)
             \/ SetChannelArchived(b, on) \/ SetThreadArchived(b, on)
             \/ SetUserDisabled(b, on) \/ DeleteThread(b)
             \/ (\E i \in DOMAIN comments : SoftDeleteComment(b, i))
             \/ MarkThreadUnread(b)
             \/ SetThreadMuted(b, on) \/ SetThreadSaved(b) \/ MuteExpires(b)
      PROVE  UNCHANGED alerts
  BY <1>6 DEF JoinChannel, LeaveChannel, RemoveMember, AddChannelMember,
              RemoveChannelMember, SetChannelArchived, SetThreadArchived,
              SetUserDisabled, DeleteThread, SoftDeleteComment, MarkThreadUnread,
              SetThreadMuted, SetThreadSaved, MuteExpires
<1> QED BY <1>1, <1>2, <1>3, <1>4, <1>5, <1>6, BoundsKnown DEF Next

\* No step of the system touches the notifications and mentions of an account
\* that does not see the channel.
THEOREM AlertsAreFrozen == Spec => StrangersAlertsFrozen
<1>1. TypeOK /\ [Next]_vars =>
        [\A a \in Account : ~CanViewSource(a) =>
           /\ {n \in notifications' : n.account = a} = {n \in notifications : n.account = a}
           /\ {t \in mentions' : t.account = a} = {t \in mentions : t.account = a}]_vars
  BY StepFreezes DEF Frozen
<1> QED BY <1>1, InitTyped, StepTyped, PTL DEF Spec, StrangersAlertsFrozen

==============================================================================
