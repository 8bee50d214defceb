--------------------------- MODULE LiveFeedProofs ---------------------------
(***************************************************************************)
(* Proofs about LiveFeed: what a frame noticed is on screen between        *)
(* frames, with what is selected and hot labels as recent as the rest, for *)
(* any number of sessions and accounts and any capacities.                 *)
(***************************************************************************)
EXTENDS LiveFeed, TLAPS

\* Phases in which the first read of a snapshot is done.
Reading == {"event_seq", "lookup", "labels", "storing", "applying"}

\* The broadcasts are the seqs up to the row the poller is at.
FeedInv ==
    /\ PublishedOnceInOrder
    /\ Len(live_tx) = batch.next - 1
    /\ batch.step = "poll" => cursor = batch.next - 1 /\ batch.last = cursor
    /\ batch.step # "poll" => batch.next <= batch.last

\* Labels are never older than the seq they are cached under.
CacheInv ==
    \A a \in Account : hot_label_cache[a] # None =>
       hot_label_cache[a].labels >= hot_label_cache[a].event_seq

\* A refresh is due, under way, or done with what was noticed and selected.
PendingInv(s) ==
    /\ phase[s] \in Reading \cup {"fetching"} => pending[s] \in 1..2
    /\ phase[s] = "acting" => pending[s] \in 0..1
    /\ noticed[s] <= max_seq

FetchedInv(s) ==
    phase[s] \in Reading => /\ fetched[s].version >= noticed[s]
                            /\ fetched[s].source = selected[s]

ViewInv(s) ==
    /\ phase[s] \in {"waiting", "acting", "drawing"} => view[s] # None
    /\ phase[s] = "waiting" => running[s]
    /\ view[s] = None => running[s] \/ phase[s] = "closed"
    /\ \/ phase[s] = "waiting"
       \/ phase[s] = "acting" /\ pending[s] = 0
       \/ phase[s] = "drawing" /\ running[s]
       => view[s].version >= noticed[s] /\ view[s].source = selected[s]

\* The labels being fetched, once they or the seq they go under are known.
LabelsInv(s) ==
    /\ fetched[s].version <= max_seq /\ event_seq[s] <= max_seq
    /\ phase[s] \in {"lookup", "labels", "storing"} /\ ~fetched[s].blind
       => event_seq[s] >= fetched[s].version
    /\ phase[s] = "storing" => /\ fetched[s].labels >= fetched[s].version
                               /\ fetched[s].labels >= event_seq[s]
    /\ phase[s] = "applying" /\ ~fetched[s].blind
       => fetched[s].labels >= fetched[s].version
    /\ view[s] # None /\ ~view[s].blind => view[s].labels >= view[s].version

SessionInv(s) == PendingInv(s) /\ FetchedInv(s) /\ ViewInv(s) /\ LabelsInv(s)

IInv == TypeOK /\ FeedInv /\ CacheInv /\ \A s \in Session : SessionInv(s)

\* A frame with any keys, those that quit left aside.
AnyFrame(s) == \E source \in Source, selects \in BOOLEAN, act \in Action :
                  /\ source # selected[s] => selects
                  /\ Frame(s, source, selects, act)

SessionStep(s) == Task(s) \/ Keys(s) \/ Quit(s)
-----------------------------------------------------------------------------
LEMMA InitIInv == Init => IInv
  <1> SUFFICES ASSUME Init PROVE IInv
    OBVIOUS
  <1>1. TypeOK
    BY HomeIsSource, RoomForEvents
    DEF Init, TypeOK, Version, Snapshot, Phase, Action
  <1>2. FeedInv /\ CacheInv
    BY DEF Init, FeedInv, CacheInv, PublishedOnceInOrder
  <1>3. \A s \in Session : SessionInv(s)
    <2> TAKE s \in Session
    <2>1. /\ phase[s] = "offline" /\ view[s] = None /\ running[s]
          /\ noticed[s] = 0 /\ max_seq = 0 /\ event_seq[s] = 0
          /\ fetched[s].version = 0
      BY DEF Init
    <2> QED
      BY <2>1
      DEF SessionInv, PendingInv, FetchedInv, ViewInv, LabelsInv, Reading
  <1> QED BY <1>1, <1>2, <1>3 DEF IInv

\* The poller moves the feed alone, and keeps its invariant.
LEMMA PollerKeeps ==
  ASSUME TypeOK, FeedInv, Poller
  PROVE  /\ UNCHANGED <<max_seq, app>>
         /\ cursor' \in 0..max_seq
         /\ batch' \in [next : 1..MaxEvents + 1, last : 0..max_seq,
                        step : {"poll", "invalidate", "send"}]
         /\ live_tx' \in Seq(1..max_seq) /\ Len(live_tx') >= Len(live_tx)
         /\ FeedInv'
         /\ hot_label_cache' \in {hot_label_cache, [a \in Account |-> None]}
  <1> DEFINE Goal == /\ UNCHANGED <<max_seq, app>>
                     /\ cursor' \in 0..max_seq
                     /\ batch' \in [next : 1..MaxEvents + 1, last : 0..max_seq,
                                    step : {"poll", "invalidate", "send"}]
                     /\ live_tx' \in Seq(1..max_seq)
                     /\ Len(live_tx') >= Len(live_tx)
                     /\ FeedInv'
                     /\ hot_label_cache' \in
                          {hot_label_cache, [a \in Account |-> None]}
  <1> SUFFICES Goal
    OBVIOUS
  <1>0. /\ max_seq \in 0..MaxEvents /\ cursor \in 0..max_seq
        /\ batch \in [next : 1..MaxEvents + 1, last : 0..max_seq,
                      step : {"poll", "invalidate", "send"}]
        /\ live_tx \in Seq(1..max_seq)
        /\ MaxEvents \in Nat /\ Batch \in Nat \ {0}
    BY RoomForEvents DEF TypeOK, Version
  <1>1. CASE Poll
    BY <1>0, <1>1 DEF Poll, BatchEnd, FeedInv, PublishedOnceInOrder
  <1>2. CASE Invalidate
    <2>1. /\ batch.step = "invalidate"
          /\ batch' = [next |-> batch.next, last |-> batch.last, step |-> "send"]
      BY <1>0, <1>2 DEF Invalidate
    <2>2. UNCHANGED <<max_seq, cursor, live_tx, app>>
      BY <1>2 DEF Invalidate
    <2>3. FeedInv'
      BY <2>1, <2>2 DEF FeedInv, PublishedOnceInOrder
    <2>4. hot_label_cache' \in {hot_label_cache, [a \in Account |-> None]}
      BY <1>2 DEF Invalidate
    <2>5. batch' \in [next : 1..MaxEvents + 1, last : 0..max_seq,
                     step : {"poll", "invalidate", "send"}]
      BY <1>0, <2>1
    <2> QED BY <1>0, <2>2, <2>3, <2>4, <2>5
  <1>3. CASE Send
    <2>1. batch.step = "send" /\ batch.next \in 1..max_seq
          /\ batch.next <= batch.last /\ Len(live_tx) = batch.next - 1
      BY <1>0, <1>3 DEF Send, FeedInv
    <2>2. live_tx' \in Seq(1..max_seq) /\ Len(live_tx') = Len(live_tx) + 1
      BY <1>0, <1>3, <2>1 DEF Send
    <2>3. PublishedOnceInOrder'
      <3> SUFFICES ASSUME NEW i \in 1..Len(live_tx') PROVE live_tx'[i] = i
        BY DEF PublishedOnceInOrder
      <3> QED BY <1>0, <1>3, <2>1, <2>2 DEF Send, FeedInv, PublishedOnceInOrder
    <2>4. batch' = [next |-> batch.next + 1, last |-> batch.last,
                    step |-> IF batch.next = batch.last THEN "poll"
                             ELSE "invalidate"]
      BY <1>0, <1>3, <2>1 DEF Send
    <2>5. cursor' = IF batch.next = batch.last THEN batch.last ELSE cursor
      BY <1>3 DEF Send, NextSeq
    <2>6. /\ cursor' \in 0..max_seq
          /\ batch' \in [next : 1..MaxEvents + 1, last : 0..max_seq,
                         step : {"poll", "invalidate", "send"}]
      BY <1>0, <2>1, <2>4, <2>5
    <2>7. FeedInv'
      BY <1>0, <2>1, <2>2, <2>3, <2>4, <2>5 DEF FeedInv
    <2> QED BY <1>3, <1>0, <2>2, <2>6, <2>7 DEF Send
  <1> QED BY <1>1, <1>2, <1>3 DEF Poller

LEMMA PollerIInv == IInv /\ Poller => IInv'
  <1> SUFFICES ASSUME IInv, Poller PROVE IInv'
    OBVIOUS
  <1>1. TypeOK /\ FeedInv
    BY DEF IInv
  <1>2. TypeOK'
    BY <1>1, PollerKeeps DEF TypeOK, app
  <1>3. FeedInv'
    BY <1>1, PollerKeeps
  <1>4. CacheInv'
    BY <1>1, PollerKeeps DEF IInv, CacheInv
  <1>5. \A s \in Session : SessionInv(s)'
    BY <1>1, PollerKeeps
    DEF IInv, app, SessionInv, PendingInv, FetchedInv, ViewInv, LabelsInv
  <1> QED BY <1>2, <1>3, <1>4, <1>5 DEF IInv
-----------------------------------------------------------------------------
LEMMA TickIsFrame ==
  ASSUME TypeOK, NEW s \in Session, Tick(s) \/ Keys(s)
  PROVE  AnyFrame(s)
  <1>1. selected[s] \in Source /\ action[s] \in Action
    BY DEF TypeOK
  <1>2. CASE Tick(s)
    BY <1>1, <1>2 DEF Tick, AnyFrame
  <1>3. CASE Keys(s)
    BY <1>3 DEF Keys, AnyFrame
  <1> QED BY <1>2, <1>3

\* A session's step leaves the poller and the other sessions alone.
LEMMA OthersKeep ==
  ASSUME TypeOK, NEW s \in Session, SessionStep(s)
  PROVE  /\ UNCHANGED <<cursor, batch, live_tx>>
         /\ max_seq' \in Version /\ max_seq' >= max_seq
         /\ \A r \in Session \ {s} :
               /\ phase'[r] = phase[r] /\ live_rx'[r] = live_rx[r]
               /\ selected'[r] = selected[r]
               /\ pending'[r] = pending[r] /\ running'[r] = running[r]
               /\ fetched'[r] = fetched[r] /\ event_seq'[r] = event_seq[r]
               /\ view'[r] = view[r] /\ noticed'[r] = noticed[r]
  <1>0. max_seq \in Version /\ MaxEvents \in Nat
    BY RoomForEvents DEF TypeOK
  <1>1. CASE Connect(s)
    BY <1>0, <1>1 DEF Connect, TypeOK, Version, feed
  <1>2. CASE BeginFetch(s)
    BY <1>0, <1>2 DEF BeginFetch, TypeOK, Version, feed
  <1>3. CASE ReadEventSeq(s)
    BY <1>0, <1>3 DEF ReadEventSeq, TypeOK, Version, feed
  <1>4. CASE Lookup(s)
    BY <1>0, <1>4 DEF Lookup, TypeOK, Version, feed
  <1>5. CASE LoadLabels(s)
    BY <1>0, <1>5 DEF LoadLabels, TypeOK, Version, feed
  <1>6. CASE StoreLabels(s)
    BY <1>0, <1>6 DEF StoreLabels, TypeOK, Version, feed
  <1>7. CASE Apply(s)
    BY <1>0, <1>7 DEF Apply, TypeOK, Version, feed
  <1>8. CASE FetchFails(s)
    BY <1>0, <1>8 DEF FetchFails, TypeOK, Version, feed
  <1>9. CASE Act(s)
    <2>1. max_seq' \in Version /\ max_seq' >= max_seq
      BY <1>0, <1>9 DEF Act, Version
    <2>2. \A r \in Session \ {s} : selected'[r] = selected[r]
      BY <1>9 DEF Act, TypeOK
    <2> QED BY <1>9, <2>1, <2>2 DEF Act, TypeOK
  <1>10. CASE Draw(s)
    BY <1>0, <1>10 DEF Draw, TypeOK, Version, feed
  <1>11. CASE Quit(s)
    BY <1>0, <1>11 DEF Quit, TypeOK, Version, feed
  <1>12. CASE AnyFrame(s)
    BY <1>0, <1>12 DEF AnyFrame, Frame, TypeOK, Version, feed
  <1> QED
    BY <1>1, <1>2, <1>3, <1>4, <1>5, <1>6, <1>7, <1>8, <1>9, <1>10, <1>11, <1>12, TickIsFrame
    DEF SessionStep, Task, Fetch
-----------------------------------------------------------------------------
LEMMA SessionTypes ==
  ASSUME TypeOK, NEW s \in Session, PendingInv(s), SessionStep(s)
  PROVE  /\ hot_label_cache' \in [Account -> CacheEntry \cup {None}]
         /\ phase' \in [Session -> Phase]
         /\ live_rx' \in [Session -> 0..Len(live_tx)]
         /\ selected' \in [Session -> Source]
         /\ refresh_requested' \in [Session -> BOOLEAN]
         /\ action' \in [Session -> Action]
         /\ pending' \in [Session -> 0..2]
         /\ running' \in [Session -> BOOLEAN]
         /\ fetched' \in [Session -> Snapshot]
         /\ event_seq' \in [Session -> Version]
         /\ view' \in [Session -> Snapshot \cup {None}]
         /\ noticed' \in [Session -> Version]
  <1> USE RoomForEvents, AccountsKnown, NoneIsNothing
      DEF TypeOK, PendingInv, Version, feed
  <1>1. CASE Connect(s)
    BY <1>1 DEF Connect, Phase, Action, Reading
  <1>2. CASE BeginFetch(s)
    <2>1. fetched' \in [Session -> Snapshot]
      BY <1>2 DEF BeginFetch, Snapshot
    <2>2. phase' \in [Session -> Phase]
      BY <1>2 DEF BeginFetch, Snapshot, Phase
    <2> QED BY <1>2, <2>1, <2>2 DEF BeginFetch
  <1>3. CASE ReadEventSeq(s)
    <2>0. fetched[s] \in Snapshot
      OBVIOUS
    <2>a. PICK blind \in BOOLEAN : fetched' = [fetched EXCEPT ![s].blind = blind]
      BY <1>3 DEF ReadEventSeq
    <2>b. [fetched[s] EXCEPT !.blind = blind] \in Snapshot
      BY <2>0 DEF Snapshot
    <2>1. fetched' \in [Session -> Snapshot]
      BY <2>a, <2>b
    <2>2. event_seq' \in [Session -> Version]
      BY <1>3 DEF ReadEventSeq, Snapshot
    <2>3. phase' \in [Session -> Phase]
      BY <1>3 DEF ReadEventSeq, Snapshot, Phase
    <2> QED BY <1>3, <2>1, <2>2, <2>3 DEF ReadEventSeq
  <1>4. CASE Lookup(s)
    <2>1. CASE CacheHit(s)
      <3> DEFINE entry == hot_label_cache[AccountOf[s]]
      <3>1. entry \in CacheEntry /\ fetched[s] \in Snapshot
        BY <2>1 DEF CacheHit
      <3>2. [fetched[s] EXCEPT !.labels = entry.labels] \in Snapshot
        BY <3>1 DEF Snapshot, CacheEntry
      <3>3. fetched' = [fetched EXCEPT ![s].labels = entry.labels]
        BY <1>4, <2>1 DEF Lookup
      <3>4. fetched' \in [Session -> Snapshot]
        BY <3>2, <3>3
      <3>a. /\ event_seq' = [event_seq EXCEPT ![s] = 0]
            /\ phase' = [phase EXCEPT ![s] = "applying"]
        BY <1>4, <2>1 DEF Lookup
      <3>5. event_seq' \in [Session -> Version]
        BY <3>a
      <3>6. phase' \in [Session -> Phase]
        BY <3>a DEF Phase
      <3> QED BY <1>4, <3>4, <3>5, <3>6 DEF Lookup
    <2>2. CASE ~CacheHit(s)
      <3>a. phase' = [phase EXCEPT ![s] = "labels"]
        BY <1>4, <2>2 DEF Lookup
      <3>1. phase' \in [Session -> Phase]
        BY <3>a DEF Phase
      <3> QED BY <1>4, <2>2, <3>1 DEF Lookup
    <2> QED BY <2>1, <2>2
  <1>5. CASE LoadLabels(s)
    <2>1. fetched' \in [Session -> Snapshot]
      <3>1. fetched[s] \in Snapshot /\ max_seq \in Version
        OBVIOUS
      <3>2. [fetched[s] EXCEPT !.labels = max_seq] \in Snapshot
        BY ONLY <3>1 DEF Snapshot
      <3>3. fetched' = [fetched EXCEPT ![s] = [fetched[s] EXCEPT !.labels = max_seq]]
        BY <1>5 DEF LoadLabels
      <3>4. fetched \in [Session -> Snapshot]
        OBVIOUS
      <3> QED BY ONLY <3>2, <3>3, <3>4
    <2>2. phase' \in [Session -> Phase]
      BY <1>5 DEF LoadLabels, Snapshot, Phase
    <2> QED BY <1>5, <2>1, <2>2 DEF LoadLabels
  <1>6. CASE StoreLabels(s)
    <2>1. hot_label_cache' \in [Account -> CacheEntry \cup {None}]
      BY <1>6 DEF StoreLabels, EntrySeq, CacheEntry, Snapshot
    <2>2. event_seq' \in [Session -> Version]
      BY <1>6 DEF StoreLabels, EntrySeq, CacheEntry, Snapshot
    <2>3. phase' \in [Session -> Phase]
      BY <1>6 DEF StoreLabels, EntrySeq, CacheEntry, Snapshot, Phase
    <2> QED BY <1>6, <2>1, <2>2, <2>3 DEF StoreLabels
  <1>7. CASE Apply(s)
    <2>1. fetched[s] \in Snapshot /\ fetched[s].source \in Source
      BY DEF Snapshot
    <2>2. view' \in [Session -> Snapshot \cup {None}]
      BY <1>7, <2>1 DEF Apply
    <2>3. selected' \in [Session -> Source]
      BY <1>7, <2>1 DEF Apply
    <2>4. pending' \in [Session -> 0..2]
      BY <1>7 DEF Apply, Reading
    <2>5. phase' \in [Session -> Phase]
      BY <1>7 DEF Apply, AfterCalls, Phase
    <2> QED BY <1>7, <2>2, <2>3, <2>4, <2>5 DEF Apply
  <1>8. CASE FetchFails(s)
    <2>1. running' \in [Session -> BOOLEAN]
      BY <1>8 DEF FetchFails, AfterCalls
    <2>2. event_seq' \in [Session -> Version]
      BY <1>8 DEF FetchFails, AfterCalls
    <2>3. pending' \in [Session -> 0..2]
      BY <1>8 DEF FetchFails, AfterCalls, Reading
    <2>4. phase' \in [Session -> Phase]
      BY <1>8 DEF FetchFails, AfterCalls, Phase
    <2> QED BY <1>8, <2>1, <2>2, <2>3, <2>4 DEF FetchFails
  <1>9. CASE Act(s)
    <2>0. \E act \in Action : action' = [action EXCEPT ![s] = act]
      BY <1>9 DEF Act, Action
    <2>1. action' \in [Session -> Action]
      BY <2>0
    <2>2. selected' \in [Session -> Source]
      BY <1>9 DEF Act, AfterCalls, RefreshesAfter
    <2>3. refresh_requested' \in [Session -> BOOLEAN]
      BY <1>9 DEF Act, AfterCalls, RefreshesAfter
    <2>4. pending' \in [Session -> 0..2]
      BY <1>9 DEF Act, AfterCalls, RefreshesAfter, Reading
    <2>5. phase' \in [Session -> Phase]
      BY <1>9 DEF Act, AfterCalls, RefreshesAfter, Phase
    <2> QED BY <1>9, <2>1, <2>2, <2>3, <2>4, <2>5 DEF Act
  <1>10. CASE Draw(s)
    <2>a. Drained(s) \in 0..Len(live_tx)
      BY DEF Drained, Lagged
    <2>b. live_rx' = [live_rx EXCEPT ![s] = Drained(s)] \/ UNCHANGED live_rx
      BY <1>10 DEF Draw
    <2>1. live_rx' \in [Session -> 0..Len(live_tx)]
      BY <2>a, <2>b
    <2>2. phase' \in [Session -> Phase]
      BY <1>10 DEF Draw, Phase
    <2> QED BY <1>10, <2>1, <2>2 DEF Draw
  <1>11. CASE Quit(s)
    BY <1>11 DEF Quit, Phase, Action, Reading
  <1>12. CASE AnyFrame(s)
    <2>1. selected' \in [Session -> Source]
      BY <1>12 DEF AnyFrame, Frame, AfterCalls, Drained, Lagged, LiveChanged
    <2>a. Drained(s) \in 0..Len(live_tx)
      BY DEF Drained, Lagged
    <2>0. live_rx' = [live_rx EXCEPT ![s] = Drained(s)]
      BY <1>12 DEF AnyFrame, Frame
    <2>2. live_rx' \in [Session -> 0..Len(live_tx)]
      BY <2>a, <2>0
    <2>3. refresh_requested' \in [Session -> BOOLEAN]
      BY <1>12 DEF AnyFrame, Frame, AfterCalls, Drained, Lagged, LiveChanged
    <2>4. action' \in [Session -> Action]
      BY <1>12 DEF AnyFrame, Frame, AfterCalls, Drained, Lagged, LiveChanged, Action
    <2>5. pending' \in [Session -> 0..2]
      BY <1>12 DEF AnyFrame, Frame, AfterCalls, Drained, Lagged, LiveChanged, Reading
    <2>b. Drained(s) > live_rx[s] => live_tx[Drained(s)] \in Version
      BY <2>a
    <2>c. noticed' = [noticed EXCEPT ![s] =
               IF Drained(s) > live_rx[s] THEN live_tx[Drained(s)] ELSE 0]
      BY <1>12 DEF AnyFrame, Frame
    <2>6. noticed' \in [Session -> Version]
      BY <2>b, <2>c
    <2>7. phase' \in [Session -> Phase]
      BY <1>12 DEF AnyFrame, Frame, AfterCalls, Drained, Lagged, LiveChanged, Phase
    <2> QED BY <1>12, <2>1, <2>2, <2>3, <2>4, <2>5, <2>6, <2>7 DEF AnyFrame, Frame
  <1> QED
    BY <1>1, <1>2, <1>3, <1>4, <1>5, <1>6, <1>7, <1>8, <1>9, <1>10, <1>11, <1>12, TickIsFrame
    DEF SessionStep, Task, Fetch
-----------------------------------------------------------------------------
\* A frame that takes no event and no request notices nothing.
LEMMA FrameEffect ==
  ASSUME TypeOK, NEW s \in Session, AnyFrame(s)
  PROVE  /\ phase[s] = "waiting"
         /\ phase'[s] = "acting" \/ phase'[s] = AfterCalls(pending'[s])
         /\ pending'[s] = 0 => selected'[s] = selected[s]
         /\ pending'[s] \in 0..1
         /\ running'[s] = running[s] /\ fetched'[s] = fetched[s]
         /\ event_seq'[s] = event_seq[s] /\ view'[s] = view[s]
         /\ noticed'[s] \in 0..max_seq
         /\ pending'[s] = 0 => noticed'[s] = 0
  <1>1. PICK source \in Source, selects \in BOOLEAN, act \in Action :
          /\ source # selected[s] => selects
          /\ Frame(s, source, selects, act)
    BY DEF AnyFrame
  <1>2. /\ phase[s] = "waiting" /\ selected'[s] = source
        /\ running'[s] = running[s] /\ fetched'[s] = fetched[s]
        /\ event_seq'[s] = event_seq[s] /\ view'[s] = view[s]
    BY <1>1 DEF Frame, TypeOK
  <1>3. noticed'[s] = IF Drained(s) > live_rx[s] THEN live_tx[Drained(s)]
                      ELSE 0
    BY <1>1 DEF Frame, TypeOK
  <1>4. pending'[s] = IF LiveChanged(s) \/ refresh_requested[s] \/ selects
                      THEN 1 ELSE 0
    BY <1>1 DEF Frame, TypeOK
  <1>5. phase'[s] = IF act # "none" THEN "acting" ELSE AfterCalls(pending'[s])
    BY <1>1, <1>4 DEF Frame, TypeOK
  <1>6. Drained(s) > live_rx[s] => /\ Drained(s) \in 1..Len(live_tx)
                                   /\ LiveChanged(s)
    BY RoomForEvents DEF LiveChanged, Drained, Lagged, TypeOK
  <1>7. live_tx \in Seq(1..max_seq) /\ max_seq \in Nat
    BY RoomForEvents DEF TypeOK, Version
  <1>8. noticed'[s] \in 0..max_seq
    BY <1>3, <1>6, <1>7
  <1>9. live_rx[s] \in Nat /\ Drained(s) \in Nat
    BY RoomForEvents DEF Drained, Lagged, TypeOK
  <1>10. ~LiveChanged(s) => noticed'[s] = 0
    BY <1>3, <1>6, <1>9
  <1> QED BY <1>1, <1>2, <1>4, <1>5, <1>8, <1>10

\* A session's step keeps its own invariant: what it does to the session,
\* then why that keeps the invariant.
LEMMA SessionKeeps ==
  ASSUME TypeOK, CacheInv, NEW s \in Session, SessionInv(s), SessionStep(s)
  PROVE  SessionInv(s)'
  <1>a. /\ max_seq \in Nat /\ max_seq' \in Nat /\ max_seq' >= max_seq
    BY RoomForEvents, OthersKeep DEF TypeOK, Version
  <1>b. /\ fetched[s] \in Snapshot /\ None \notin Snapshot
        /\ view[s] \in Snapshot \cup {None}
    BY NoneIsNothing DEF TypeOK
  <1>c. /\ fetched[s].version \in Nat /\ fetched[s].labels \in Nat
        /\ view[s] # None => view[s].version \in Nat /\ view[s].labels \in Nat
    BY <1>b, RoomForEvents DEF Snapshot, Version
  <1>d. /\ event_seq[s] \in Nat /\ noticed[s] \in Nat /\ pending[s] \in 0..2
        /\ phase[s] \in Phase /\ running[s] \in BOOLEAN
    BY RoomForEvents DEF TypeOK, Version
  <1> USE <1>a, <1>b, <1>c, <1>d
      DEF SessionInv, PendingInv, FetchedInv, ViewInv, LabelsInv, Reading
  <1>1. CASE Connect(s)
    <2>1. /\ phase[s] = "offline" /\ phase'[s] = "fetching"
          /\ selected'[s] = selected[s] /\ pending'[s] = 1
          /\ running'[s] = running[s] /\ fetched'[s] = fetched[s]
          /\ event_seq'[s] = event_seq[s] /\ view'[s] = view[s]
          /\ noticed'[s] = noticed[s]
      BY <1>1 DEF Connect, TypeOK
    <2> QED BY <2>1
  <1>2. CASE BeginFetch(s)
    <2>1. /\ phase[s] = "fetching" /\ phase'[s] = "event_seq"
          /\ selected'[s] = selected[s] /\ pending'[s] = pending[s]
          /\ running'[s] = running[s] /\ fetched'[s].source = selected[s]
          /\ fetched'[s].version = max_seq /\ event_seq'[s] = event_seq[s]
          /\ view'[s] = view[s] /\ noticed'[s] = noticed[s]
      BY <1>2 DEF BeginFetch, TypeOK, Snapshot
    <2> QED BY <2>1
  <1>3. CASE ReadEventSeq(s)
    <2>1. /\ phase[s] = "event_seq" /\ phase'[s] = "lookup"
          /\ selected'[s] = selected[s] /\ pending'[s] = pending[s]
          /\ running'[s] = running[s]
          /\ fetched'[s].source = fetched[s].source
          /\ fetched'[s].version = fetched[s].version
          /\ ~fetched'[s].blind => event_seq'[s] = max_seq
          /\ event_seq'[s] \in {0, max_seq}
          /\ view'[s] = view[s] /\ noticed'[s] = noticed[s]
      BY <1>3 DEF ReadEventSeq, TypeOK, Snapshot
    <2>2. PendingInv(s)'
      BY <2>1
    <2>3. FetchedInv(s)'
      BY <2>1
    <2>4. ViewInv(s)'
      BY <2>1
    <2>5. LabelsInv(s)'
      BY <2>1
    <2> QED BY <2>2, <2>3, <2>4, <2>5
  <1>4. CASE Lookup(s)
    <2>0. /\ phase[s] = "lookup" /\ selected'[s] = selected[s]
          /\ pending'[s] = pending[s] /\ running'[s] = running[s]
          /\ view'[s] = view[s] /\ noticed'[s] = noticed[s]
      BY <1>4 DEF Lookup, TypeOK
    <2>1. CASE CacheHit(s)
      <3> DEFINE entry == hot_label_cache[AccountOf[s]]
      <3>1. entry.labels \in Nat /\ entry.labels >= event_seq[s]
        BY <2>1, AccountsKnown, RoomForEvents
        DEF CacheHit, CacheInv, TypeOK, CacheEntry, Version
      <3>2. fetched' = [fetched EXCEPT ![s].labels = entry.labels]
        BY <1>4, <2>1 DEF Lookup
      <3>3. /\ fetched'[s].source = fetched[s].source
            /\ fetched'[s].version = fetched[s].version
            /\ fetched'[s].blind = fetched[s].blind
            /\ fetched'[s].labels = entry.labels
        BY <3>2 DEF TypeOK, Snapshot
      <3>4. phase'[s] = "applying" /\ event_seq'[s] = 0
        BY <1>4, <2>1 DEF Lookup, TypeOK
      <3> QED BY <2>0, <3>1, <3>3, <3>4
    <2>2. CASE ~CacheHit(s)
      <3>1. /\ fetched'[s] = fetched[s] /\ event_seq'[s] = event_seq[s]
            /\ phase'[s] = "labels"
        BY <1>4, <2>2 DEF Lookup, TypeOK
      <3> QED BY <2>0, <3>1
    <2> QED BY <2>1, <2>2
  <1>5. CASE LoadLabels(s)
    <2>1. /\ phase[s] = "labels" /\ phase'[s] = "storing"
          /\ selected'[s] = selected[s] /\ pending'[s] = pending[s]
          /\ running'[s] = running[s]
          /\ fetched'[s].source = fetched[s].source
          /\ fetched'[s].version = fetched[s].version
          /\ fetched'[s].blind = fetched[s].blind
          /\ fetched'[s].labels = max_seq /\ event_seq'[s] = event_seq[s]
          /\ view'[s] = view[s] /\ noticed'[s] = noticed[s]
      BY <1>5 DEF LoadLabels, TypeOK, Snapshot
    <2>2. PendingInv(s)'
      BY <2>1
    <2>3. FetchedInv(s)'
      BY <2>1
    <2>4. ViewInv(s)'
      BY <2>1
    <2>5. LabelsInv(s)'
      BY <2>1
    <2> QED BY <2>2, <2>3, <2>4, <2>5
  <1>6. CASE StoreLabels(s)
    <2>1. /\ phase[s] = "storing" /\ phase'[s] = "applying"
          /\ selected'[s] = selected[s] /\ pending'[s] = pending[s]
          /\ running'[s] = running[s] /\ fetched'[s] = fetched[s]
          /\ event_seq'[s] = 0 /\ view'[s] = view[s]
          /\ noticed'[s] = noticed[s]
      BY <1>6 DEF StoreLabels, TypeOK
    <2> QED BY <2>1
  <1>7. CASE Apply(s)
    <2>1. /\ phase[s] = "applying"
          /\ phase'[s] = IF view[s] = None THEN "waiting"
                        ELSE AfterCalls(pending[s] - 1)
          /\ selected'[s] = fetched[s].source /\ pending'[s] = pending[s] - 1
          /\ running'[s] = running[s] /\ fetched'[s] = fetched[s]
          /\ event_seq'[s] = event_seq[s] /\ view'[s] = fetched[s]
          /\ noticed'[s] = noticed[s]
      BY <1>7 DEF Apply, TypeOK
    <2>2. PendingInv(s)'
      BY <2>1 DEF AfterCalls
    <2>3. FetchedInv(s)'
      BY <2>1 DEF AfterCalls
    <2>4. ViewInv(s)'
      BY <2>1 DEF AfterCalls
    <2>5. LabelsInv(s)'
      BY <2>1 DEF AfterCalls
    <2> QED BY <2>2, <2>3, <2>4, <2>5
  <1>8. CASE FetchFails(s)
    <2>1. /\ phase[s] \in {"fetching", "labels", "applying"}
          /\ phase'[s] = IF view[s] = None THEN "closed"
                        ELSE AfterCalls(pending[s] - 1)
          /\ selected'[s] = selected[s] /\ pending'[s] = pending[s] - 1
          /\ running'[s] = FALSE /\ fetched'[s] = fetched[s]
          /\ event_seq'[s] = 0 /\ view'[s] = view[s]
          /\ noticed'[s] = noticed[s]
      BY <1>8 DEF FetchFails, TypeOK
    <2> QED BY <2>1 DEF AfterCalls
  <1>9. CASE Act(s)
    <2>1. /\ phase[s] = "acting" /\ phase'[s] = AfterCalls(pending'[s])
          /\ pending'[s] = 0 => selected'[s] = selected[s]
          /\ pending'[s] = pending[s] \/ pending'[s] = pending[s] + 1
          /\ running'[s] = running[s] /\ fetched'[s] = fetched[s]
          /\ event_seq'[s] = event_seq[s] /\ view'[s] = view[s]
          /\ noticed'[s] = noticed[s]
      BY <1>9 DEF Act, TypeOK, RefreshesAfter
    <2> QED BY <2>1 DEF AfterCalls
  <1>10. CASE Draw(s)
    <2>1. /\ phase[s] = "drawing"
          /\ phase'[s] = "closed" \/ (phase'[s] = "waiting" /\ running[s])
          /\ selected'[s] = selected[s] /\ pending'[s] = pending[s]
          /\ running'[s] = running[s] /\ fetched'[s] = fetched[s]
          /\ event_seq'[s] = event_seq[s] /\ view'[s] = view[s]
          /\ noticed'[s] = noticed[s]
      BY <1>10 DEF Draw, TypeOK
    <2> QED BY <2>1
  <1>11. CASE Quit(s)
    <2>1. /\ phase[s] = "waiting" /\ phase'[s] = "closed"
          /\ selected'[s] = selected[s] /\ pending'[s] = pending[s]
          /\ fetched'[s] = fetched[s] /\ event_seq'[s] = event_seq[s]
          /\ view'[s] = view[s] /\ noticed'[s] = noticed[s]
      BY <1>11 DEF Quit, TypeOK
    <2> QED BY <2>1
  <1>12. CASE AnyFrame(s)
    <2>1. /\ phase[s] = "waiting"
          /\ phase'[s] = "acting" \/ phase'[s] = AfterCalls(pending'[s])
          /\ pending'[s] = 0 => selected'[s] = selected[s]
          /\ pending'[s] \in 0..1 /\ running'[s] = running[s]
          /\ fetched'[s] = fetched[s] /\ event_seq'[s] = event_seq[s]
          /\ view'[s] = view[s] /\ noticed'[s] \in 0..max_seq
          /\ pending'[s] = 0 => noticed'[s] = 0
      BY <1>12, FrameEffect
    <2> QED BY <2>1 DEF AfterCalls
  <1> QED
    BY <1>1, <1>2, <1>3, <1>4, <1>5, <1>6, <1>7, <1>8, <1>9, <1>10, <1>11, <1>12, TickIsFrame
    DEF SessionStep, Task, Fetch

LEMMA SessionIInv ==
  ASSUME IInv, NEW s \in Session, SessionStep(s)
  PROVE  IInv'
  <1>1. TypeOK /\ FeedInv /\ CacheInv /\ \A r \in Session : SessionInv(r)
    BY DEF IInv
  <1>2. PendingInv(s)
    BY <1>1 DEF SessionInv
  <1>3. UNCHANGED <<cursor, batch, live_tx>>
    BY <1>1, OthersKeep
  <1>4. max_seq \in Nat /\ max_seq' \in Version /\ max_seq' >= max_seq
    BY <1>1, OthersKeep, RoomForEvents DEF TypeOK, Version
  <1>5. TypeOK'
    <2>1. /\ cursor' \in 0..max_seq' /\ live_tx' \in Seq(1..max_seq')
          /\ batch' \in [next : 1..MaxEvents + 1, last : 0..max_seq',
                         step : {"poll", "invalidate", "send"}]
      BY <1>1, <1>3, <1>4, RoomForEvents DEF TypeOK, Version
    <2> QED BY <1>1, <1>2, <1>3, <1>4, <2>1, SessionTypes DEF TypeOK
  <1>6. FeedInv'
    BY <1>1, <1>3 DEF FeedInv, PublishedOnceInOrder
  <1>7. CacheInv'
    <2>1. CASE StoreLabels(s)
      <3>1. fetched[s].labels >= event_seq[s]
        BY <1>1, <2>1 DEF StoreLabels, SessionInv, LabelsInv
      <3>2. hot_label_cache' = [hot_label_cache EXCEPT ![AccountOf[s]] =
               [event_seq |-> event_seq[s], labels |-> fetched[s].labels]]
        BY <2>1 DEF StoreLabels, EntrySeq
      <3> QED BY <1>1, <3>1, <3>2 DEF CacheInv, TypeOK
    <2>2. CASE UNCHANGED hot_label_cache
      BY <1>1, <2>2 DEF CacheInv
    <2>3. AnyFrame(s) => UNCHANGED hot_label_cache
      BY DEF AnyFrame, Frame, feed
    <2> QED
      BY <1>1, <2>1, <2>2, <2>3, TickIsFrame
      DEF SessionStep, Task, Fetch, Connect, BeginFetch, ReadEventSeq, Lookup,
          LoadLabels, Apply, FetchFails, Act, Draw, Quit, feed
  <1>8. ASSUME NEW r \in Session PROVE SessionInv(r)'
    <2>1. CASE r = s
      BY <1>1, <2>1, SessionKeeps
    <2>2. CASE r # s
      <3>1. /\ fetched[r].version \in Nat /\ event_seq[r] \in Nat
            /\ noticed[r] \in Nat /\ max_seq' \in Nat
        BY <1>1, <1>4, RoomForEvents DEF TypeOK, Version, Snapshot
      <3> QED
        BY <1>1, <1>4, <2>2, <3>1, OthersKeep
        DEF SessionInv, PendingInv, FetchedInv, ViewInv, LabelsInv
    <2> QED BY <2>1, <2>2
  <1> QED BY <1>5, <1>6, <1>7, <1>8 DEF IInv

\* A change made elsewhere only makes the database newer.
LEMMA CommitIInv == IInv /\ Commit => IInv'
  <1> SUFFICES ASSUME IInv, Commit PROVE IInv'
    OBVIOUS
  <1>1. /\ max_seq \in Nat /\ max_seq' = max_seq + 1 /\ max_seq' \in Version
        /\ UNCHANGED <<cursor, batch, live_tx, hot_label_cache, app>>
    BY RoomForEvents DEF IInv, TypeOK, Commit, Version
  <1>2. TypeOK'
    BY <1>1, RoomForEvents DEF IInv, TypeOK, app, Version
  <1>3. FeedInv' /\ CacheInv'
    BY <1>1 DEF IInv, FeedInv, CacheInv, PublishedOnceInOrder
  <1>4. ASSUME NEW s \in Session PROVE SessionInv(s)'
    <2>1. /\ fetched[s].version \in Nat /\ event_seq[s] \in Nat
          /\ noticed[s] \in Nat /\ SessionInv(s)
      BY RoomForEvents DEF IInv, TypeOK, Version, Snapshot
    <2> QED
      BY <1>1, <2>1
      DEF app, SessionInv, PendingInv, FetchedInv, ViewInv, LabelsInv
  <1> QED BY <1>2, <1>3, <1>4 DEF IInv

LEMMA NextIInv == IInv /\ [Next]_vars => IInv'
  <1> SUFFICES ASSUME IInv, [Next]_vars PROVE IInv'
    OBVIOUS
  <1>1. CASE Commit
    BY <1>1, CommitIInv
  <1>2. CASE Poller
    BY <1>2, PollerIInv
  <1>3. CASE \E s \in Session : SessionStep(s)
    BY <1>3, SessionIInv
  <1>4. CASE UNCHANGED vars
    BY <1>4
    DEF vars, feed, app, IInv, TypeOK, FeedInv, CacheInv, PublishedOnceInOrder,
        SessionInv, PendingInv, FetchedInv, ViewInv, LabelsInv
  <1> QED BY <1>1, <1>2, <1>3, <1>4 DEF Next, SessionStep

LEMMA Invariance == Spec => []IInv
  BY InitIInv, NextIInv, PTL DEF Spec
-----------------------------------------------------------------------------
\* Every reachable state of the feed and of its sessions is well-formed.
THEOREM TypeCorrect == Spec => []TypeOK
  <1>1. IInv => TypeOK
    BY DEF IInv
  <1> QED BY <1>1, Invariance, PTL

\* The poller broadcasts every event once and in order, with any batches.
THEOREM FeedInOrder == Spec => []PublishedOnceInOrder
  <1>1. IInv => PublishedOnceInOrder
    BY DEF IInv, FeedInv
  <1> QED BY <1>1, Invariance, PTL

\* What the first drain of a frame takes is on screen when the frame is done,
\* lagging receivers included.
THEOREM NoticedIsFetched == Spec => []NoticedEventsAreFetched
  <1>1. IInv => NoticedEventsAreFetched
    BY DEF IInv, SessionInv, ViewInv, NoticedEventsAreFetched
  <1> QED BY <1>1, Invariance, PTL

\* Hot labels are as recent as their snapshot, whatever sessions of whatever
\* accounts store and drop the entries they come from.
THEOREM LabelsAreCurrent == Spec => []HotLabelsCurrent
  <1>1. IInv => HotLabelsCurrent
    BY DEF IInv, SessionInv, LabelsInv, HotLabelsCurrent
  <1> QED BY <1>1, Invariance, PTL

\* Between frames, the selection and the screen agree.
THEOREM SelectionShown == Spec => []SelectionIsShown
  <1>1. IInv => SelectionIsShown
    BY DEF IInv, SessionInv, ViewInv, SelectionIsShown
  <1> QED BY <1>1, Invariance, PTL
=============================================================================
