------------------------------ MODULE LiveFeed ------------------------------
(***************************************************************************)
(* How a committed change reaches the screens of one server: the event     *)
(* log, the poller that broadcasts it, the cache of hot labels and the     *)
(* render task of each SSH session, which drains broadcasts and refreshes  *)
(* its snapshot between frames.                                            *)
(*                                                                         *)
(* Every change commits with one event, so that MAX(seq) is the version    *)
(* of the database.  What a snapshot shows is kept as the version its      *)
(* oldest read saw: the reads of a snapshot are separate statements, each  *)
(* as recent as the one before it or more.                                 *)
(***************************************************************************)
EXTENDS Integers, Sequences

CONSTANTS
    Session,     \* SSH sessions of this server
    Account,     \* accounts they log in to
    AccountOf,   \* the account of each session
    Source,      \* channels, threads and DMs a session can select
    Home,        \* the one a session starts on
    Batch,       \* rows of event_log read by one poll
    Capacity,    \* of the broadcast channel
    MaxEvents,   \* bound of the model: no change is made beyond this many
    None         \* no snapshot yet, no cache entry

ASSUME AccountsKnown == AccountOf \in [Session -> Account]
ASSUME HomeIsSource == Home \in Source
ASSUME RoomForEvents ==
    Batch \in Nat \ {0} /\ Capacity \in Nat \ {0} /\ MaxEvents \in Nat

VARIABLES
    max_seq,            \* MAX(seq) of event_log, whose seqs leave no gap
    cursor,             \* last seq the poller is done with
    batch,              \* rows of the poll under way, and what is next for them
    live_tx,            \* seqs broadcast so far
    hot_label_cache,    \* entry of each account, or None
    phase,              \* where each session's task is
    live_rx,            \* broadcasts each session has received or skipped
    selected,           \* snapshot.selected_* of each session
    refresh_requested,
    action,             \* the action of this frame, or left for the next
    pending,            \* perform_refresh calls left in this frame
    running,
    fetched,            \* the snapshot being fetched
    event_seq,          \* the MAX(seq) read for its hot labels, 0 when unused
    view,               \* the snapshot shown, or None before the first
    noticed             \* history: last seq that made this frame refresh

feed == <<max_seq, cursor, batch, live_tx, hot_label_cache>>
app == <<phase, live_rx, selected, refresh_requested, action, pending,
         running, fetched, event_seq, view, noticed>>
vars == <<feed, app>>

Version == 0..MaxEvents
Snapshot == [source : Source,      \* what was selected when it was fetched
             version : Version,    \* of its oldest read
             labels : Version,     \* of its hot labels
             blind : BOOLEAN]      \* MAX(seq) could not be read
CacheEntry == [event_seq : Version, labels : Version]
Phase == {"offline", "fetching", "event_seq", "lookup", "labels", "storing",
          "applying", "waiting", "acting", "drawing", "closed"}
Action == {"none", "change", "open", "list"}

ASSUME NoneIsNothing == None \notin Snapshot /\ None \notin CacheEntry

TypeOK ==
    /\ max_seq \in Version
    /\ cursor \in 0..max_seq
    /\ batch \in [next : 1..MaxEvents + 1, last : 0..max_seq,
                  step : {"poll", "invalidate", "send"}]
    /\ live_tx \in Seq(1..max_seq)
    /\ hot_label_cache \in [Account -> CacheEntry \cup {None}]
    /\ phase \in [Session -> Phase]
    /\ live_rx \in [Session -> 0..Len(live_tx)]
    /\ selected \in [Session -> Source]
    /\ refresh_requested \in [Session -> BOOLEAN]
    /\ action \in [Session -> Action]
    /\ pending \in [Session -> 0..2]
    /\ running \in [Session -> BOOLEAN]
    /\ fetched \in [Session -> Snapshot]
    /\ event_seq \in [Session -> Version]
    /\ view \in [Session -> Snapshot \cup {None}]
    /\ noticed \in [Session -> Version]

Init ==
    /\ max_seq = 0 /\ cursor = 0 /\ live_tx = <<>>
    /\ batch = [next |-> 1, last |-> 0, step |-> "poll"]
    /\ hot_label_cache = [a \in Account |-> None]
    /\ phase = [s \in Session |-> "offline"]
    /\ live_rx = [s \in Session |-> 0]
    /\ selected = [s \in Session |-> Home]
    /\ refresh_requested = [s \in Session |-> FALSE]
    /\ action = [s \in Session |-> "none"]
    /\ pending = [s \in Session |-> 0]
    /\ running = [s \in Session |-> TRUE]
    /\ fetched = [s \in Session |-> [source |-> Home, version |-> 0,
                                     labels |-> 0, blind |-> FALSE]]
    /\ event_seq = [s \in Session |-> 0]
    /\ view = [s \in Session |-> None]
    /\ noticed = [s \in Session |-> 0]
-----------------------------------------------------------------------------
(* The event log and its poller.                                           *)

\* A transaction of another node, of the CLI or of a session not modelled.
Commit ==
    /\ max_seq < MaxEvents
    /\ max_seq' = max_seq + 1
    /\ UNCHANGED <<cursor, batch, live_tx, hot_label_cache, app>>

\* Last row of a batch that starts after seq.
BatchEnd(seq) ==
    IF max_seq - seq > Batch THEN seq + Batch ELSE max_seq

\* A poll that fails, or finds nothing, changes nothing.
Poll ==
    /\ batch.step = "poll"
    /\ batch' = IF BatchEnd(cursor) > cursor
                THEN [next |-> cursor + 1, last |-> BatchEnd(cursor),
                      step |-> "invalidate"]
                ELSE batch
    /\ UNCHANGED <<max_seq, cursor, live_tx, hot_label_cache, app>>

\* The event is of a kind hot_label_cache_event_kind lists, or of another.
Invalidate ==
    /\ batch.step = "invalidate"
    /\ batch' = [batch EXCEPT !.step = "send"]
    /\ \/ hot_label_cache' = [a \in Account |-> None]
       \/ UNCHANGED hot_label_cache
    /\ UNCHANGED <<max_seq, cursor, live_tx, app>>

\* Two wrong places to leave the cursor, then the code's.
NextSeqBehind == batch.last - 1
NextSeqLatest == max_seq
NextSeq == batch.last

Send ==
    /\ batch.step = "send"
    /\ live_tx' = Append(live_tx, batch.next)
    /\ batch' = [batch EXCEPT !.next = @ + 1,
                     !.step = IF @ = "send" /\ batch.next = batch.last
                              THEN "poll" ELSE "invalidate"]
    /\ cursor' = IF batch.next = batch.last THEN NextSeq ELSE cursor
    /\ UNCHANGED <<max_seq, hot_label_cache, app>>

Poller == Poll \/ Invalidate \/ Send
-----------------------------------------------------------------------------
(* Fetching a snapshot.                                                    *)

Connect(s) ==
    /\ phase[s] = "offline"
    /\ live_rx' = [live_rx EXCEPT ![s] = Len(live_tx)]
    /\ pending' = [pending EXCEPT ![s] = 1]
    /\ phase' = [phase EXCEPT ![s] = "fetching"]
    /\ UNCHANGED <<feed, selected, refresh_requested, action, running,
                   fetched, event_seq, view, noticed>>

\* The phase of render_once after one of its calls, with n refreshes to go.
AfterCalls(n) == IF n > 0 THEN "fetching" ELSE "drawing"

\* refresh_inputs, and the first read of the snapshot.
BeginFetch(s) ==
    /\ phase[s] = "fetching"
    /\ fetched' = [fetched EXCEPT ![s] =
                      [source |-> selected[s], version |-> max_seq,
                       labels |-> 0, blind |-> FALSE]]
    /\ phase' = [phase EXCEPT ![s] = "event_seq"]
    /\ UNCHANGED <<feed, live_rx, selected, refresh_requested, action,
                   pending, running, event_seq, view, noticed>>

\* unwrap_or(0): a MAX(seq) that cannot be read counts as 0.
ReadEventSeq(s) ==
    /\ phase[s] = "event_seq"
    /\ \E blind \in BOOLEAN :
          /\ fetched' = [fetched EXCEPT ![s].blind = blind]
          /\ event_seq' = [event_seq EXCEPT
                              ![s] = IF blind THEN 0 ELSE max_seq]
    /\ phase' = [phase EXCEPT ![s] = "lookup"]
    /\ UNCHANGED <<feed, live_rx, selected, refresh_requested, action,
                   pending, running, view, noticed>>

CacheHit(s) ==
    LET entry == hot_label_cache[AccountOf[s]]
    IN  entry # None /\ entry.event_seq = event_seq[s]

Lookup(s) ==
    /\ phase[s] = "lookup"
    /\ IF CacheHit(s)
       THEN /\ fetched' = [fetched EXCEPT
                              ![s].labels = hot_label_cache[AccountOf[s]].labels]
            /\ event_seq' = [event_seq EXCEPT ![s] = 0]
            /\ phase' = [phase EXCEPT ![s] = "applying"]
       ELSE /\ phase' = [phase EXCEPT ![s] = "labels"]
            /\ UNCHANGED <<fetched, event_seq>>
    /\ UNCHANGED <<feed, live_rx, selected, refresh_requested, action,
                   pending, running, view, noticed>>

LoadLabels(s) ==
    /\ phase[s] = "labels"
    /\ fetched' = [fetched EXCEPT ![s].labels = max_seq]
    /\ phase' = [phase EXCEPT ![s] = "storing"]
    /\ UNCHANGED <<feed, live_rx, selected, refresh_requested, action,
                   pending, running, event_seq, view, noticed>>

\* The event_seq an entry is stored under: not one read after the labels.
EntrySeqLatest(s) == max_seq
EntrySeq(s) == event_seq[s]

StoreLabels(s) ==
    /\ phase[s] = "storing"
    /\ hot_label_cache' = [hot_label_cache EXCEPT ![AccountOf[s]] =
           [event_seq |-> EntrySeq(s), labels |-> fetched[s].labels]]
    /\ event_seq' = [event_seq EXCEPT ![s] = 0]
    /\ phase' = [phase EXCEPT ![s] = "applying"]
    /\ UNCHANGED <<max_seq, cursor, batch, live_tx, live_rx, selected,
                   refresh_requested, action, pending, running, fetched, view,
                   noticed>>

\* apply_refresh, or the end of App::new.
Apply(s) ==
    /\ phase[s] = "applying"
    /\ view' = [view EXCEPT ![s] = fetched[s]]
    /\ selected' = [selected EXCEPT ![s] = fetched[s].source]
    /\ refresh_requested' = [refresh_requested EXCEPT ![s] = FALSE]
    /\ pending' = [pending EXCEPT ![s] = @ - 1]
    /\ phase' = [phase EXCEPT ![s] = IF view[s] = None THEN "waiting"
                                     ELSE AfterCalls(pending[s] - 1)]
    /\ UNCHANGED <<feed, live_rx, action, running, fetched, event_seq,
                   noticed>>

\* A read fails: App::new gives up, perform_refresh ends the session.
FetchFails(s) ==
    /\ phase[s] \in {"fetching", "labels", "applying"}
    /\ running' = [running EXCEPT ![s] = FALSE]
    /\ event_seq' = [event_seq EXCEPT ![s] = 0]
    /\ pending' = [pending EXCEPT ![s] = @ - 1]
    /\ phase' = [phase EXCEPT ![s] = IF view[s] = None THEN "closed"
                                     ELSE AfterCalls(pending[s] - 1)]
    /\ UNCHANGED <<feed, live_rx, selected, refresh_requested, action,
                   fetched, view, noticed>>
-----------------------------------------------------------------------------
(* render_once.                                                            *)

Lagged(s) == Len(live_tx) - live_rx[s] > Capacity

\* What drain_live_events leaves received: on lag it stops at the oldest
\* event that is left.
Drained(s) == IF Lagged(s) THEN Len(live_tx) - Capacity ELSE Len(live_tx)

\* Its result: a lag counts as a change.
LiveChangedUnlessLagged(s) == Len(live_tx) > live_rx[s] /\ ~Lagged(s)
LiveChanged(s) == Len(live_tx) > live_rx[s]

\* Actions that only list; the others change something, and may open what
\* they make or find: select_channel, select_thread, select_conversation.
RefreshesAfterChange(act) == act = "change"
RefreshesAfter(act) == act # "list"

\* The first lock of a frame: events, requests and actions are taken, with
\* what the keys select and push.
Frame(s, source, selects, act) ==
    LET needs == LiveChanged(s) \/ refresh_requested[s] \/ selects
        calls == IF needs THEN 1 ELSE 0
    IN  /\ phase[s] = "waiting"
        /\ selected' = [selected EXCEPT ![s] = source]
        /\ live_rx' = [live_rx EXCEPT ![s] = Drained(s)]
        /\ refresh_requested' = [refresh_requested EXCEPT ![s] = FALSE]
        /\ action' = [action EXCEPT ![s] = act]
        /\ pending' = [pending EXCEPT ![s] = calls]
        /\ noticed' = [noticed EXCEPT ![s] =
               IF Drained(s) > live_rx[s] THEN live_tx[Drained(s)] ELSE 0]
        /\ phase' = [phase EXCEPT ![s] = IF act # "none" THEN "acting"
                                         ELSE AfterCalls(calls)]
        /\ UNCHANGED <<feed, running, fetched, event_seq, view>>

Tick(s) == Frame(s, selected[s], FALSE, action[s])

\* Keys that select and act; an action left by the last frame goes first.
Keys(s) ==
    \E source \in Source, selects \in BOOLEAN, act \in Action :
       /\ source # selected[s] => selects
       /\ action[s] # "none" => act = action[s]
       /\ Frame(s, source, selects, act)

\* The keys quit: the frame ends with its first lock.
Quit(s) ==
    /\ phase[s] = "waiting"
    /\ phase' = [phase EXCEPT ![s] = "closed"]
    /\ running' = [running EXCEPT ![s] = FALSE]
    /\ UNCHANGED <<feed, live_rx, selected, refresh_requested, action, pending,
                   fetched, event_seq, view, noticed>>

\* process_action: the change it makes, or its failure, then the refresh.
\* Selecting a thread or a DM leaves an action that marks it read.
Act(s) ==
    /\ phase[s] = "acting"
    /\ \/ /\ action[s] # "list" /\ max_seq < MaxEvents
          /\ max_seq' = max_seq + 1
       \/ UNCHANGED max_seq
    /\ \/ /\ action[s] = "open"
          /\ \E source \in Source :
                selected' = [selected EXCEPT ![s] = source]
          /\ refresh_requested' = [refresh_requested EXCEPT ![s] = TRUE]
          /\ \E mark \in {"none", "change"} :
                action' = [action EXCEPT ![s] = mark]
       \/ /\ action' = [action EXCEPT ![s] = "none"]
          /\ UNCHANGED <<selected, refresh_requested>>
    /\ LET calls == pending[s] + IF RefreshesAfter(action[s]) THEN 1 ELSE 0
       IN  /\ pending' = [pending EXCEPT ![s] = calls]
           /\ phase' = [phase EXCEPT ![s] = AfterCalls(calls)]
    /\ UNCHANGED <<cursor, batch, live_tx, hot_label_cache, live_rx, running,
                   fetched, event_seq, view, noticed>>

\* The second drain of render_once only wakes the task again, and the frame
\* is drawn and sent, or the session ends.
Draw(s) ==
    /\ phase[s] = "drawing"
    /\ live_rx' = [live_rx EXCEPT ![s] = Drained(s)]
    /\ refresh_requested' = [refresh_requested EXCEPT ![s] = FALSE]
    /\ \E sent \in BOOLEAN :
          phase' = [phase EXCEPT ![s] = IF running[s] /\ sent THEN "waiting"
                                        ELSE "closed"]
    /\ UNCHANGED <<feed, selected, action, pending, running, fetched,
                   event_seq, view, noticed>>

Fetch(s) ==
    \/ BeginFetch(s) \/ ReadEventSeq(s) \/ Lookup(s) \/ LoadLabels(s)
    \/ StoreLabels(s) \/ Apply(s) \/ FetchFails(s)

Task(s) == Connect(s) \/ Fetch(s) \/ Tick(s) \/ Act(s) \/ Draw(s)

Next ==
    \/ Commit
    \/ Poller
    \/ \E s \in Session : Task(s) \/ Keys(s) \/ Quit(s)

Spec == Init /\ [][Next]_vars

\* The poller's interval and the sessions' WORLD_TICK_INTERVAL keep firing.
LiveSpec == /\ Spec
            /\ WF_vars(Poller)
            /\ \A s \in Session : WF_vars(Task(s))
-----------------------------------------------------------------------------
(* Properties.                                                             *)

\* Every event is broadcast once and in the order of event_log.seq, whatever
\* the batches and the failures of polls (start_event_poller).
PublishedOnceInOrder == \A i \in 1..Len(live_tx) : live_tx[i] = i

\* Between frames, the snapshot is at least as recent as every event the
\* frame took from the channel, those it skipped on lag included: none of
\* them was committed after the reads (render_once, drain_live_events).
NoticedEventsAreFetched ==
    \A s \in Session : phase[s] = "waiting" => view[s].version >= noticed[s]

\* The hot labels of a snapshot are never older than the rest of it, whoever
\* stored the entry they come from, unless MAX(seq) could not be read
\* (load_hot_labels_cached).
HotLabelsCurrent ==
    \A s \in Session :
       view[s] # None /\ ~view[s].blind => view[s].labels >= view[s].version

\* Between frames, what is on screen is what is selected, however a key or an
\* action moved the selection (refreshes_after, apply_refresh).
SelectionIsShown ==
    \A s \in Session :
       phase[s] = "waiting" => view[s].source = selected[s]

\* Every committed event is broadcast in the end (start_event_poller).
EventsArePublished ==
    \A n \in 1..MaxEvents : max_seq >= n ~> Len(live_tx) >= n

\* README.md:21 "real-time collaboration": a change committed while a session
\* is up is on its screen in the end.
ChangesReachTheScreen ==
    \A s \in Session, n \in 1..MaxEvents :
       phase[s] = "waiting" /\ max_seq >= n
          ~> phase[s] = "closed" \/ (view[s] # None /\ view[s].version >= n)
=============================================================================
