------------------------------ MODULE Terminal ------------------------------
(***************************************************************************)
(* The terminals of authenticated SSH connections: the requests that set   *)
(* one up, its raw input, the task that decodes it into keys and wheel     *)
(* events, the render task that handles them, and the connections that     *)
(* render tasks count for presence.                                        *)
(*                                                                         *)
(* A terminal is what one pty_request makes: an App and three queues.  A   *)
(* connection may ask for several, one after the other or one on top of    *)
(* the other.  An escape sequence cut in two by the network is left to     *)
(* InputDecoder, and what a key does to its App is left out, except that   *)
(* some keys (Ctrl-C, Ctrl-D, a confirmed quit) make it stop running.      *)
(***************************************************************************)
EXTENDS Integers, FiniteSets, SequencesExt

CONSTANTS
    Conn,               \* SSH connections, each used once
    Account,
    AccountOf,          \* whose each connection is
    MaxTerminals,       \* bound of the model: pty_requests answered
    Chunk,              \* what a client sends at once, a sequence of EventKind
    InputQueueCap,      \* of chunks
    KeyQueueCap,
    MaxKeysPerFrame,
    MaxChunks,          \* bound of the model: clients send no more than this
    NoTerminal

EventKind == {"key", "quit", "wheel"}
Terminal == 1..MaxTerminals

ASSUME AccountsKnown == AccountOf \in [Conn -> Account]
ASSUME NoneIsNone == NoTerminal \notin Conn \cup Nat
ASSUME ChunksAreEvents == Chunk \subseteq Seq(EventKind)
ASSUME BoundsAreNumbers == MaxTerminals \in Nat /\ MaxChunks \in Nat
ASSUME CapsPositive ==
    {InputQueueCap, KeyQueueCap, MaxKeysPerFrame} \subseteq Nat \ {0}

VARIABLES
    conn,                \* whether each connection is up, and was
    channel,             \* connections with a session channel not used yet
    terminal_active,     \* connections whose shell has not been cleaned up
    handler_app,         \* the last terminal each connection asked for
    input_tx,            \* where it sends its input
    input_rx,            \* connections that still hold the queues' other ends
    owner,               \* connection of each terminal
    running,             \* terminals whose App is running
    input_queue,         \* chunks sent to each terminal
    decoding,            \* what is left of the chunk its decoder has taken
    decoder,             \* its decoder task
    key_queue,
    task,                \* its render task
    app_activated,       \* terminals whose App knows an activated account
    presence,            \* terminals with a presence_session_id
    active_connections,  \* of each account, 0 for no entry
    chunks,              \* sent so far
    typed,               \* history: keys accepted for each terminal
    handled              \* history: keys its App has handled

handler == <<conn, channel, terminal_active, handler_app, input_tx, input_rx,
             owner>>
queues == <<input_queue, decoding, decoder, key_queue>>
render == <<running, task, app_activated>>
counts == <<presence, active_connections>>
history == <<chunks, typed, handled>>
vars == <<handler, queues, render, counts, history>>

Event == [chunk : Nat, at : Nat, kind : EventKind]
Key == {e \in Event : e.kind # "wheel"}

\* The variables are of their types, and no queue outgrows its capacity.
TypeOK ==
    /\ conn \in [Conn -> {"new", "up", "gone"}]
    /\ channel \subseteq Conn
    /\ terminal_active \subseteq Conn
    /\ handler_app \in [Conn -> Terminal \cup {NoTerminal}]
    /\ input_tx \in [Conn -> Terminal \cup {NoTerminal}]
    /\ input_rx \subseteq Conn
    /\ owner \in [Terminal -> Conn \cup {NoTerminal}]
    /\ running \subseteq Terminal
    /\ input_queue \in [Terminal -> Seq(Seq(Event))]
    /\ decoding \in [Terminal -> Seq(Event)]
    /\ decoder \in [Terminal -> {"none", "run", "ended"}]
    /\ key_queue \in [Terminal -> Seq(Key)]
    /\ task \in [Terminal -> {"none", "wake", "begin", "frame", "act", "close",
                              "record", "ended"}]
    /\ app_activated \subseteq Terminal
    /\ presence \subseteq Terminal
    /\ active_connections \in [Account -> Nat]
    /\ chunks \in 0..MaxChunks
    /\ typed \in [Terminal -> Seq(Key)]
    /\ handled \in [Terminal -> Seq(Key)]
    /\ \A t \in Terminal : /\ Len(input_queue[t]) <= InputQueueCap
                           /\ Len(key_queue[t]) <= KeyQueueCap

Init ==
    /\ conn = [c \in Conn |-> "new"]
    /\ channel = {} /\ terminal_active = {} /\ input_rx = {}
    /\ handler_app = [c \in Conn |-> NoTerminal]
    /\ input_tx = [c \in Conn |-> NoTerminal]
    /\ owner = [t \in Terminal |-> NoTerminal]
    /\ running = {} /\ app_activated = {} /\ presence = {}
    /\ input_queue = [t \in Terminal |-> <<>>]
    /\ decoding = [t \in Terminal |-> <<>>]
    /\ decoder = [t \in Terminal |-> "none"]
    /\ key_queue = [t \in Terminal |-> <<>>]
    /\ task = [t \in Terminal |-> "none"]
    /\ active_connections = [a \in Account |-> 0]
    /\ chunks = 0
    /\ typed = [t \in Terminal |-> <<>>]
    /\ handled = [t \in Terminal |-> <<>>]
-----------------------------------------------------------------------------
(* Requests of a client, which its handler answers one by one.             *)

Login(c) ==
    /\ conn[c] = "new"
    /\ conn' = [conn EXCEPT ![c] = "up"]
    /\ UNCHANGED <<channel, terminal_active, handler_app, input_tx, input_rx,
                   owner, queues, render, counts, history>>

ChannelOpenSession(c) ==
    /\ conn[c] = "up"
    /\ c \notin channel \cup terminal_active
    /\ channel' = channel \cup {c}
    /\ UNCHANGED <<conn, terminal_active, handler_app, input_tx, input_rx,
                   owner, queues, render, counts, history>>

\* App::new is given the account as of the login, activated or not then.  If
\* its snapshot fails the handler's error ends the connection (HangUp).
PtyRequest(c, t) ==
    /\ conn[c] = "up"
    /\ owner[t] = NoTerminal /\ \A u \in 1..t - 1 : owner[u] # NoTerminal
    /\ owner' = [owner EXCEPT ![t] = c]
    /\ running' = running \cup {t}
    /\ \/ UNCHANGED app_activated
       \/ app_activated' = app_activated \cup {t}
    /\ handler_app' = [handler_app EXCEPT ![c] = t]
    /\ input_tx' = [input_tx EXCEPT ![c] = t]
    /\ input_rx' = input_rx \cup {c}
    /\ UNCHANGED <<conn, channel, terminal_active, queues, task, counts,
                   history>>

\* Nothing happens without a channel; without an App, or when its queues were
\* taken by an earlier shell, the channel is used up all the same.
ShellRequest(c) ==
    /\ conn[c] = "up"
    /\ c \in channel
    /\ channel' = channel \ {c}
    /\ IF c \in input_rx
       THEN /\ input_rx' = input_rx \ {c}
            /\ terminal_active' = terminal_active \cup {c}
            /\ decoder' = [decoder EXCEPT ![handler_app[c]] = "run"]
            /\ task' = [task EXCEPT ![handler_app[c]] = "wake"]
       ELSE UNCHANGED <<input_rx, terminal_active, decoder, task>>
    /\ UNCHANGED <<conn, handler_app, input_tx, owner, input_queue, decoding,
                   key_queue, running, app_activated, counts, history>>

\* channel_eof and channel_close alike.
ChannelEof(c) ==
    /\ conn[c] = "up"
    /\ terminal_active' = terminal_active \ {c}
    /\ input_tx' = [input_tx EXCEPT ![c] = NoTerminal]
    /\ running' = running \ {handler_app[c]}
    /\ UNCHANGED <<conn, channel, handler_app, input_rx, owner, queues, task,
                   app_activated, counts, history>>

\* The connection ends, by either side, and its handler is dropped.
HangUp(c) ==
    /\ conn[c] = "up"
    /\ conn' = [conn EXCEPT ![c] = "gone"]
    /\ channel' = channel \ {c}
    /\ input_tx' = [input_tx EXCEPT ![c] = NoTerminal]
    /\ input_rx' = input_rx \ {c}
    /\ UNCHANGED <<terminal_active, handler_app, owner, queues, render, counts,
                   history>>
-----------------------------------------------------------------------------
(* Input: a chunk waits for room in the queue, for 150 ms, then is dropped;*)
(* so is one sent to a queue whose other end is gone.                      *)

KeysOf(event) == IF event.kind = "wheel" THEN << >> ELSE <<event>>

Keys(events) == FlattenSeq([i \in DOMAIN events |-> KeysOf(events[i])])

\* What the client types next, each event told apart by where it was typed.
Typed(kinds) ==
    [i \in DOMAIN kinds |-> [chunk |-> chunks + 1, at |-> i, kind |-> kinds[i]]]

Enqueue(t, events) ==
    /\ decoder[t] # "ended"
    /\ Len(input_queue[t]) < InputQueueCap
    /\ input_queue' = [input_queue EXCEPT ![t] = Append(@, events)]
    /\ typed' = [typed EXCEPT ![t] = @ \o Keys(events)]

DropInput(t) ==
    /\ decoder[t] = "ended" \/ Len(input_queue[t]) = InputQueueCap
    /\ UNCHANGED <<input_queue, typed>>

Data(c, kinds) ==
    /\ conn[c] = "up"
    /\ input_tx[c] # NoTerminal
    /\ chunks < MaxChunks
    /\ chunks' = chunks + 1
    /\ Enqueue(input_tx[c], Typed(kinds)) \/ DropInput(input_tx[c])
    /\ UNCHANGED <<handler, decoding, decoder, key_queue, render,
                   counts, handled>>
-----------------------------------------------------------------------------
(* decode_input_to_queues                                                  *)

InputClosed(t) == input_tx[owner[t]] # t
KeysClosed(t) == task[t] = "ended"

DecoderEnds(t) == decoder' = [decoder EXCEPT ![t] = "ended"]

TakeInput(t) ==
    /\ decoder[t] = "run" /\ decoding[t] = <<>>
    /\ IF input_queue[t] # <<>>
       THEN /\ decoding' = [decoding EXCEPT ![t] = Head(input_queue[t])]
            /\ input_queue' = [input_queue EXCEPT ![t] = Tail(@)]
            /\ UNCHANGED decoder
       ELSE /\ InputClosed(t)
            /\ DecoderEnds(t)
            /\ UNCHANGED <<decoding, input_queue>>
    /\ UNCHANGED <<handler, key_queue, render, counts, history>>

\* Mutant: a decoder that does not wait for room in the queue of keys.
DecodeUnbounded(t) ==
    /\ decoder[t] = "run" /\ decoding[t] # <<>>
    /\ decoding' = [decoding EXCEPT ![t] = Tail(@)]
    /\ key_queue' = [key_queue EXCEPT ![t] = @ \o Keys(<<Head(decoding[t])>>)]
    /\ UNCHANGED <<handler, input_queue, decoder, render, counts, history>>

\* Mutant: a decoder that drops keys as it drops wheel events.
DecodeLossy(t) ==
    /\ decoder[t] = "run" /\ decoding[t] # <<>>
    /\ decoding' = [decoding EXCEPT ![t] = Tail(@)]
    /\ key_queue' = [key_queue EXCEPT
                         ![t] = IF Len(@) < KeyQueueCap
                                THEN @ \o Keys(<<Head(decoding[t])>>) ELSE @]
    /\ UNCHANGED <<handler, input_queue, decoder, render, counts, history>>

\* A key waits for room; a wheel event never does, as it is dropped when its
\* queue is full, and what becomes of it is left out.  Either ends the decoder
\* once nobody reads it.
Decode(t) ==
    /\ decoder[t] = "run" /\ decoding[t] # <<>>
    /\ IF KeysClosed(t)
       THEN DecoderEnds(t) /\ UNCHANGED <<decoding, key_queue>>
       ELSE /\ decoding' = [decoding EXCEPT ![t] = Tail(@)]
            /\ UNCHANGED decoder
            /\ IF Head(decoding[t]).kind = "wheel"
               THEN UNCHANGED key_queue
               ELSE /\ Len(key_queue[t]) < KeyQueueCap
                    /\ key_queue' = [key_queue EXCEPT
                                         ![t] = Append(@, Head(decoding[t]))]
    /\ UNCHANGED <<handler, input_queue, render, counts, history>>
-----------------------------------------------------------------------------
(* Presence: begin_account_session counts the connection, then writes its  *)
(* row, and takes it back if that fails; the end takes it back, then       *)
(* writes.  The rows, which other processes read, are left out, and so is  *)
(* the heartbeat that only renews them.                                    *)

Goto(t, next) == task' = [task EXCEPT ![t] = next]

Owned(t) == AccountOf[owner[t]]

CountSession(t) ==
    active_connections' = [active_connections EXCEPT ![Owned(t)] = @ + 1]

RemoveSession(t) ==
    active_connections' =
        [active_connections EXCEPT ![Owned(t)] = IF @ > 0 THEN @ - 1 ELSE @]

\* A session is begun as soon as the App's account is activated, and before
\* each frame again as long as that failed.
SessionDue(t) == t \notin presence /\ t \in app_activated

BeginSession(t) ==
    /\ task[t] = "wake" /\ SessionDue(t)
    /\ Goto(t, "begin")
    /\ CountSession(t)
    /\ UNCHANGED <<handler, queues, running, app_activated, presence, history>>

\* Mutant: a session whose row could not be written stays counted.
BeginAnswersCounted(t) ==
    /\ task[t] = "begin"
    /\ Goto(t, "frame")
    /\ presence' = presence \cup {t} \/ UNCHANGED presence
    /\ UNCHANGED <<handler, queues, running, app_activated, active_connections,
                   history>>

BeginAnswers(t) ==
    /\ task[t] = "begin"
    /\ Goto(t, "frame")
    /\ \/ presence' = presence \cup {t} /\ UNCHANGED active_connections
       \/ RemoveSession(t) /\ UNCHANGED presence
    /\ UNCHANGED <<handler, queues, running, app_activated, history>>

Close(t) ==
    /\ task[t] = "close"
    /\ IF t \in presence
       THEN Goto(t, "record") /\ RemoveSession(t)
       ELSE Goto(t, "ended") /\ UNCHANGED active_connections
    /\ UNCHANGED <<handler, queues, running, app_activated, presence, history>>

RecordAnswers(t) ==
    /\ task[t] = "record"
    /\ Goto(t, "ended")
    /\ UNCHANGED <<handler, queues, running, app_activated, counts, history>>
-----------------------------------------------------------------------------
(* render_once                                                             *)

\* A frame handles keys up to the first after which its App is not running.
Stops(t, i) == t \notin running \/ key_queue[t][i].kind = "quit"

Drained(t, n) ==
    /\ n \in 0..Len(key_queue[t]) /\ n <= MaxKeysPerFrame
    /\ \A i \in 1..n - 1 : ~Stops(t, i)
    /\ n \in {Len(key_queue[t]), MaxKeysPerFrame} \/ (n > 0 /\ Stops(t, n))

\* The actions of an App that stopped are not processed.
Frame(t) ==
    /\ task[t] = "frame" \/ (task[t] = "wake" /\ ~SessionDue(t))
    /\ \E n \in 0..Len(key_queue[t]) :
           /\ Drained(t, n)
           /\ handled' = [handled EXCEPT ![t] = @ \o SubSeq(key_queue[t], 1, n)]
           /\ key_queue' = [key_queue EXCEPT
                                ![t] = SubSeq(@, n + 1, Len(@))]
           /\ running' = IF n > 0 /\ Stops(t, n) THEN running \ {t} ELSE running
    /\ Goto(t, IF t \in running' THEN "act" ELSE "close")
    /\ UNCHANGED <<handler, input_queue, decoding, decoder, app_activated,
                   counts, chunks, typed>>

\* Mutant: a frame that cannot be sent is taken for one that timed out.
DrawRegardless(t) ==
    /\ task[t] = "act"
    /\ Goto(t, IF t \in running THEN "wake" ELSE "close")
    /\ UNCHANGED <<handler, queues, running, app_activated, counts, history>>

\* The actions of the frame are done, and a refresh if one was due: it reads
\* the account, which may have been onboarded meanwhile, or fails, as for a
\* disabled one, and then the App stops.  Sending the frame works, or times
\* out and is made up for by the next, as long as the connection is up.
DrawFrame(t) ==
    /\ task[t] = "act"
    /\ \/ UNCHANGED <<running, app_activated>>
       \/ app_activated' = app_activated \cup {t} /\ UNCHANGED running
       \/ running' = running \ {t} /\ UNCHANGED app_activated
    /\ Goto(t, IF t \in running' /\ conn[owner[t]] = "up"
               THEN "wake" ELSE "close")
    /\ UNCHANGED <<handler, queues, counts, history>>
-----------------------------------------------------------------------------
DecoderStep(t) == TakeInput(t) \/ Decode(t)

RenderStep(t) ==
    \/ BeginSession(t) \/ BeginAnswers(t) \/ Frame(t) \/ DrawFrame(t)
    \/ Close(t) \/ RecordAnswers(t)

Next ==
    \/ \E c \in Conn :
           \/ Login(c) \/ ChannelOpenSession(c)
           \/ ShellRequest(c) \/ ChannelEof(c) \/ HangUp(c)
           \/ \E t \in Terminal : PtyRequest(c, t)
           \/ \E kinds \in Chunk : Data(c, kinds)
    \/ \E t \in Terminal : DecoderStep(t) \/ RenderStep(t)

Spec == Init /\ [][Next]_vars

\* Tasks get their turn and every await of theirs returns; clients may do
\* nothing for ever.
LiveSpec ==
    /\ Spec
    /\ \A t \in Terminal : WF_vars(DecoderStep(t)) /\ WF_vars(RenderStep(t))
-----------------------------------------------------------------------------
(* Properties *)

\* From the moment it counts its session until it takes it back.
Counted(t) ==
    \/ task[t] = "begin"
    \/ t \in presence /\ task[t] \notin {"record", "ended"}

Counting(a) ==
    {t \in Terminal : owner[t] # NoTerminal /\ Owned(t) = a /\ Counted(t)}

\* An account is in active_connections as often as render tasks count on it
\* (begin_account_session, end_account_session_inner), whatever fails on the
\* way and however connections end: nobody who left stays online in the
\* process, and nobody goes offline with a terminal left.
ConnectionsCounted ==
    \A a \in Account : active_connections[a] = Cardinality(Counting(a))

\* The keys typed into a terminal are handled in order, none of them lost or
\* repeated on its way through the two queues and the decoder (data,
\* decode_input_to_queues, render_once), whatever the wheel does.
KeysInOrder ==
    \A t \in Terminal :
        typed[t] = handled[t] \o key_queue[t] \o Keys(decoding[t])
                       \o Keys(FlattenSeq(input_queue[t]))

\* A connection that is gone leaves no task behind: its decoder ends, even one
\* waiting for room, and its render tasks, also those of terminals that a
\* second pty_request replaced, take back their sessions and end.
TerminalsEnd ==
    \A t \in Terminal :
        (task[t] # "none" /\ conn[owner[t]] = "gone")
            ~> (task[t] = "ended" /\ decoder[t] = "ended" /\ ~Counted(t))
=============================================================================
