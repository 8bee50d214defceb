--------------------------- MODULE SessionProofs ---------------------------
(***************************************************************************)
(* A session, in two parts that share no state and the same lemmas on      *)
(* sequences.                                                              *)
(*                                                                         *)
(* The terminal (Terminal.tla), for any number of connections, accounts    *)
(* and terminals: active_connections counts the render tasks that count on *)
(* it, for which the type facts of the handler's terminals, the tasks and  *)
(* the counts are enough; then the type of every queue, and that no key is *)
(* lost, repeated or overtaken on its way through them.                    *)
(*                                                                         *)
(* The App (Client.tla), for any channels, threads and conversations: every*)
(* handler, action and refresh is shown to keep an App sound, and to ask   *)
(* again for the rows it no longer has.  From there follow the invariant   *)
(* ClientInv and that pages and selections agree.                          *)
(***************************************************************************)
EXTENDS Terminal, Client, FiniteSetTheorems, SequenceTheorems,
        WellFoundedInduction, TLAPS

(* Connections counted                                                     *)

Task == {"none", "wake", "begin", "frame", "act", "close", "record", "ended"}

CountsTyped ==
    /\ handler_app \in [Conn -> Terminal \cup {NoTerminal}]
    /\ input_rx \subseteq Conn
    /\ owner \in [Terminal -> Conn \cup {NoTerminal}]
    /\ task \in [Terminal -> Task]
    /\ presence \subseteq Terminal
    /\ active_connections \in [Account -> Nat]

\* A terminal has a task only once it has an owner, and no session before.
TasksOwned ==
    \A t \in Terminal :
        /\ owner[t] = NoTerminal => task[t] = "none"
        /\ t \in presence => task[t] \notin {"none", "begin"}

\* What a shell_request will start has not been started before.
ShellsFresh ==
    \A c \in input_rx :
        /\ handler_app[c] \in Terminal /\ owner[handler_app[c]] = c
        /\ task[handler_app[c]] = "none"

IInv == CountsTyped /\ TasksOwned /\ ShellsFresh /\ ConnectionsCounted
-----------------------------------------------------------------------------
LEMMA TerminalsAreFinite == IsFiniteSet(Terminal)
<1>1. MaxTerminals \in Int
  BY BoundsAreNumbers
<1> QED  BY <1>1, FS_Interval DEF Terminal

LEMMA CountingIsFinite ==
    ASSUME NEW a PROVE IsFiniteSet(Counting(a))
BY TerminalsAreFinite, FS_Subset DEF Counting

LEMMA Initially == Init => IInv
<1> SUFFICES ASSUME Init PROVE IInv
  OBVIOUS
<1>1. CountsTyped
  BY DEF Init, CountsTyped, Task
<1>2. TasksOwned
  BY DEF Init, TasksOwned
<1>3. ShellsFresh
  BY DEF Init, ShellsFresh
<1>4. ASSUME NEW a \in Account
      PROVE  active_connections[a] = Cardinality(Counting(a))
  <2>1. Counting(a) = {}
    BY DEF Init, Counting
  <2> QED  BY <2>1, FS_EmptySet DEF Init
<1> QED  BY <1>1, <1>2, <1>3, <1>4 DEF IInv, ConnectionsCounted

\* A step that counts no terminal more or less, and leaves the table alone.
LEMMA CountsKept ==
    ASSUME ConnectionsCounted, UNCHANGED active_connections,
           \A a \in Account : Counting(a)' = Counting(a)
    PROVE  ConnectionsCounted'
BY DEF ConnectionsCounted

\* A step of a handler, or of a decoder, that starts nothing.
LEMMA QuietSteps ==
    ASSUME IInv, input_rx' \subseteq input_rx,
           UNCHANGED <<handler_app, owner, task, presence, active_connections>>
    PROVE  IInv'
<1> USE DEF IInv
<1>1. CountsTyped'
  BY DEF CountsTyped
<1>2. TasksOwned'
  BY DEF TasksOwned
<1>3. ShellsFresh'
  BY DEF ShellsFresh
<1>4. ConnectionsCounted'
  BY CountsKept DEF Counting, Counted, Owned
<1> QED  BY <1>1, <1>2, <1>3, <1>4

\* A task moves on without its session being begun or taken back.
LEMMA TaskMoves ==
    ASSUME IInv, NEW t \in Terminal, NEW next \in Task \ {"none", "begin"},
           Goto(t, next), task[t] \notin {"none", "begin"},
           t \in presence =>
               (next \in {"record", "ended"} <=> task[t] \in {"record", "ended"}),
           UNCHANGED <<handler_app, input_rx, owner, presence, active_connections>>
    PROVE  IInv'
<1> USE DEF IInv
<1>0. task' = [task EXCEPT ![t] = next] /\ task \in [Terminal -> Task]
  BY DEF Goto, CountsTyped
<1>1. CountsTyped'
  BY <1>0 DEF CountsTyped
<1>2. TasksOwned'
  BY <1>0 DEF TasksOwned
<1>3. ShellsFresh'
  BY <1>0 DEF ShellsFresh
<1>4. \A u \in Terminal : Counted(u)' <=> Counted(u)
  BY <1>0 DEF Counted
<1>5. ConnectionsCounted'
  BY <1>4, CountsKept DEF Counting, Owned
<1> QED  BY <1>1, <1>2, <1>3, <1>5
-----------------------------------------------------------------------------
(* Handlers *)

LEMMA Requests ==
    ASSUME IInv, NEW c \in Conn,
           Login(c) \/ ChannelOpenSession(c) \/ ChannelEof(c) \/ HangUp(c)
               \/ \E kinds \in Chunk : Data(c, kinds)
    PROVE  IInv'
<1>1. input_rx' \subseteq input_rx /\
      UNCHANGED <<handler_app, owner, task, presence, active_connections>>
  BY DEF Login, ChannelOpenSession, ChannelEof, HangUp, Data, handler, render,
         counts
<1> QED  BY <1>1, QuietSteps

LEMMA PtyAnswered ==
    ASSUME IInv, NEW c \in Conn, NEW t \in Terminal, PtyRequest(c, t)
    PROVE  IInv'
<1> USE DEF IInv
<1>0. /\ owner[t] = NoTerminal /\ owner' = [owner EXCEPT ![t] = c]
      /\ handler_app' = [handler_app EXCEPT ![c] = t]
      /\ input_rx' = input_rx \cup {c}
      /\ UNCHANGED <<task, presence, active_connections>>
      /\ NoTerminal # c
  BY NoneIsNone DEF PtyRequest, counts
<1>1. CountsTyped'
  BY <1>0 DEF CountsTyped
<1>2. task[t] = "none" /\ t \notin presence
  BY <1>0 DEF TasksOwned
<1>3. TasksOwned'
  BY <1>0, <1>2 DEF TasksOwned, CountsTyped
<1>4. ASSUME NEW d \in input_rx'
      PROVE  /\ handler_app'[d] \in Terminal /\ owner'[handler_app'[d]] = d
             /\ task'[handler_app'[d]] = "none"
  <2>1. CASE d = c
    BY <1>0, <1>2, <2>1 DEF CountsTyped
  <2>2. CASE d # c
    <3>1. d \in input_rx /\ d \in Conn /\ handler_app'[d] = handler_app[d] /\ handler_app[d] # t
      BY <1>0, <2>2, NoneIsNone DEF CountsTyped, ShellsFresh
    <3> QED  BY <1>0, <3>1 DEF ShellsFresh, CountsTyped
  <2> QED  BY <2>1, <2>2
<1>5. ShellsFresh'
  BY <1>4 DEF ShellsFresh
<1>6. ASSUME NEW a \in Account PROVE Counting(a)' = Counting(a)
  <2>1. ASSUME NEW u \in Terminal PROVE u \in Counting(a)' <=> u \in Counting(a)
    <3>1. CASE u = t
      BY <1>0, <1>2, <3>1 DEF Counting, Counted
    <3>2. CASE u # t
      BY <1>0, <3>2 DEF Counting, Counted, Owned, CountsTyped
    <3> QED  BY <3>1, <3>2
  <2> QED  BY <2>1 DEF Counting
<1>7. ConnectionsCounted'
  BY <1>0, <1>6, CountsKept
<1> QED  BY <1>1, <1>3, <1>5, <1>7

LEMMA ShellAnswered ==
    ASSUME IInv, NEW c \in Conn, ShellRequest(c)
    PROVE  IInv'
<1> USE DEF IInv
<1>1. CASE c \notin input_rx
  <2>1. UNCHANGED <<handler_app, input_rx, owner, task, presence, active_connections>>
    BY <1>1 DEF ShellRequest, counts
  <2> QED  BY <2>1, QuietSteps
<1>2. CASE c \in input_rx
  <2> DEFINE t == handler_app[c]
  <2>0. /\ t \in Terminal /\ owner[t] = c /\ task[t] = "none"
        /\ task' = [task EXCEPT ![t] = "wake"]
        /\ input_rx' = input_rx \ {c}
        /\ UNCHANGED <<handler_app, owner, presence, active_connections>>
    BY <1>2 DEF ShellRequest, counts, ShellsFresh
  <2>1. CountsTyped'
    BY <2>0 DEF CountsTyped, Task
  <2>2. t \notin presence /\ owner[t] # NoTerminal
    BY <2>0, NoneIsNone DEF TasksOwned
  <2>3. TasksOwned'
    BY <2>0, <2>2 DEF TasksOwned, CountsTyped
  <2>4. ShellsFresh'
    BY <2>0 DEF ShellsFresh, CountsTyped
  <2>5. \A u \in Terminal : Counted(u)' <=> Counted(u)
    BY <2>0, <2>2 DEF Counted, CountsTyped
  <2>6. ConnectionsCounted'
    BY <2>0, <2>5, CountsKept DEF Counting, Owned
  <2> QED  BY <2>1, <2>3, <2>4, <2>6
<1> QED  BY <1>1, <1>2
-----------------------------------------------------------------------------
(* Sessions begun and taken back *)

\* Terminal t changes sides, for its account, and the table goes along.
LEMMA OneMore ==
    ASSUME IInv, NEW t \in Terminal, owner[t] # NoTerminal,
           ~Counted(t), Counted(t)', CountSession(t), UNCHANGED owner,
           \A u \in Terminal \ {t} : Counted(u)' <=> Counted(u)
    PROVE  ConnectionsCounted'
<1> USE DEF IInv
<1>1. active_connections \in [Account -> Nat]
  BY DEF CountsTyped
<1>2. ASSUME NEW a \in Account
      PROVE  active_connections'[a] = Cardinality(Counting(a)')
  <2>1. CASE a = Owned(t)
    <3>1. Counting(a)' = Counting(a) \cup {t} /\ t \notin Counting(a)
      BY <2>1 DEF Counting, Owned
    <3>2. Cardinality(Counting(a)') = Cardinality(Counting(a)) + 1
      BY <3>1, CountingIsFinite, FS_AddElement
    <3> QED  BY <1>1, <2>1, <3>2 DEF CountSession, ConnectionsCounted
  <2>2. CASE a # Owned(t)
    <3>1. Counting(a)' = Counting(a)
      BY <2>2 DEF Counting, Owned
    <3> QED  BY <1>1, <2>2, <3>1 DEF CountSession, ConnectionsCounted
  <2> QED  BY <2>1, <2>2
<1> QED  BY <1>2 DEF ConnectionsCounted

LEMMA OneLess ==
    ASSUME IInv, NEW t \in Terminal, owner[t] # NoTerminal,
           Counted(t), ~Counted(t)', RemoveSession(t), UNCHANGED owner,
           \A u \in Terminal \ {t} : Counted(u)' <=> Counted(u)
    PROVE  ConnectionsCounted'
<1> USE DEF IInv
<1>1. active_connections \in [Account -> Nat]
  BY DEF CountsTyped
<1>2. ASSUME NEW a \in Account
      PROVE  active_connections'[a] = Cardinality(Counting(a)')
  <2>1. CASE a = Owned(t)
    <3>1. Counting(a)' = Counting(a) \ {t} /\ t \in Counting(a)
      BY <2>1 DEF Counting, Owned
    <3>2. /\ Cardinality(Counting(a)') = Cardinality(Counting(a)) - 1
          /\ Cardinality(Counting(a)') \in Nat
      BY <3>1, CountingIsFinite, FS_RemoveElement, FS_CardinalityType
    <3> QED  BY <1>1, <2>1, <3>2 DEF RemoveSession, ConnectionsCounted
  <2>2. CASE a # Owned(t)
    <3>1. Counting(a)' = Counting(a)
      BY <2>2 DEF Counting, Owned
    <3> QED  BY <1>1, <2>2, <3>1 DEF RemoveSession, ConnectionsCounted
  <2> QED  BY <2>1, <2>2
<1> QED  BY <1>2 DEF ConnectionsCounted

LEMMA SessionBegins ==
    ASSUME IInv, NEW t \in Terminal, BeginSession(t)
    PROVE  IInv'
<1> USE DEF IInv
<1>0. /\ task[t] = "wake" /\ task' = [task EXCEPT ![t] = "begin"]
      /\ t \notin presence
      /\ CountSession(t)
      /\ UNCHANGED <<handler_app, input_rx, owner, presence>>
  BY DEF BeginSession, SessionDue, Goto, handler
<1>1. owner[t] # NoTerminal
  BY <1>0 DEF TasksOwned
<1>2. Owned(t) \in Account
  BY <1>1, AccountsKnown DEF Owned, CountsTyped
<1>3. CountsTyped'
  BY <1>0, <1>2 DEF CountsTyped, CountSession, Task
<1>4. TasksOwned'
  BY <1>0, <1>1 DEF TasksOwned, CountsTyped
<1>5. ShellsFresh'
  BY <1>0 DEF ShellsFresh, CountsTyped
<1>6. /\ ~Counted(t) /\ Counted(t)'
      /\ \A u \in Terminal \ {t} : Counted(u)' <=> Counted(u)
  BY <1>0 DEF Counted, CountsTyped
<1>7. ConnectionsCounted'
  BY <1>0, <1>1, <1>6, OneMore
<1> QED  BY <1>3, <1>4, <1>5, <1>7

LEMMA SessionBegun ==
    ASSUME IInv, NEW t \in Terminal, BeginAnswers(t)
    PROVE  IInv'
<1> USE DEF IInv
<1>0. /\ task[t] = "begin" /\ task' = [task EXCEPT ![t] = "frame"]
      /\ t \notin presence
      /\ UNCHANGED <<handler_app, input_rx, owner>>
  BY DEF BeginAnswers, Goto, handler, TasksOwned
<1>1. owner[t] # NoTerminal
  BY <1>0 DEF TasksOwned
<1>2. Owned(t) \in Account
  BY <1>1, AccountsKnown DEF Owned, CountsTyped
<1>3. \/ presence' = presence \cup {t} /\ UNCHANGED active_connections
      \/ RemoveSession(t) /\ UNCHANGED presence
  BY DEF BeginAnswers
<1>4. CountsTyped'
  BY <1>0, <1>2, <1>3 DEF CountsTyped, RemoveSession, Task
<1>5. TasksOwned'
  BY <1>0, <1>1, <1>3 DEF TasksOwned, CountsTyped
<1>6. ShellsFresh'
  BY <1>0 DEF ShellsFresh, CountsTyped
<1>7. \A u \in Terminal \ {t} : Counted(u)' <=> Counted(u)
  BY <1>0, <1>3 DEF Counted, CountsTyped
<1>8. ConnectionsCounted'
  <2>1. CASE presence' = presence \cup {t} /\ UNCHANGED active_connections
    <3>1. Counted(t) /\ Counted(t)'
      BY <1>0, <2>1 DEF Counted, CountsTyped
    <3>2. \A a \in Account : Counting(a)' = Counting(a)
      BY <1>0, <1>7, <3>1 DEF Counting, Owned
    <3> QED  BY <2>1, <3>2, CountsKept
  <2>2. CASE RemoveSession(t) /\ UNCHANGED presence
    <3>1. Counted(t) /\ ~Counted(t)'
      BY <1>0, <2>2 DEF Counted, CountsTyped
    <3> QED  BY <1>0, <1>1, <1>7, <2>2, <3>1, OneLess
  <2> QED  BY <1>3, <2>1, <2>2
<1> QED  BY <1>4, <1>5, <1>6, <1>8

LEMMA SessionEnds ==
    ASSUME IInv, NEW t \in Terminal, Close(t)
    PROVE  IInv'
<1> USE DEF IInv
<1>0. task[t] = "close" /\ UNCHANGED <<handler_app, input_rx, owner, presence>>
  BY DEF Close, handler
<1>1. CASE t \notin presence
  <2>1. Goto(t, "ended") /\ UNCHANGED active_connections
    BY <1>1 DEF Close
  <2> QED  BY <1>0, <1>1, <2>1, TaskMoves DEF Task
<1>2. CASE t \in presence
  <2>0. task' = [task EXCEPT ![t] = "record"] /\ RemoveSession(t)
    BY <1>2 DEF Close, Goto
  <2>1. owner[t] # NoTerminal
    BY <1>0 DEF TasksOwned
  <2>2. Owned(t) \in Account
    BY <2>1, AccountsKnown DEF Owned, CountsTyped
  <2>3. CountsTyped'
    BY <1>0, <2>0, <2>2 DEF CountsTyped, RemoveSession, Task
  <2>4. TasksOwned'
    BY <1>0, <2>0, <2>1 DEF TasksOwned, CountsTyped
  <2>5. ShellsFresh'
    BY <1>0, <2>0 DEF ShellsFresh, CountsTyped
  <2>6. /\ Counted(t) /\ ~Counted(t)'
        /\ \A u \in Terminal \ {t} : Counted(u)' <=> Counted(u)
    BY <1>0, <1>2, <2>0 DEF Counted, CountsTyped
  <2>7. ConnectionsCounted'
    BY <1>0, <2>0, <2>1, <2>6, OneLess
  <2> QED  BY <2>3, <2>4, <2>5, <2>7
<1> QED  BY <1>1, <1>2

\* The other steps of a render task.
LEMMA Frames ==
    ASSUME IInv, NEW t \in Terminal, Frame(t) \/ DrawFrame(t) \/ RecordAnswers(t)
    PROVE  IInv'
<1>0. UNCHANGED <<handler_app, input_rx, owner, presence, active_connections>>
  BY DEF Frame, DrawFrame, RecordAnswers, handler, counts
<1>1. CASE Frame(t)
  <2>1. PICK next \in {"act", "close"} : Goto(t, next)
    BY <1>1 DEF Frame
  <2>2. task[t] \in {"wake", "frame"}
    BY <1>1 DEF Frame
  <2> QED  BY <1>0, <2>1, <2>2, TaskMoves DEF Task
<1>2. CASE DrawFrame(t)
  <2>1. PICK next \in {"wake", "close"} : Goto(t, next)
    BY <1>2 DEF DrawFrame
  <2>2. task[t] = "act"
    BY <1>2 DEF DrawFrame
  <2> QED  BY <1>0, <2>1, <2>2, TaskMoves DEF Task
<1>3. CASE RecordAnswers(t)
  <2>1. task[t] = "record" /\ Goto(t, "ended")
    BY <1>3 DEF RecordAnswers
  <2> QED  BY <1>0, <2>1, TaskMoves DEF Task
<1> QED  BY <1>1, <1>2, <1>3

LEMMA Decoding ==
    ASSUME IInv, NEW t \in Terminal, DecoderStep(t)
    PROVE  IInv'
<1>1. UNCHANGED <<handler_app, input_rx, owner, task, presence, active_connections>>
  BY DEF DecoderStep, TakeInput, Decode, handler, render, counts
<1> QED  BY <1>1, QuietSteps
-----------------------------------------------------------------------------
\* active_connections is exact in every reachable state, for any connections,
\* accounts, terminals and queues, whichever way sessions begin, fail and end
\* (begin_account_session, end_account_session_inner in system/state.rs).
THEOREM SessionsCounted == Spec => []ConnectionsCounted
<1>1. Init => IInv
  BY Initially
<1>2. IInv /\ [Next]_vars => IInv'
  <2> SUFFICES ASSUME IInv, [Next]_vars PROVE IInv'
    OBVIOUS
  <2>1. ASSUME NEW c \in Conn,
               Login(c) \/ ChannelOpenSession(c) \/ ChannelEof(c) \/ HangUp(c)
                   \/ \E kinds \in Chunk : Data(c, kinds)
        PROVE  IInv'
    BY <2>1, Requests
  <2>2. ASSUME NEW c \in Conn, ShellRequest(c) PROVE IInv'
    BY <2>2, ShellAnswered
  <2>3. ASSUME NEW c \in Conn, NEW t \in Terminal, PtyRequest(c, t) PROVE IInv'
    BY <2>3, PtyAnswered
  <2>4. ASSUME NEW t \in Terminal, DecoderStep(t) PROVE IInv'
    BY <2>4, Decoding
  <2>5. ASSUME NEW t \in Terminal, RenderStep(t) PROVE IInv'
    BY <2>5, SessionBegins, SessionBegun, SessionEnds, Frames DEF RenderStep
  <2>6. CASE UNCHANGED vars
    <3>1. UNCHANGED <<handler_app, input_rx, owner, task, presence, active_connections>>
      BY <2>6 DEF vars, handler, render, counts
    <3> QED  BY <3>1, QuietSteps
  <2> QED  BY <2>1, <2>2, <2>3, <2>4, <2>5, <2>6 DEF Next
<1>3. IInv => ConnectionsCounted
  BY DEF IInv
<1> QED  BY <1>1, <1>2, <1>3, PTL DEF Spec
-----------------------------------------------------------------------------
(***************************************************************************)
(* Keys in order.  What FlattenSeq and Keys do to an appended, removed or  *)
(* cut sequence is proved by induction: the library's theorem that a set   *)
(* of numbers has a least one (WFMin) takes a set, and so has the set of   *)
(* numbers or sequences the claim holds of.                                *)
(***************************************************************************)
\* Every set of numbers that is not empty has a least one.
LEMMA NatMin ==
    ASSUME NEW S \in SUBSET Nat, S # {}
    PROVE  \E m \in S : \A k \in S : m <= k
<1>1. PICK m \in S : \A k \in S : ~(<<k, m>> \in OpToRel(<, Nat))
  BY WFMin, NatLessThanWellFounded
<1>2. \A k \in S : ~(k < m)
  BY <1>1 DEF OpToRel
<1> QED  BY <1>2

\* Induction over a set of numbers.
LEMMA NatSetInduction ==
    ASSUME NEW S, 0 \in S, \A n \in Nat : n \in S => n + 1 \in S
    PROVE  Nat \subseteq S
<1> SUFFICES ASSUME Nat \ S # {} PROVE FALSE
  OBVIOUS
<1>1. PICK m \in Nat \ S : \A k \in Nat \ S : m <= k
  BY NatMin
<1>2. m # 0 /\ m - 1 \in Nat /\ m - 1 \notin Nat \ S
  BY <1>1
<1> QED  BY <1>1, <1>2

\* g is the running concatenation of the first n sequences of s.
Joins(g, s, n) ==
    g = [i \in 1..n |-> IF i = 1 THEN s[i] ELSE g[i-1] \o s[i]]

LEMMA JoinsAt ==
    ASSUME NEW g, NEW s, NEW n, Joins(g, s, n), NEW i \in 1..n
    PROVE  g[i] = IF i = 1 THEN s[i] ELSE g[i-1] \o s[i]
BY DEF Joins

\* The recursion of FlattenSeq has a solution, and it looks at no more of the
\* sequences than it joins.
LEMMA JoinExists ==
    ASSUME NEW s, NEW n \in Nat
    PROVE  \E g : Joins(g, s, n)
<1> DEFINE S == {m \in Nat : \E g : Joins(g, s, m)}
<1>1. 0 \in S
  <2>1. Joins([i \in 1..0 |-> s], s, 0)
    BY DEF Joins
  <2> QED  BY <2>1
<1>2. ASSUME NEW m \in Nat, m \in S PROVE m + 1 \in S
  <2>1. PICK g : Joins(g, s, m)
    BY <1>2
  <2> DEFINE h == [i \in 1..m + 1 |->
                      IF i = m + 1 THEN (IF i = 1 THEN s[i] ELSE g[i-1] \o s[i])
                      ELSE g[i]]
  <2>2. \A i \in 1..m : h[i] = g[i]
    OBVIOUS
  <2>3. \A i \in 1..m + 1 : h[i] = IF i = 1 THEN s[i] ELSE h[i-1] \o s[i]
    <3> TAKE i \in 1..m + 1
    <3>1. CASE i = m + 1
      BY <3>1, <2>2
    <3>2. CASE i \in 1..m
      <4>1. g[i] = IF i = 1 THEN s[i] ELSE g[i-1] \o s[i]
        BY <2>1, <3>2 DEF Joins
      <4>2. i # 1 => h[i-1] = g[i-1]
        BY <3>2, <2>2
      <4> QED  BY <4>1, <4>2, <3>2, <2>2
    <3> QED  BY <3>1, <3>2
  <2>4. Joins(h, s, m + 1)
    BY <2>3 DEF Joins
  <2> QED  BY <2>4
<1> QED  BY <1>1, <1>2, NatSetInduction

Agree(s, t, n) == \A i \in 1..n : s[i] = t[i]

LEMMA JoinsAgree ==
    ASSUME NEW s, NEW t, NEW m \in Nat, NEW n \in Nat, m <= n,
           Agree(s, t, m),
           NEW g, Joins(g, s, m), NEW h, Joins(h, t, n)
    PROVE  Agree(g, h, m)
<1> DEFINE S == {i \in Nat : i \in 1..m => g[i] = h[i]}
<1>1. 0 \in S
  OBVIOUS
<1>2. ASSUME NEW i \in Nat, i \in S PROVE i + 1 \in S
  <2> SUFFICES ASSUME i + 1 \in 1..m PROVE g[i+1] = h[i+1]
    OBVIOUS
  <2> DEFINE j == i + 1
  <2>0. j \in 1..m /\ j \in 1..n
    OBVIOUS
  <2>1. g[j] = IF j = 1 THEN s[j] ELSE g[j-1] \o s[j]
    BY <2>0, JoinsAt
  <2>2. h[j] = IF j = 1 THEN t[j] ELSE h[j-1] \o t[j]
    BY <2>0, JoinsAt
  <2>3. j # 1 => g[j-1] = h[j-1]
    BY <1>2
  <2>4. s[j] = t[j]
    BY <2>0 DEF Agree
  <2> QED  BY <2>1, <2>2, <2>3, <2>4
<1>3. Nat \subseteq S
  BY <1>1, <1>2, NatSetInduction
<1> QED  BY <1>3 DEF Agree

LEMMA FlattenIsJoin ==
    ASSUME NEW s, Len(s) \in Nat, Len(s) # 0
    PROVE  \E g : Joins(g, s, Len(s)) /\ FlattenSeq(s) = g[Len(s)]
<1>1. FlattenSeq(s) = (CHOOSE g : g = [i \in 1..Len(s) |-> IF i = 1 THEN s[i]
                                       ELSE g[i-1] \o s[i]])[Len(s)]
  BY DEF FlattenSeq
<1> DEFINE f == CHOOSE g : Joins(g, s, Len(s))
<1>2. FlattenSeq(s) = f[Len(s)]
  BY <1>1 DEF Joins
<1>3. Joins(f, s, Len(s))
  BY JoinExists
<1> QED  BY <1>2, <1>3

LEMMA FlattenEmpty == FlattenSeq(<< >>) = << >>
BY DEF FlattenSeq

LEMMA FlattenAppend ==
    ASSUME NEW S, NEW s \in Seq(Seq(S)), NEW x \in Seq(S)
    PROVE  FlattenSeq(Append(s, x)) = FlattenSeq(s) \o x
<1> DEFINE t == Append(s, x)
           n == Len(s)
           k == Len(t)
<1>1. /\ n \in Nat /\ k \in Nat /\ k = n + 1 /\ k # 0 /\ t[k] = x
      /\ k \in 1..k /\ n <= k /\ Agree(s, t, n)
  BY AppendProperties DEF Agree
<1>2. PICK h : Joins(h, t, k) /\ FlattenSeq(t) = h[k]
  BY <1>1, FlattenIsJoin
<1> HIDE DEF t, k
<1>3. h[k] = IF k = 1 THEN t[k] ELSE h[k-1] \o t[k]
  BY <1>1, <1>2, JoinsAt
<1>4. CASE n = 0
  <2>1. h[k] = x
    BY <1>1, <1>3, <1>4
  <2>2. s = << >>
    BY <1>4
  <2> QED  BY <1>2, <2>1, <2>2, FlattenEmpty DEF t
<1>5. CASE n # 0
  <2>1. PICK g : Joins(g, s, n) /\ FlattenSeq(s) = g[n]
    BY <1>1, <1>5, FlattenIsJoin
  <2> HIDE DEF n
  <2>2. g[n] = h[n]
    <3>1. Agree(g, h, n)
      BY <1>1, <1>2, <2>1, JoinsAgree
    <3> QED  BY <3>1, <1>1, <1>5 DEF Agree
  <2>3. h[k] = h[n] \o x
    <3>1. k # 1 /\ k - 1 = n
      BY <1>1, <1>5
    <3> QED  BY <1>1, <1>3, <3>1
  <2> QED  BY <1>2, <2>1, <2>2, <2>3 DEF t
<1> QED  BY <1>4, <1>5

\* Induction over a set of sequences, by their last element.
LEMMA SeqSetInduction ==
    ASSUME NEW S, NEW P, << >> \in P,
           \A s \in Seq(S) : \A x \in S : s \in P => Append(s, x) \in P
    PROVE  Seq(S) \subseteq P
<1> DEFINE N == {n \in Nat : \A s \in Seq(S) : Len(s) = n => s \in P}
<1>1. 0 \in N
  <2> SUFFICES ASSUME NEW s \in Seq(S), Len(s) = 0 PROVE s \in P
    OBVIOUS
  <2>1. s = << >>
    OBVIOUS
  <2> QED  BY <2>1
<1>2. ASSUME NEW n \in Nat, n \in N PROVE n + 1 \in N
  <2> SUFFICES ASSUME NEW s \in Seq(S), Len(s) = n + 1 PROVE s \in P
    OBVIOUS
  <2>1. s # << >>
    OBVIOUS
  <2>2. PICK t \in Seq(S), x \in S : s = Append(t, x)
    BY <2>1, SequenceEmptyOrAppend
  <2>3. Len(t) = n
    BY <2>2
  <2>4. t \in P
    BY <1>2, <2>3
  <2> QED  BY <2>2, <2>4
<1>3. Nat \subseteq N
  <2> HIDE DEF N
  <2> QED  BY <1>1, <1>2, NatSetInduction
<1>4. ASSUME NEW s \in Seq(S) PROVE s \in P
  <2>1. Len(s) \in N
    BY <1>3
  <2> QED  BY <2>1
<1> QED  BY <1>4

LEMMA FlattenType ==
    ASSUME NEW S, NEW s \in Seq(Seq(S))
    PROVE  FlattenSeq(s) \in Seq(S)
<1> DEFINE P == {t \in Seq(Seq(S)) : FlattenSeq(t) \in Seq(S)}
<1>1. << >> \in P
  <2>1. << >> \in Seq(Seq(S)) /\ << >> \in Seq(S)
    BY EmptySeq
  <2>2. FlattenSeq(<< >>) \in Seq(S)
    BY <2>1, FlattenEmpty
  <2> QED  BY <2>1, <2>2
<1>2. ASSUME NEW t \in Seq(Seq(S)), NEW x \in Seq(S), t \in P
      PROVE  Append(t, x) \in P
  <2>1. FlattenSeq(t) \o x \in Seq(S)
    BY <1>2, ConcatProperties
  <2>2. Append(t, x) \in Seq(Seq(S))
    BY AppendProperties
  <2>3. FlattenSeq(Append(t, x)) \in Seq(S)
    BY <2>1, FlattenAppend
  <2> QED  BY <2>2, <2>3
<1>3. Seq(Seq(S)) \subseteq P
  <2> HIDE DEF P
  <2> QED  BY <1>1, <1>2, SeqSetInduction
<1> QED  BY <1>3

LEMMA FlattenConcat ==
    ASSUME NEW S, NEW s \in Seq(Seq(S)), NEW u \in Seq(Seq(S))
    PROVE  FlattenSeq(s \o u) = FlattenSeq(s) \o FlattenSeq(u)
<1> DEFINE P == {t \in Seq(Seq(S)) : FlattenSeq(s \o t) = FlattenSeq(s) \o FlattenSeq(t)}
<1>1. << >> \in P
  <2>1. s \o << >> = s /\ FlattenSeq(s) \o << >> = FlattenSeq(s)
    BY FlattenType, ConcatEmptySeq
  <2>2. << >> \in Seq(Seq(S))
    BY EmptySeq
  <2>3. FlattenSeq(s \o << >>) = FlattenSeq(s) \o FlattenSeq(<< >>)
    BY <2>1, FlattenEmpty
  <2> QED  BY <2>2, <2>3
<1>2. ASSUME NEW t \in Seq(Seq(S)), NEW x \in Seq(S), t \in P
      PROVE  Append(t, x) \in P
  <2>1. s \o Append(t, x) = Append(s \o t, x) /\ s \o t \in Seq(Seq(S))
    OBVIOUS
  <2>2. FlattenSeq(s \o Append(t, x)) = FlattenSeq(s \o t) \o x
    BY <2>1, FlattenAppend
  <2>3. FlattenSeq(Append(t, x)) = FlattenSeq(t) \o x
    BY FlattenAppend
  <2>4. FlattenSeq(s) \in Seq(S) /\ FlattenSeq(t) \in Seq(S)
    BY FlattenType
  <2>5. (FlattenSeq(s) \o FlattenSeq(t)) \o x = FlattenSeq(s) \o (FlattenSeq(t) \o x)
    <3>1. \A a, b, c \in Seq(S) : (a \o b) \o c = a \o (b \o c)
      BY ConcatAssociative
    <3> HIDE DEF P
    <3> QED  BY <2>4, <3>1, Zenon
  <2>6. FlattenSeq(s \o Append(t, x)) = FlattenSeq(s) \o FlattenSeq(Append(t, x))
    BY <1>2, <2>2, <2>3, <2>5, Zenon
  <2>7. Append(t, x) \in Seq(Seq(S))
    BY AppendProperties
  <2> QED  BY <2>6, <2>7
<1>3. Seq(Seq(S)) \subseteq P
  <2> HIDE DEF P
  <2> QED  BY <1>1, <1>2, SeqSetInduction
<1> QED  BY <1>3
-----------------------------------------------------------------------------
(* Keys *)

Kept(events) == [i \in DOMAIN events |-> KeysOf(events[i])]

LEMMA KeyOrNothing ==
    ASSUME NEW e \in Event
    PROVE  KeysOf(e) \in Seq(Key)
<1>1. CASE e.kind = "wheel"
  BY <1>1, EmptySeq DEF KeysOf
<1>2. CASE e.kind # "wheel"
  <2>1. e \in Key
    BY <1>2 DEF Key
  <2> QED  BY <1>2, <2>1 DEF KeysOf
<1> QED  BY <1>1, <1>2

LEMMA KeptType ==
    ASSUME NEW events \in Seq(Event)
    PROVE  Kept(events) \in Seq(Seq(Key))
<1>1. /\ Len(events) \in Nat /\ DOMAIN events = 1..Len(events)
      /\ \A i \in 1..Len(events) : events[i] \in Event
  BY LenProperties, ElementOfSeq
<1>2. \A i \in 1..Len(events) : KeysOf(events[i]) \in Seq(Key)
  BY <1>1, KeyOrNothing
<1> QED  BY <1>1, <1>2 DEF Kept

LEMMA KeysType ==
    ASSUME NEW events \in Seq(Event)
    PROVE  Keys(events) \in Seq(Key)
<1>1. Keys(events) = FlattenSeq(Kept(events))
  BY DEF Keys, Kept
<1> QED  BY <1>1, KeptType, FlattenType

LEMMA KeysConcat ==
    ASSUME NEW s \in Seq(Event), NEW t \in Seq(Event)
    PROVE  Keys(s \o t) = Keys(s) \o Keys(t)
<1>1. Kept(s \o t) = Kept(s) \o Kept(t)
  <2>1. /\ Len(s) \in Nat /\ DOMAIN s = 1..Len(s)
        /\ Len(t) \in Nat /\ DOMAIN t = 1..Len(t)
        /\ s \o t \in Seq(Event) /\ Len(s \o t) = Len(s) + Len(t)
        /\ DOMAIN (s \o t) = 1..Len(s) + Len(t)
    BY LenProperties, ConcatProperties
  <2>2. /\ Kept(s) \in Seq(Seq(Key)) /\ Kept(t) \in Seq(Seq(Key))
        /\ Kept(s \o t) \in Seq(Seq(Key))
    BY <2>1, KeptType
  <2>3. Len(Kept(s)) = Len(s) /\ Len(Kept(t)) = Len(t)
        /\ Len(Kept(s \o t)) = Len(s) + Len(t)
    BY <2>1 DEF Kept
  <2>4. ASSUME NEW i \in 1..Len(s) + Len(t)
        PROVE  Kept(s \o t)[i] = (Kept(s) \o Kept(t))[i]
    <3>0. Kept(s \o t)[i] = KeysOf((s \o t)[i])
      BY <2>1 DEF Kept
    <3>1. CASE i <= Len(s)
      <4>1. i \in 1..Len(s) /\ (s \o t)[i] = s[i]
        BY <2>1, <3>1
      <4>2. (Kept(s) \o Kept(t))[i] = Kept(s)[i]
        BY <2>1, <2>2, <2>3, <3>1, ConcatProperties
      <4>3. Kept(s)[i] = KeysOf(s[i])
        BY <2>1, <4>1 DEF Kept
      <4> QED  BY <3>0, <4>1, <4>2, <4>3
    <3>2. CASE i > Len(s)
      <4> DEFINE j == i - Len(s)
      <4>1. j \in 1..Len(t) /\ (s \o t)[i] = t[j]
        BY <2>1, <3>2
      <4>2. (Kept(s) \o Kept(t))[i] = Kept(t)[j]
        BY <2>1, <2>2, <2>3, <3>2, ConcatProperties
      <4>3. Kept(t)[j] = KeysOf(t[j])
        BY <2>1, <4>1 DEF Kept
      <4> QED  BY <3>0, <4>1, <4>2, <4>3
    <3>3. i <= Len(s) \/ i > Len(s)
      BY <2>1
    <3> QED  BY <3>1, <3>2, <3>3
  <2>5. /\ Kept(s) \o Kept(t) \in Seq(Seq(Key))
        /\ Len(Kept(s) \o Kept(t)) = Len(s) + Len(t)
    BY <2>2, <2>3, ConcatProperties
  <2> QED  BY <2>2, <2>3, <2>4, <2>5, SeqEqual
<1>2. FlattenSeq(Kept(s) \o Kept(t)) = FlattenSeq(Kept(s)) \o FlattenSeq(Kept(t))
  BY KeptType, FlattenConcat
<1> QED  BY <1>1, <1>2 DEF Keys, Kept

LEMMA KeysOfOne ==
    ASSUME NEW e \in Event
    PROVE  Keys(<<e>>) = KeysOf(e)
<1>1. Kept(<<e>>) = Append(<< >>, KeysOf(e))
  BY DEF Kept
<1>2. FlattenSeq(Append(<< >>, KeysOf(e))) = FlattenSeq(<< >>) \o KeysOf(e)
  BY KeyOrNothing, EmptySeq, FlattenAppend
<1>3. << >> \o KeysOf(e) = KeysOf(e)
  BY KeyOrNothing, ConcatEmptySeq
<1> QED  BY <1>1, <1>2, <1>3, FlattenEmpty DEF Keys, Kept

LEMMA NoKeys == Keys(<< >>) = << >>
<1>1. Kept(<< >>) = << >>
  BY DEF Kept
<1> QED  BY <1>1, FlattenEmpty DEF Keys, Kept
-----------------------------------------------------------------------------
(* Types.  Every step keeps them, by itself.                               *)

LEMMA QueuesTyped ==
    ASSUME TypeOK, NEW t \in Terminal
    PROVE  /\ input_queue[t] \in Seq(Seq(Event)) /\ decoding[t] \in Seq(Event)
           /\ key_queue[t] \in Seq(Key) /\ Key \subseteq Event
           /\ typed[t] \in Seq(Key) /\ handled[t] \in Seq(Key)
BY DEF TypeOK, Key

LEMMA TypedType ==
    ASSUME TypeOK, NEW kinds \in Chunk
    PROVE  Typed(kinds) \in Seq(Event)
<1>1. /\ kinds \in Seq(EventKind) /\ chunks + 1 \in Nat
      /\ Len(kinds) \in Nat /\ DOMAIN kinds = 1..Len(kinds)
      /\ \A i \in 1..Len(kinds) : kinds[i] \in EventKind
  BY ChunksAreEvents, BoundsAreNumbers, LenProperties, ElementOfSeq DEF TypeOK
<1>2. \A i \in 1..Len(kinds) :
          [chunk |-> chunks + 1, at |-> i, kind |-> kinds[i]] \in Event
  BY <1>1 DEF Event
<1> QED  BY <1>1, <1>2 DEF Typed

LEMMA RequestsTyped ==
    ASSUME TypeOK, NEW c \in Conn,
           Login(c) \/ ChannelOpenSession(c) \/ ShellRequest(c)
               \/ ChannelEof(c) \/ HangUp(c)
               \/ \E t \in Terminal : PtyRequest(c, t)
    PROVE  TypeOK'
<1>1. CASE Login(c)
  BY <1>1 DEF Login, TypeOK, queues, render, counts, history
<1>2. CASE ChannelOpenSession(c)
  BY <1>2 DEF ChannelOpenSession, TypeOK, queues, render, counts, history
<1>3. CASE ShellRequest(c)
  <2>1. /\ decoder' \in [Terminal -> {"none", "run", "ended"}]
        /\ task' \in [Terminal -> Task]
    BY <1>3 DEF ShellRequest, TypeOK, Task
  <2>2. /\ channel' \subseteq Conn /\ input_rx' \subseteq Conn
        /\ terminal_active' \subseteq Conn
    BY <1>3 DEF ShellRequest, TypeOK
  <2>3. UNCHANGED <<conn, handler_app, input_tx, owner, input_queue, decoding, key_queue,
                    running, app_activated, counts, history>>
    BY <1>3 DEF ShellRequest
  <2> QED  BY <2>1, <2>2, <2>3 DEF TypeOK, Task, counts, history
<1>4. CASE ChannelEof(c)
  BY <1>4 DEF ChannelEof, TypeOK, queues, counts, history
<1>5. CASE HangUp(c)
  BY <1>5 DEF HangUp, TypeOK, queues, render, counts, history
<1>6. ASSUME NEW t \in Terminal, PtyRequest(c, t) PROVE TypeOK'
  BY <1>6 DEF PtyRequest, TypeOK, queues, counts, history
<1> QED  BY <1>1, <1>2, <1>3, <1>4, <1>5, <1>6

LEMMA DataTyped ==
    ASSUME TypeOK, NEW c \in Conn, NEW kinds \in Chunk, Data(c, kinds)
    PROVE  TypeOK'
<1> DEFINE t == input_tx[c]
           events == Typed(kinds)
<1>1. t \in Terminal /\ chunks' \in 0..MaxChunks
  BY BoundsAreNumbers DEF Data, TypeOK
<1>2. events \in Seq(Event) /\ Keys(events) \in Seq(Key)
  BY TypedType, KeysType
<1> HIDE DEF events
<1>3. UNCHANGED <<handler, decoding, decoder, key_queue, render, counts, handled>>
  BY DEF Data
<1>4. CASE DropInput(t)
  BY <1>1, <1>3, <1>4 DEF DropInput, TypeOK, handler, render, counts
<1>5. CASE Enqueue(t, events)
  <2>1. /\ input_queue' = [input_queue EXCEPT ![t] = Append(@, events)]
        /\ typed' = [typed EXCEPT ![t] = @ \o Keys(events)]
        /\ Len(input_queue[t]) < InputQueueCap
    BY <1>5 DEF Enqueue
  <2>2. /\ Append(input_queue[t], events) \in Seq(Seq(Event))
        /\ Len(Append(input_queue[t], events)) <= InputQueueCap
        /\ typed[t] \o Keys(events) \in Seq(Key)
    BY <1>1, <1>2, <2>1, QueuesTyped, CapsPositive
  <2>3. /\ input_queue' \in [Terminal -> Seq(Seq(Event))]
        /\ typed' \in [Terminal -> Seq(Key)]
        /\ \A u \in Terminal : Len(input_queue'[u]) <= InputQueueCap
    BY <1>1, <2>1, <2>2 DEF TypeOK
  <2> QED  BY <1>1, <1>3, <2>3 DEF TypeOK, handler, render, counts
<1> QED  BY <1>4, <1>5 DEF Data, events

LEMMA DecodingTyped ==
    ASSUME TypeOK, NEW t \in Terminal, DecoderStep(t)
    PROVE  TypeOK'
<1>1. CASE TakeInput(t)
  <2>1. UNCHANGED <<handler, key_queue, render, counts, history>>
    BY <1>1 DEF TakeInput
  <2>2. CASE input_queue[t] = << >>
    BY <1>1, <2>1, <2>2 DEF TakeInput, DecoderEnds, TypeOK, handler, render,
                            counts, history
  <2>3. CASE input_queue[t] # << >>
    <3>1. /\ Head(input_queue[t]) \in Seq(Event)
          /\ Tail(input_queue[t]) \in Seq(Seq(Event))
          /\ Len(Tail(input_queue[t])) <= InputQueueCap
      BY <2>3, QueuesTyped, CapsPositive DEF TypeOK
    <3>2. /\ decoding' = [decoding EXCEPT ![t] = Head(input_queue[t])]
          /\ input_queue' = [input_queue EXCEPT ![t] = Tail(@)]
          /\ UNCHANGED decoder
      BY <1>1, <2>3 DEF TakeInput
    <3> QED  BY <2>1, <3>1, <3>2 DEF TypeOK, handler, render, counts, history
  <2> QED  BY <2>2, <2>3
<1>2. CASE Decode(t)
  <2>1. UNCHANGED <<handler, input_queue, render, counts, history>>
    BY <1>2 DEF Decode
  <2>2. CASE KeysClosed(t)
    BY <1>2, <2>1, <2>2 DEF Decode, DecoderEnds, TypeOK, handler, render,
                            counts, history
  <2>3. CASE ~KeysClosed(t)
    <3>1. Head(decoding[t]) \in Event /\ Tail(decoding[t]) \in Seq(Event)
      BY <1>2, QueuesTyped DEF Decode
    <3>2. /\ decoding' = [decoding EXCEPT ![t] = Tail(@)]
          /\ UNCHANGED decoder
      BY <1>2, <2>3 DEF Decode
    <3>3. key_queue' \in [Terminal -> Seq(Key)]
          /\ \A u \in Terminal : Len(key_queue'[u]) <= KeyQueueCap
      <4>1. CASE Head(decoding[t]).kind = "wheel"
        BY <1>2, <2>3, <4>1 DEF Decode, TypeOK
      <4>2. CASE Head(decoding[t]).kind # "wheel"
        <5>1. /\ Len(key_queue[t]) < KeyQueueCap
              /\ key_queue' = [key_queue EXCEPT
                                   ![t] = Append(@, Head(decoding[t]))]
          BY <1>2, <2>3, <4>2 DEF Decode
        <5>2. /\ Append(key_queue[t], Head(decoding[t])) \in Seq(Key)
              /\ Len(Append(key_queue[t], Head(decoding[t]))) <= KeyQueueCap
          <6>1. Head(decoding[t]) \in Key /\ key_queue[t] \in Seq(Key)
            BY <3>1, <4>2, QueuesTyped DEF Key
          <6>2. KeyQueueCap \in Nat
            BY CapsPositive
          <6> QED  BY <5>1, <6>1, <6>2
        <5> QED  BY <5>1, <5>2 DEF TypeOK
      <4> QED  BY <4>1, <4>2
    <3> QED  BY <2>1, <3>1, <3>2, <3>3 DEF TypeOK, handler, render, counts,
                                           history
  <2> QED  BY <2>2, <2>3
<1> QED  BY <1>1, <1>2 DEF DecoderStep

LEMMA FrameTyped ==
    ASSUME TypeOK, NEW t \in Terminal, Frame(t)
    PROVE  TypeOK'
<1>1. PICK n \in 0..Len(key_queue[t]) :
          /\ handled' = [handled EXCEPT ![t] = @ \o SubSeq(key_queue[t], 1, n)]
          /\ key_queue' = [key_queue EXCEPT ![t] = SubSeq(@, n + 1, Len(@))]
          /\ running' = IF n > 0 /\ Stops(t, n) THEN running \ {t} ELSE running
  BY DEF Frame
<1>2. /\ SubSeq(key_queue[t], 1, n) \in Seq(Key)
      /\ SubSeq(key_queue[t], n + 1, Len(key_queue[t])) \in Seq(Key)
      /\ Len(SubSeq(key_queue[t], n + 1, Len(key_queue[t]))) <= KeyQueueCap
  BY QueuesTyped, CapsPositive DEF TypeOK
<1>3. /\ handled' \in [Terminal -> Seq(Key)] /\ key_queue' \in [Terminal -> Seq(Key)]
      /\ running' \subseteq Terminal
      /\ \A u \in Terminal : Len(key_queue'[u]) <= KeyQueueCap
  BY <1>1, <1>2, QueuesTyped DEF TypeOK
<1>4. task' \in [Terminal -> Task]
  BY DEF Frame, Goto, TypeOK, Task
<1> QED  BY <1>3, <1>4 DEF Frame, TypeOK, Task, handler, counts

LEMMA SessionsTyped ==
    ASSUME TypeOK, NEW t \in Terminal, CountSession(t) \/ RemoveSession(t)
    PROVE  active_connections' \in [Account -> Nat]
<1>1. active_connections \in [Account -> Nat]
  BY DEF TypeOK
<1> DEFINE f == active_connections
           x == Owned(t)
           less == IF f[x] > 0 THEN f[x] - 1 ELSE f[x]
<1>2. f' = [f EXCEPT ![x] = f[x] + 1] \/ f' = [f EXCEPT ![x] = less]
  BY DEF CountSession, RemoveSession
<1>3. x \in Account => f[x] + 1 \in Nat /\ less \in Nat
  BY <1>1
<1>4. CASE x \in Account
  BY <1>1, <1>2, <1>3, <1>4
<1>5. CASE x \notin Account
  <2>1. f' = f
    BY <1>1, <1>2, <1>5
  <2> QED  BY <1>1, <2>1
<1> QED  BY <1>4, <1>5

LEMMA RenderTyped ==
    ASSUME TypeOK, NEW t \in Terminal, RenderStep(t)
    PROVE  TypeOK'
<1>1. CASE BeginSession(t)
  BY <1>1, SessionsTyped DEF BeginSession, Goto, TypeOK, handler, queues,
     history
<1>2. CASE BeginAnswers(t)
  BY <1>2, SessionsTyped DEF BeginAnswers, Goto, TypeOK, handler, queues,
     history
<1>3. CASE Frame(t)
  BY <1>3, FrameTyped
<1>4. CASE DrawFrame(t)
  BY <1>4 DEF DrawFrame, Goto, TypeOK, handler, queues, counts, history
<1>5. CASE Close(t)
  BY <1>5, SessionsTyped DEF Close, Goto, TypeOK, handler, queues, history
<1>6. CASE RecordAnswers(t)
  BY <1>6 DEF RecordAnswers, Goto, TypeOK, handler, queues, render, counts,
     history
<1> QED  BY <1>1, <1>2, <1>3, <1>4, <1>5, <1>6 DEF RenderStep

\* The variables keep their types and no queue outgrows its capacity, for any
\* capacities, chunks and number of terminals (ssh/events.rs, render_loop.rs).
THEOREM TypeCorrect == Spec => []TypeOK
<1>1. Init => TypeOK
  BY BoundsAreNumbers, CapsPositive, EmptySeq DEF Init, TypeOK
<1>2. TypeOK /\ [Next]_vars => TypeOK'
  <2> SUFFICES ASSUME TypeOK, [Next]_vars PROVE TypeOK'
    OBVIOUS
  <2>1. CASE UNCHANGED vars
    BY <2>1 DEF vars, handler, queues, render, counts, history, TypeOK
  <2> QED  BY <2>1, RequestsTyped, DataTyped, DecodingTyped, RenderTyped
              DEF Next
<1> QED  BY <1>1, <1>2, PTL DEF Spec
-----------------------------------------------------------------------------
(* What is on its way to a terminal's App is what was typed less what was  *)
(* handled.  Each step moves the boundary between two neighbours of        *)
(* OnItsWay, or appends to both sides.                                     *)

OnItsWay(t) ==
    handled[t] \o key_queue[t] \o Keys(decoding[t])
        \o Keys(FlattenSeq(input_queue[t]))

LEMMA Assoc ==
    ASSUME NEW S, NEW a \in Seq(S), NEW b \in Seq(S), NEW c \in Seq(S)
    PROVE  (a \o b) \o c = a \o (b \o c) /\ a \o b \in Seq(S)
BY ConcatAssociative, ConcatProperties

LEMMA OthersKept ==
    ASSUME KeysInOrder, NEW t \in Terminal,
           \A u \in Terminal \ {t} :
               /\ typed'[u] = typed[u] /\ handled'[u] = handled[u]
               /\ key_queue'[u] = key_queue[u] /\ decoding'[u] = decoding[u]
               /\ input_queue'[u] = input_queue[u],
           typed'[t] = OnItsWay(t)'
    PROVE  KeysInOrder'
<1> SUFFICES ASSUME NEW u \in Terminal PROVE typed'[u] = OnItsWay(u)'
  BY DEF KeysInOrder, OnItsWay
<1>1. CASE u = t
  BY <1>1
<1>2. CASE u # t
  BY <1>2 DEF KeysInOrder, OnItsWay
<1> QED  BY <1>1, <1>2

LEMMA OrderOfQuiet ==
    ASSUME KeysInOrder,
           UNCHANGED <<typed, handled, key_queue, decoding, input_queue>>
    PROVE  KeysInOrder'
BY DEF KeysInOrder

LEMMA OrderOfData ==
    ASSUME TypeOK, KeysInOrder, NEW c \in Conn, NEW kinds \in Chunk, Data(c, kinds)
    PROVE  KeysInOrder'
<1> DEFINE events == Typed(kinds)
<1>0. PICK t \in Terminal : t = input_tx[c]
  BY DEF Data, TypeOK
<1>1. events \in Seq(Event)
  BY TypedType
<1> HIDE DEF events
<1>2. UNCHANGED <<decoding, key_queue, handled>>
  BY DEF Data
<1>3. CASE DropInput(t)
  BY <1>2, <1>3, OrderOfQuiet DEF DropInput
<1>4. CASE Enqueue(t, events)
  <2> DEFINE a == handled[t] \o key_queue[t] \o Keys(decoding[t])
             q == FlattenSeq(input_queue[t])
  <2>1. /\ input_queue' = [input_queue EXCEPT ![t] = Append(@, events)]
        /\ typed' = [typed EXCEPT ![t] = @ \o Keys(events)]
        /\ input_queue \in [Terminal -> Seq(Seq(Event))]
        /\ typed \in [Terminal -> Seq(Key)]
    BY <1>4 DEF Enqueue, TypeOK
  <2>2. q \in Seq(Event) /\ Keys(q) \in Seq(Key) /\ Keys(events) \in Seq(Key)
    BY <1>1, QueuesTyped, FlattenType, KeysType
  <2>3. a \in Seq(Key)
    BY <1>1, QueuesTyped, KeysType, ConcatProperties
  <2>4. FlattenSeq(Append(input_queue[t], events)) = q \o events
    BY <1>1, QueuesTyped, FlattenAppend
  <2>5. Keys(q \o events) = Keys(q) \o Keys(events)
    BY <1>1, <2>2, KeysConcat
  <2>6. OnItsWay(t)' = a \o (Keys(q) \o Keys(events))
    BY <1>1, <1>2, <2>1, <2>4, <2>5 DEF OnItsWay
  <2>7. typed'[t] = (a \o Keys(q)) \o Keys(events)
    BY <1>1, <2>1 DEF KeysInOrder
  <2> HIDE DEF a, q
  <2>8. (a \o Keys(q)) \o Keys(events) = a \o (Keys(q) \o Keys(events))
    BY <2>2, <2>3, Assoc
  <2>9. typed'[t] = OnItsWay(t)'
    BY <2>6, <2>7, <2>8
  <2> QED  BY <1>1, <1>2, <2>1, <2>9, OthersKept
<1> QED  BY <1>0, <1>3, <1>4 DEF Data, events

LEMMA OrderOfInput ==
    ASSUME TypeOK, KeysInOrder, NEW t \in Terminal, TakeInput(t)
    PROVE  KeysInOrder'
<1>1. UNCHANGED <<key_queue, typed, handled>> /\ decoding[t] = << >>
  BY DEF TakeInput, history
<1>2. CASE input_queue[t] = << >>
  BY <1>1, <1>2, OrderOfQuiet DEF TakeInput
<1>3. CASE input_queue[t] # << >>
  <2> DEFINE a == handled[t] \o key_queue[t]
             h == Head(input_queue[t])
             r == Tail(input_queue[t])
             q == FlattenSeq(r)
  <2>1. /\ decoding' = [decoding EXCEPT ![t] = h]
        /\ input_queue' = [input_queue EXCEPT ![t] = r]
        /\ input_queue \in [Terminal -> Seq(Seq(Event))]
        /\ decoding \in [Terminal -> Seq(Event)]
    BY <1>3 DEF TakeInput, TypeOK
  <2>2. h \in Seq(Event) /\ r \in Seq(Seq(Event)) /\ input_queue[t] = <<h>> \o r
    BY <1>3, QueuesTyped
  <2>3. a \in Seq(Key)
    BY QueuesTyped, ConcatProperties
  <2> HIDE DEF h, r
  <2>4. q \in Seq(Event) /\ Keys(q) \in Seq(Key) /\ Keys(h) \in Seq(Key)
    BY <2>2, FlattenType, KeysType
  <2>5. FlattenSeq(input_queue[t]) = h \o q
    <3>1. << >> \in Seq(Seq(Event)) /\ <<h>> = Append(<< >>, h)
          /\ <<h>> \in Seq(Seq(Event))
      BY <2>2, EmptySeq
    <3>2. FlattenSeq(<<h>>) = << >> \o h
      BY <2>2, <3>1, FlattenAppend, FlattenEmpty
    <3>3. << >> \o h = h
      BY <2>2, ConcatEmptySeq
    <3> QED  BY <2>2, <3>1, <3>2, <3>3, FlattenConcat
  <2>6. Keys(h \o q) = Keys(h) \o Keys(q)
    BY <2>2, <2>4, KeysConcat
  <2>7. OnItsWay(t) = a \o (Keys(h) \o Keys(q))
    BY <1>1, <2>3, <2>5, <2>6, NoKeys, ConcatEmptySeq DEF OnItsWay
  <2>8. OnItsWay(t)' = (a \o Keys(h)) \o Keys(q)
    BY <1>1, <2>1 DEF OnItsWay
  <2> HIDE DEF a, q
  <2>9. (a \o Keys(h)) \o Keys(q) = a \o (Keys(h) \o Keys(q))
    BY <2>3, <2>4, Assoc
  <2>10. typed'[t] = OnItsWay(t)'
    BY <1>1, <2>7, <2>8, <2>9 DEF KeysInOrder, OnItsWay
  <2> QED  BY <1>1, <2>1, <2>10, OthersKept
<1> QED  BY <1>2, <1>3

LEMMA OrderOfDecode ==
    ASSUME TypeOK, KeysInOrder, NEW t \in Terminal, Decode(t)
    PROVE  KeysInOrder'
<1>1. UNCHANGED <<input_queue, typed, handled>> /\ decoding[t] # << >>
  BY DEF Decode, history
<1>2. CASE KeysClosed(t)
  BY <1>1, <1>2, OrderOfQuiet DEF Decode
<1>3. CASE ~KeysClosed(t)
  <2> DEFINE e == Head(decoding[t])
             r == Tail(decoding[t])
             h == handled[t]
             k == key_queue[t]
             q == Keys(FlattenSeq(input_queue[t]))
  <2>1. /\ decoding' = [decoding EXCEPT ![t] = r]
        /\ decoding \in [Terminal -> Seq(Event)]
        /\ key_queue \in [Terminal -> Seq(Key)]
    BY <1>3 DEF Decode, TypeOK
  <2>2. /\ e \in Event /\ r \in Seq(Event) /\ <<e>> \in Seq(Event)
        /\ decoding[t] = <<e>> \o r
    BY <1>1, QueuesTyped
  <2>3. h \in Seq(Key) /\ k \in Seq(Key) /\ q \in Seq(Key)
    BY QueuesTyped, FlattenType, KeysType
  <2> HIDE DEF e, r
  <2>4. KeysOf(e) \in Seq(Key) /\ Keys(r) \in Seq(Key)
    BY <2>2, KeyOrNothing, KeysType
  <2>5. Keys(decoding[t]) = KeysOf(e) \o Keys(r)
    BY <2>2, KeysConcat, KeysOfOne
  <2>6. /\ key_queue'[t] = k \o KeysOf(e)
        /\ \A u \in Terminal \ {t} : key_queue'[u] = key_queue[u]
    <3>1. CASE e.kind = "wheel"
      <4>1. UNCHANGED key_queue /\ KeysOf(e) = << >>
        BY <1>3, <3>1 DEF Decode, KeysOf, e
      <4> QED  BY <2>3, <4>1, ConcatEmptySeq
    <3>2. CASE e.kind # "wheel"
      <4>1. /\ key_queue' = [key_queue EXCEPT ![t] = Append(@, e)]
            /\ KeysOf(e) = <<e>>
        BY <1>3, <3>2 DEF Decode, KeysOf, e
      <4>2. Append(k, e) = k \o <<e>>
        BY <2>2, <2>3, <3>2, AppendIsConcat DEF Key
      <4> QED  BY <2>1, <4>1, <4>2
    <3> QED  BY <3>1, <3>2
  <2>7. OnItsWay(t) = ((h \o k) \o (KeysOf(e) \o Keys(r))) \o q
    BY <2>5 DEF OnItsWay
  <2>8. OnItsWay(t)' = ((h \o (k \o KeysOf(e))) \o Keys(r)) \o q
    BY <1>1, <2>1, <2>6 DEF OnItsWay
  <2> HIDE DEF h, k, q
  <2>9. (h \o k) \o (KeysOf(e) \o Keys(r)) = (h \o (k \o KeysOf(e))) \o Keys(r)
    <3>0. h \o k \in Seq(Key)
      BY <2>3, Assoc
    <3>1. (h \o k) \o (KeysOf(e) \o Keys(r)) = ((h \o k) \o KeysOf(e)) \o Keys(r)
      <4> DEFINE a == h \o k
                 b == KeysOf(e)
                 c == Keys(r)
      <4>1. a \in Seq(Key) /\ b \in Seq(Key) /\ c \in Seq(Key)
        BY <2>4, <3>0
      <4> HIDE DEF a, b, c
      <4>2. (a \o b) \o c = a \o (b \o c)
        BY <4>1, Assoc
      <4> QED  BY <4>2 DEF a, b, c
    <3>2. (h \o k) \o KeysOf(e) = h \o (k \o KeysOf(e))
      BY <2>3, <2>4, Assoc
    <3> QED  BY <3>1, <3>2
  <2>10. typed'[t] = OnItsWay(t)'
    BY <1>1, <2>7, <2>8, <2>9 DEF KeysInOrder, OnItsWay
  <2> QED  BY <1>1, <2>1, <2>6, <2>10, OthersKept
<1> QED  BY <1>2, <1>3

LEMMA OrderOfFrame ==
    ASSUME TypeOK, KeysInOrder, NEW t \in Terminal, Frame(t)
    PROVE  KeysInOrder'
<1>1. UNCHANGED <<input_queue, decoding, typed>>
  BY DEF Frame
<1> DEFINE h == handled[t]
           k == key_queue[t]
           d == Keys(decoding[t])
           q == Keys(FlattenSeq(input_queue[t]))
<1>2. PICK n \in 0..Len(k) :
          /\ handled' = [handled EXCEPT ![t] = @ \o SubSeq(k, 1, n)]
          /\ key_queue' = [key_queue EXCEPT ![t] = SubSeq(@, n + 1, Len(@))]
  BY DEF Frame
<1> DEFINE done == SubSeq(k, 1, n)
           left == SubSeq(k, n + 1, Len(k))
<1>3. /\ h \in Seq(Key) /\ k \in Seq(Key)
      /\ handled \in [Terminal -> Seq(Key)] /\ key_queue \in [Terminal -> Seq(Key)]
  BY QueuesTyped DEF TypeOK
<1>4. done \in Seq(Key) /\ left \in Seq(Key) /\ k = done \o left
  <2>1. k = SubSeq(k, 1, Len(k)) /\ Len(k) \in Nat
    BY <1>3, SubSeqFull
  <2>2. 1 \in 1..Len(k) + 1 /\ n \in 1 - 1..Len(k) /\ Len(k) \in n..Len(k)
    BY <2>1
  <2>3. done \o left = SubSeq(k, 1, Len(k))
    <3> HIDE DEF k
    <3> QED  BY <1>3, <2>2, ConcatAdjacentSubSeq
  <2>4. done \in Seq(Key) /\ left \in Seq(Key)
    BY <1>3, <2>1
  <2> QED  BY <2>1, <2>3, <2>4
<1>5. OnItsWay(t) = ((h \o (done \o left)) \o d) \o q
  BY <1>4 DEF OnItsWay
<1>6. OnItsWay(t)' = (((h \o done) \o left) \o d) \o q
  BY <1>1, <1>2, <1>3 DEF OnItsWay
<1>7. (h \o done) \o left = h \o (done \o left)
  <2>1. h \in Seq(Key) /\ done \in Seq(Key) /\ left \in Seq(Key)
    BY <1>3, <1>4
  <2> HIDE DEF h, k, done, left
  <2> QED  BY <2>1, Assoc
<1>8. typed'[t] = OnItsWay(t)'
  BY <1>1, <1>5, <1>6, <1>7 DEF KeysInOrder, OnItsWay
<1> QED  BY <1>1, <1>2, <1>3, <1>8, OthersKept

\* No key typed into a terminal is lost, repeated or overtaken on its way
\* through the two queues and the decoder, whatever their capacities and the
\* size of a chunk (ssh/events.rs, decode_input_to_queues, render_once).
THEOREM KeysStayInOrder == Spec => []KeysInOrder
<1>1. Init => KeysInOrder
  <2> SUFFICES ASSUME Init, NEW t \in Terminal PROVE typed[t] = OnItsWay(t)
    BY DEF KeysInOrder, OnItsWay
  <2>1. << >> \o << >> = << >>
    BY EmptySeq, ConcatEmptySeq
  <2> QED  BY <2>1, FlattenEmpty, NoKeys DEF Init, OnItsWay
<1>2. TypeOK /\ KeysInOrder /\ [Next]_vars => KeysInOrder'
  <2> SUFFICES ASSUME TypeOK, KeysInOrder, [Next]_vars PROVE KeysInOrder'
    OBVIOUS
  <2>1. ASSUME NEW c \in Conn,
               Login(c) \/ ChannelOpenSession(c) \/ ShellRequest(c)
                   \/ ChannelEof(c) \/ HangUp(c)
                   \/ \E t \in Terminal : PtyRequest(c, t)
        PROVE  KeysInOrder'
    BY <2>1, OrderOfQuiet DEF Login, ChannelOpenSession, ShellRequest,
       ChannelEof, HangUp, PtyRequest, queues, history
  <2>2. ASSUME NEW t \in Terminal, DecoderStep(t) PROVE KeysInOrder'
    BY <2>2, OrderOfInput, OrderOfDecode DEF DecoderStep
  <2>3. ASSUME NEW t \in Terminal,
               BeginSession(t) \/ BeginAnswers(t) \/ DrawFrame(t)
                   \/ Close(t) \/ RecordAnswers(t)
        PROVE  KeysInOrder'
    BY <2>3, OrderOfQuiet DEF BeginSession, BeginAnswers, DrawFrame, Close,
       RecordAnswers, queues, history
  <2>4. CASE UNCHANGED vars
    BY <2>4, OrderOfQuiet DEF vars, queues, history
  <2> QED  BY <2>1, <2>2, <2>3, <2>4, OrderOfData, OrderOfFrame
           DEF Next, RenderStep
<1> QED  BY <1>1, <1>2, TypeCorrect, PTL DEF Spec
-----------------------------------------------------------------------------
(* The App                                                                 *)

\* What an action asks to join or to open is a channel or a place.
ActionFits(q) ==
    /\ q.do = "JoinChannel" => q.to \in Channel
    /\ q.do = "OpenSourceTarget" => q.to \in Place
FittingAction == {q \in Action : ActionFits(q)}

\* A selected conversation excludes the rest of a selection.
Exclusive(a) == a.dm # None => a.channel = None /\ a.thread = None /\ a.threads = << >>

\* The rows of the page are those of the selection.
Loaded(a) ==
    /\ a.route \in Channel =>
          /\ a.channel \in {a.route, None}
          /\ a.thread # None =>
                /\ a.thread \in ToSet(a.threads)
                /\ Home[a.thread] = a.channel
                /\ a.comments = a.thread
          /\ a.thread = None => a.threads = << >>
    /\ a.dm # None => a.messages = a.dm
    /\ a.route = "dms" /\ a.dm = None => a.messages = None

\* What an App is at every moment, and what handling it keeps: rows that are not
\* those of the selection are asked for again.
Sound(a) == a \in AppType /\ a.actions \in Seq(FittingAction) /\ Exclusive(a)
Current(a) == a.refresh \/ Loaded(a)
Handled(a, b) ==
    Sound(b) /\ (Current(a) => Current(b)) /\ b.activated = a.activated
AllHandled(a, S) == \A b \in S : Handled(a, b)

Mode == {"workspace", "palette", "help", "confirm_quit"}
Pane == {"rail", "list", "detail"}

LEMMA Itself == ASSUME NEW a, Sound(a) PROVE Handled(a, a)
BY DEF Handled

LEMMA Then ==
    ASSUME NEW a, NEW b, NEW c, Handled(a, b), Handled(b, c)
    PROVE  Handled(a, c)
BY DEF Handled

LEMMA ThenAll ==
    ASSUME NEW a, NEW b, NEW S, Handled(a, b), AllHandled(b, S)
    PROVE  AllHandled(a, S)
BY DEF Handled, AllHandled

LEMMA Both ==
    ASSUME NEW a, NEW S, NEW T, AllHandled(a, S), AllHandled(a, T)
    PROVE  AllHandled(a, S \cup T)
BY DEF AllHandled

LEMMA Only ==
    ASSUME NEW a, NEW b, Handled(a, b)
    PROVE  AllHandled(a, {b})
BY DEF AllHandled

\* Nothing of the selection changes.
Aside(a, b) ==
    /\ b.route = a.route /\ b.channel = a.channel /\ b.thread = a.thread
    /\ b.dm = a.dm /\ b.threads = a.threads /\ b.comments = a.comments
    /\ b.messages = a.messages /\ b.refresh = a.refresh
    /\ b.actions = a.actions /\ b.activated = a.activated

LEMMA AsideHandled ==
    ASSUME NEW a, Sound(a), NEW b \in AppType, Aside(a, b)
    PROVE  Handled(a, b)
BY DEF Sound, Exclusive, Current, Loaded, Handled, Aside

\* The selection changes and is asked for again.
LEMMA ChosenHandled ==
    ASSUME NEW a, Sound(a), NEW b \in AppType, Exclusive(b), b.refresh,
           b.actions = a.actions, b.activated = a.activated
    PROVE  Handled(a, b)
BY DEF Sound, Current, Handled

\* A page without a selection of its own opens.
LEMMA PageHandled ==
    ASSUME NEW a, Sound(a), NEW b \in AppType, b.route \in Page, b.dm = None,
           b.actions = a.actions, b.activated = a.activated
    PROVE  Handled(a, b)
<1>1. b.route \notin Channel /\ b.route # "dms"
  BY IdsAssumption DEF Page, ResultPage
<1> QED  BY <1>1 DEF Sound, Exclusive, Current, Loaded, Handled

LEMMA FieldTypes ==
    ASSUME NEW a, Sound(a)
    PROVE  /\ a \in AppType
           /\ a.activated \in BOOLEAN /\ a.running \in BOOLEAN
           /\ a.mode \in Mode
           /\ a.pane \in Pane /\ a.route \in Route /\ a.collapsed \in BOOLEAN
           /\ a.channel \in Channel \cup {None} /\ a.thread \in OptionalThread
           /\ a.dm \in OptionalDm /\ a.channels \in SUBSET Channel
           /\ a.threads \in Seq(Thread) /\ a.conversations \in SUBSET Dm
           /\ a.comments \in OptionalThread /\ a.messages \in OptionalDm
           /\ a.draft \in Draft /\ a.popup \in BOOLEAN
           /\ a.menu \in Place \cup {None} /\ a.confirm \in Place \cup {None}
           /\ a.modal \in BOOLEAN /\ a.actions \in Seq(Action)
           /\ a.refresh \in BOOLEAN
           /\ a.actions \in Seq(FittingAction) /\ Exclusive(a)
BY DEF Sound, AppType, Mode, Pane

\* The values the handlers write, with their types.
LEMMA Values ==
    /\ TRUE \in BOOLEAN /\ FALSE \in BOOLEAN
    /\ "workspace" \in Mode /\ "palette" \in Mode /\ "help" \in Mode
    /\ "confirm_quit" \in Mode
    /\ "rail" \in Pane /\ "list" \in Pane /\ "detail" \in Pane
    /\ None \in OptionalThread /\ None \in OptionalDm
    /\ None \in Channel \cup {None}
    /\ None \in Place \cup {None}
    /\ << >> \in Seq(Thread) /\ "" \in Draft /\ "text" \in Draft
    /\ "command" \in Draft
    /\ "dms" \in Route /\ Channel \subseteq Route /\ Page \subseteq Route
    /\ "account" \in Page
    /\ {"search", "label", "saved", "notifications"} \subseteq Page
    /\ ResultPage \subseteq Page
BY EmptySeq DEF Mode, Pane, OptionalThread, OptionalDm, Draft, Route, Page,
   ResultPage

LEMMA AppTypeIs ==
    AppType = [activated : BOOLEAN, running : BOOLEAN,
        mode : Mode, pane : Pane, route : Route, collapsed : BOOLEAN,
        channel : Channel \cup {None}, thread : OptionalThread, dm : OptionalDm,
        channels : SUBSET Channel, threads : Seq(Thread), conversations : SUBSET Dm,
        comments : OptionalThread, messages : OptionalDm, draft : Draft, popup : BOOLEAN,
        menu : Place \cup {None}, confirm : Place \cup {None}, modal : BOOLEAN,
        actions : Seq(Action), refresh : BOOLEAN]
BY DEF AppType, Mode, Pane
-----------------------------------------------------------------------------
(* Handlers that leave the selection alone                                 *)

LEMMA SetRunning ==
    ASSUME NEW a, Sound(a), NEW v \in BOOLEAN
    PROVE  Handled(a, [a EXCEPT !.running = v])
<1> DEFINE b == [a EXCEPT !.running = v]
<1>1. a \in AppType
  BY FieldTypes
<1>2. b \in AppType
  BY <1>1, Zenon DEF AppType
<1>3. Aside(a, b)
  BY <1>1, Zenon DEF AppType, Aside
<1> QED  BY <1>2, <1>3, AsideHandled

LEMMA SetMode ==
    ASSUME NEW a, Sound(a), NEW v \in Mode
    PROVE  Handled(a, [a EXCEPT !.mode = v])
<1> DEFINE b == [a EXCEPT !.mode = v]
<1>1. a \in AppType
  BY FieldTypes
<1>2. b \in AppType
  BY <1>1, Zenon DEF AppType, Mode
<1>3. Aside(a, b)
  BY <1>1, Zenon DEF AppType, Aside
<1> QED  BY <1>2, <1>3, AsideHandled

LEMMA SetPane ==
    ASSUME NEW a, Sound(a), NEW v \in Pane
    PROVE  Handled(a, [a EXCEPT !.pane = v])
<1> DEFINE b == [a EXCEPT !.pane = v]
<1>1. a \in AppType
  BY FieldTypes
<1>2. b \in AppType
  BY <1>1, Zenon DEF AppType, Pane
<1>3. Aside(a, b)
  BY <1>1, Zenon DEF AppType, Aside
<1> QED  BY <1>2, <1>3, AsideHandled

LEMMA SetCollapsed ==
    ASSUME NEW a, Sound(a), NEW v \in BOOLEAN
    PROVE  Handled(a, [a EXCEPT !.collapsed = v])
<1> DEFINE b == [a EXCEPT !.collapsed = v]
<1>1. a \in AppType
  BY FieldTypes
<1>2. b \in AppType
  BY <1>1, Zenon DEF AppType
<1>3. Aside(a, b)
  BY <1>1, Zenon DEF AppType, Aside
<1> QED  BY <1>2, <1>3, AsideHandled

LEMMA SetDraft ==
    ASSUME NEW a, Sound(a), NEW v \in Draft
    PROVE  Handled(a, [a EXCEPT !.draft = v])
<1> DEFINE b == [a EXCEPT !.draft = v]
<1>1. a \in AppType
  BY FieldTypes
<1>2. b \in AppType
  BY <1>1, Zenon DEF AppType
<1>3. Aside(a, b)
  BY <1>1, Zenon DEF AppType, Aside
<1> QED  BY <1>2, <1>3, AsideHandled

LEMMA SetPopup ==
    ASSUME NEW a, Sound(a), NEW v \in BOOLEAN
    PROVE  Handled(a, [a EXCEPT !.popup = v])
<1> DEFINE b == [a EXCEPT !.popup = v]
<1>1. a \in AppType
  BY FieldTypes
<1>2. b \in AppType
  BY <1>1, Zenon DEF AppType
<1>3. Aside(a, b)
  BY <1>1, Zenon DEF AppType, Aside
<1> QED  BY <1>2, <1>3, AsideHandled

LEMMA SetMenu ==
    ASSUME NEW a, Sound(a), NEW v \in Place \cup {None}
    PROVE  Handled(a, [a EXCEPT !.menu = v])
<1> DEFINE b == [a EXCEPT !.menu = v]
<1>1. a \in AppType
  BY FieldTypes
<1>2. b \in AppType
  BY <1>1, Zenon DEF AppType
<1>3. Aside(a, b)
  BY <1>1, Zenon DEF AppType, Aside
<1> QED  BY <1>2, <1>3, AsideHandled

LEMMA SetConfirm ==
    ASSUME NEW a, Sound(a), NEW v \in Place \cup {None}
    PROVE  Handled(a, [a EXCEPT !.confirm = v])
<1> DEFINE b == [a EXCEPT !.confirm = v]
<1>1. a \in AppType
  BY FieldTypes
<1>2. b \in AppType
  BY <1>1, Zenon DEF AppType
<1>3. Aside(a, b)
  BY <1>1, Zenon DEF AppType, Aside
<1> QED  BY <1>2, <1>3, AsideHandled

LEMMA SetModal ==
    ASSUME NEW a, Sound(a), NEW v \in BOOLEAN
    PROVE  Handled(a, [a EXCEPT !.modal = v])
<1> DEFINE b == [a EXCEPT !.modal = v]
<1>1. a \in AppType
  BY FieldTypes
<1>2. b \in AppType
  BY <1>1, Zenon DEF AppType
<1>3. Aside(a, b)
  BY <1>1, Zenon DEF AppType, Aside
<1> QED  BY <1>2, <1>3, AsideHandled

LEMMA Composing ==
    ASSUME NEW a, Sound(a), NEW d \in Draft
    PROVE  Handled(a, Compose(a, d))
<1> DEFINE b == Compose(a, d)
<1>1. a \in AppType
  BY FieldTypes
<1>2. b \in AppType
  BY <1>1, Values, Zenon DEF AppType, Mode, Compose
<1>3. Aside(a, b)
  BY <1>1, Zenon DEF AppType, Aside, Compose
<1> QED  BY <1>2, <1>3, AsideHandled

LEMMA Closing ==
    ASSUME NEW a, Sound(a)
    PROVE  Handled(a, CloseOverlays(a))
<1> DEFINE b == CloseOverlays(a)
<1>1. a \in AppType
  BY FieldTypes
<1>2. b \in AppType
  BY <1>1, Values, Zenon DEF AppType, CloseOverlays
<1>3. Aside(a, b)
  BY <1>1, Zenon DEF AppType, Aside, CloseOverlays
<1> QED  BY <1>2, <1>3, AsideHandled
-----------------------------------------------------------------------------
(* Selections                                                              *)

LEMMA ChannelSelected ==
    ASSUME NEW a, Sound(a), NEW c \in Channel
    PROVE  Handled(a, SelectChannel(a, c))
<1> DEFINE b == SelectChannel(a, c)
<1>1. a \in AppType
  BY FieldTypes
<1>2. c \in Route /\ c \in Channel \cup {None}
  BY Values
<1>3. b \in AppType
  BY <1>1, <1>2, Values, Zenon
     DEF AppType, Pane, SelectChannel, ClearConversationSource
<1>4. b.dm = None /\ b.refresh /\ b.actions = a.actions /\ b.activated = a.activated
  BY <1>1 DEF AppType, SelectChannel, ClearConversationSource
<1> QED  BY <1>3, <1>4, ChosenHandled DEF Exclusive

\* Queueing an action: Shown is a place, and the action a fitting one.
LEMMA ShownType ==
    ASSUME NEW a, Sound(a)
    PROVE  Shown(a) \in Place \cup {None}
BY FieldTypes DEF Shown, OptionalThread, OptionalDm, Place

Placeless == ActionName \ {"JoinChannel", "OpenSourceTarget"}

LEMMA Queued ==
    ASSUME NEW a, Sound(a), NEW name \in ActionName,
           NEW to \in Channel \cup Place \cup {None},
           NEW shown \in Place \cup {None},
           name = "JoinChannel" => to \in Channel,
           name = "OpenSourceTarget" => to \in Place
    PROVE  Handled(a, Queue(a, name, to, shown))
<1> DEFINE q == [do |-> name, to |-> to,
                 shown |-> IF name \in Addressed THEN shown ELSE None]
           b == Queue(a, name, to, shown)
<1>1. a \in AppType /\ a.actions \in Seq(Action) /\ a.actions \in Seq(FittingAction)
  BY FieldTypes
<1>2. q \in Action
  BY Values DEF Action
<1>3. q \in FittingAction
  BY <1>2 DEF FittingAction, ActionFits
<1>4. /\ Append(a.actions, q) \in Seq(Action)
      /\ Append(a.actions, q) \in Seq(FittingAction)
  BY <1>1, <1>2, <1>3, AppendProperties
<1>5. b = [a EXCEPT !.actions = Append(a.actions, q)]
  BY <1>1 DEF Queue
<1> HIDE DEF b, q
<1>6. b \in AppType
  BY <1>1, <1>4, <1>5, Zenon DEF AppType
<1>7. /\ b.actions = Append(a.actions, q)
      /\ b.route = a.route /\ b.channel = a.channel /\ b.thread = a.thread
      /\ b.dm = a.dm /\ b.threads = a.threads /\ b.comments = a.comments
      /\ b.messages = a.messages /\ b.refresh = a.refresh
      /\ b.activated = a.activated
  BY <1>1, <1>5, Zenon DEF AppType
<1>8. Handled(a, b)
  BY <1>4, <1>6, <1>7 DEF Handled, Sound, Exclusive, Current, Loaded
<1> QED  BY <1>8 DEF b

LEMMA Pushed ==
    ASSUME NEW a, Sound(a), NEW name \in Placeless
    PROVE  Handled(a, Push(a, name, None))
BY Queued, ShownType, Values DEF Push, Placeless

LEMMA PushedTo ==
    ASSUME NEW a, Sound(a)
    PROVE  /\ \A d \in Dm : Handled(a, Push(a, "OpenDm", d))
           /\ \A c \in Channel : Handled(a, Push(a, "JoinChannel", c))
           /\ \A p \in Place : Handled(a, Push(a, "OpenSourceTarget", p))
<1>1. {"OpenDm", "JoinChannel", "OpenSourceTarget"} \subseteq ActionName
  BY DEF ActionName
<1> QED  BY <1>1, Queued, ShownType DEF Push, Place

LEMMA PushedNext ==
    ASSUME NEW a, NEW b, Handled(a, b), NEW name \in Placeless
    PROVE  Handled(a, Push(b, name, None))
BY Pushed, Then DEF Handled

LEMMA ThreadSelected ==
    ASSUME NEW a, Sound(a), NEW c \in Channel, NEW t \in Thread
    PROVE  Handled(a, SelectThread(a, c, t))
<1> DEFINE b == [ClearConversationSource(a) EXCEPT
            !.channel = c, !.thread = t, !.route = c, !.pane = "detail",
            !.collapsed = FALSE, !.refresh = TRUE]
<1>1. a \in AppType
  BY FieldTypes
<1>2. c \in Route /\ c \in Channel \cup {None} /\ t \in OptionalThread
  BY Values DEF OptionalThread
<1>3. b \in AppType
  BY <1>1, <1>2, Values, Zenon DEF AppType, Pane, ClearConversationSource
<1>4. b.dm = None /\ b.refresh /\ b.actions = a.actions /\ b.activated = a.activated
  BY <1>1 DEF AppType, ClearConversationSource
<1>5. Handled(a, b)
  BY <1>3, <1>4, ChosenHandled DEF Exclusive
<1>6. "MarkThreadRead" \in Placeless
  BY DEF Placeless, ActionName
<1>7. SelectThread(a, c, t) = Push(b, "MarkThreadRead", None)
  BY DEF SelectThread
<1> QED  BY <1>5, <1>6, <1>7, PushedNext

LEMMA ConversationSelected ==
    ASSUME NEW a, Sound(a), NEW d \in Dm
    PROVE  Handled(a, SelectConversation(a, d))
<1> DEFINE b == [ClearChannelSource(a) EXCEPT
            !.dm = d, !.route = "dms", !.pane = "detail", !.refresh = TRUE]
<1>1. a \in AppType
  BY FieldTypes
<1>2. d \in OptionalDm
  BY DEF OptionalDm
<1>3. b \in AppType
  BY <1>1, <1>2, Values, Zenon DEF AppType, Pane, ClearChannelSource
<1>4. /\ b.channel = None /\ b.thread = None /\ b.threads = << >>
      /\ b.refresh /\ b.actions = a.actions /\ b.activated = a.activated
  BY <1>1 DEF AppType, ClearChannelSource
<1>5. Handled(a, b)
  BY <1>3, <1>4, ChosenHandled DEF Exclusive
<1>6. "MarkDmRead" \in Placeless
  BY DEF Placeless, ActionName
<1>7. SelectConversation(a, d) = Push(b, "MarkDmRead", None)
  BY DEF SelectConversation
<1> QED  BY <1>5, <1>6, <1>7, PushedNext

LEMMA ResultActivated ==
    ASSUME NEW a, Sound(a), NEW p \in Place
    PROVE  Handled(a, ActivateResult(a, p))
<1>1. p \in Dm \/ (p \in Thread /\ p \notin Dm /\ Home[p] \in Channel)
  BY HomeAssumption, IdsAssumption DEF Place
<1> QED  BY <1>1, ConversationSelected, ThreadSelected DEF ActivateResult

LEMMA Switched ==
    ASSUME NEW a, Sound(a)
    PROVE  /\ \A c \in Channel : Handled(a, SwitchChannel(a, c))
           /\ \A t \in Thread : Handled(a, SwitchThread(a, t))
           /\ \A d \in Dm : Handled(a, SwitchDm(a, d))
<1>0. a \in AppType
  BY FieldTypes
<1>1. ASSUME NEW c \in Channel PROVE Handled(a, SwitchChannel(a, c))
  <2> DEFINE b == SwitchChannel(a, c)
  <2>1. c \in Route /\ c \in Channel \cup {None}
    BY Values
  <2>2. b \in AppType
    BY <1>0, <2>1, Values, Zenon
       DEF AppType, Pane, SwitchChannel, ClearConversationSource
  <2>3. b.dm = None /\ b.refresh /\ b.actions = a.actions /\ b.activated = a.activated
    BY <1>0 DEF AppType, SwitchChannel, ClearConversationSource
  <2> QED  BY <2>2, <2>3, ChosenHandled DEF Exclusive
<1>2. ASSUME NEW t \in Thread PROVE Handled(a, SwitchThread(a, t))
  <2> DEFINE b == SwitchThread(a, t)
  <2>1. t \in OptionalThread
    BY DEF OptionalThread
  <2>2. b \in AppType
    BY <1>0, <2>1, Values, Zenon
       DEF AppType, Pane, SwitchThread, ClearConversationSource
  <2>3. b.dm = None /\ b.refresh /\ b.actions = a.actions /\ b.activated = a.activated
    BY <1>0 DEF AppType, SwitchThread, ClearConversationSource
  <2> QED  BY <2>2, <2>3, ChosenHandled DEF Exclusive
<1>3. ASSUME NEW d \in Dm PROVE Handled(a, SwitchDm(a, d))
  <2> DEFINE b == SwitchDm(a, d)
  <2>1. d \in OptionalDm
    BY DEF OptionalDm
  <2>2. b \in AppType
    BY <1>0, <2>1, Values, Zenon DEF AppType, Pane, SwitchDm, ClearChannelSource
  <2>3. /\ b.channel = None /\ b.thread = None /\ b.threads = << >>
        /\ b.refresh /\ b.actions = a.actions /\ b.activated = a.activated
    BY <1>0 DEF AppType, SwitchDm, ClearChannelSource
  <2> QED  BY <2>2, <2>3, ChosenHandled DEF Exclusive
<1> QED  BY <1>1, <1>2, <1>3

LEMMA SourceCleared ==
    ASSUME NEW a \in AppType
    PROVE  ClearActiveSource(a) \in AppType
<1> DEFINE b == ClearChannelSource(a)
<1>1. b \in AppType
  BY Values, Zenon DEF AppType, ClearChannelSource
<1>2. ClearActiveSource(a) = [b EXCEPT !.dm = None, !.messages = None]
  BY DEF ClearActiveSource, ClearConversationSource
<1> HIDE DEF b
<1> QED  BY <1>1, <1>2, Values, Zenon DEF AppType

LEMMA AccountOpened ==
    ASSUME NEW a, Sound(a)
    PROVE  /\ Handled(a, OpenAccountPage(a))
           /\ OpenAccountPage(a).refresh = a.refresh
           /\ OpenAccountPage(a).running = a.running
<1> DEFINE b == OpenAccountPage(a)
<1>1. a \in AppType
  BY FieldTypes
<1>2. "account" \in Route
  BY Values
<1>3. b \in AppType
  <2>1. ClearActiveSource(a) \in AppType
    BY <1>1, SourceCleared
  <2>2. b = [ClearActiveSource(a) EXCEPT !.route = "account", !.pane = "detail"]
    BY DEF OpenAccountPage
  <2> HIDE DEF b
  <2> QED  BY <1>2, <2>1, <2>2, Zenon DEF AppType, Pane
<1>4. /\ b.route = "account" /\ b.dm = None /\ b.refresh = a.refresh
      /\ b.running = a.running
      /\ b.actions = a.actions /\ b.activated = a.activated
  BY <1>1 DEF AppType, OpenAccountPage,
     ClearActiveSource, ClearChannelSource, ClearConversationSource
<1> QED  BY <1>3, <1>4, Values, PageHandled

LEMMA PageShown ==
    ASSUME NEW a, Sound(a), NEW page \in ResultPage
    PROVE  /\ Handled(a, ShowPage(a, page))
           /\ ShowPage(a, page).refresh = a.refresh
           /\ ShowPage(a, page).running = a.running
<1> DEFINE b == ShowPage(a, page)
<1>1. a \in AppType
  BY FieldTypes
<1>2. page \in Route /\ page \in Page
  BY Values
<1>3. b \in AppType
  <2>1. CASE page = "label"
    <3>1. b = [[a EXCEPT !.thread = None, !.dm = None] EXCEPT
                  !.route = page, !.pane = "detail"]
      BY <2>1 DEF ShowPage
    <3> QED  BY <1>1, <1>2, <3>1, Values, Zenon DEF AppType, Pane
  <2>2. CASE page # "label"
    <3>1. b = [ClearActiveSource(a) EXCEPT !.route = page, !.pane = "detail"]
      BY <2>2 DEF ShowPage
    <3>2. ClearActiveSource(a) \in AppType
      BY <1>1, SourceCleared
    <3> HIDE DEF b
    <3> QED  BY <1>2, <3>1, <3>2, Zenon DEF AppType, Pane
  <2> QED  BY <2>1, <2>2
<1>4. /\ b.route = page /\ b.dm = None /\ b.refresh = a.refresh
      /\ b.running = a.running
      /\ b.actions = a.actions /\ b.activated = a.activated
  BY <1>1 DEF AppType, ShowPage,
     ClearActiveSource, ClearChannelSource, ClearConversationSource
<1> QED  BY <1>2, <1>3, <1>4, PageHandled
-----------------------------------------------------------------------------
(* The composer and its completions                                        *)

LEMMA CompletedAll ==
    ASSUME NEW a, NEW b, Handled(a, b)
    PROVE  AllHandled(a, Completed(b))
<1>1. ASSUME NEW p \in BOOLEAN PROVE Handled(a, [b EXCEPT !.popup = p])
  BY SetPopup, Then DEF Handled
<1> QED  BY <1>1 DEF Completed, AllHandled

LEMMA ModeSet ==
    ASSUME NEW a, NEW b, Handled(a, b)
    PROVE  \A v \in Mode : Handled(a, [b EXCEPT !.mode = v])
BY SetMode, Then DEF Handled

LEMMA Composed ==
    ASSUME NEW a, NEW b, Handled(a, b), NEW d \in Draft
    PROVE  Handled(a, Compose(b, d))
BY Composing, Then DEF Handled

LEMMA Executed ==
    ASSUME NEW b, Sound(b), NEW channels \in SUBSET Channel,
           NEW threads \in SUBSET Thread, NEW conversations \in SUBSET Dm
    PROVE  AllHandled(b, RunExecutor(b, channels, threads, conversations))
<1> DEFINE a == [b EXCEPT !.mode = "workspace"]
           Names == {"MarkThreadRead", "NextUnread", "OpenAccount"}
<1>1. Handled(b, a) /\ Sound(a)
  BY SetMode, Values DEF Handled
<1>2. Names \subseteq Placeless
  BY DEF Placeless, ActionName
<1> HIDE DEF a
<1>3. AllHandled(b, {Push(a, name, None) : name \in Names})
  BY <1>1, <1>2, PushedNext DEF AllHandled
<1>4. AllHandled(b, Completed(Compose(a, "command")))
  BY <1>1, Composed, CompletedAll, Values
<1>5. AllHandled(b, {SwitchChannel(a, c) : c \in channels})
  BY <1>1, Switched, Then DEF AllHandled
<1>6. AllHandled(b, {SwitchDm(a, d) : d \in conversations})
  BY <1>1, Switched, Then DEF AllHandled
<1>7. AllHandled(b, {SwitchThread(a, t) : t \in threads})
  BY <1>1, Switched, Then DEF AllHandled
<1>8. AllHandled(b, {[a EXCEPT !.mode = m] : m \in {"help", "confirm_quit"}})
  <2>1. {"help", "confirm_quit"} \subseteq Mode
    BY DEF Mode
  <2>2. \A m \in Mode : Handled(b, [a EXCEPT !.mode = m])
    BY <1>1, ModeSet
  <2> QED  BY <2>1, <2>2 DEF AllHandled
<1>9. RunExecutor(b, channels, threads, conversations) =
        {Push(a, name, None) : name \in Names}
        \cup Completed(Compose(a, "command"))
        \cup {SwitchChannel(a, c) : c \in channels}
        \cup {SwitchDm(a, d) : d \in conversations}
        \cup {SwitchThread(a, t) : t \in threads}
        \cup {[a EXCEPT !.mode = m] : m \in {"help", "confirm_quit"}}
  BY DEF RunExecutor, a
<1> QED  BY <1>3, <1>4, <1>5, <1>6, <1>7, <1>8, <1>9 DEF AllHandled

LEMMA PaletteRun ==
    ASSUME NEW a, Sound(a)
    PROVE  AllHandled(a, RunPalette(a))
BY Executed DEF RunPalette

LEMMA MembersOfSequence ==
    ASSUME NEW S, NEW s \in Seq(S)
    PROVE  ToSet(s) \subseteq S
BY LenProperties, ElementOfSeq DEF ToSet

LEMMA CompletionAccepted ==
    ASSUME NEW a, Sound(a)
    PROVE  AllHandled(a, AcceptCompletion(a))
<1>1. Handled(a, Compose(a, ""))
  BY Composing, Values
<1>2. a.channels \in SUBSET Channel /\ ToSet(a.threads) \in SUBSET Thread
      /\ a.conversations \in SUBSET Dm
  BY FieldTypes, MembersOfSequence
<1>3. AllHandled(Compose(a, ""),
          RunExecutor(Compose(a, ""), a.channels, ToSet(a.threads), a.conversations))
  BY <1>1, <1>2, Executed DEF Handled
<1>4. AllHandled(a, Completed(a)) /\ Handled(a, [a EXCEPT !.popup = FALSE])
  BY Itself, CompletedAll, SetPopup, Values
<1> QED  BY <1>1, <1>3, <1>4, ThenAll DEF AcceptCompletion, AllHandled

LEMMA CommandsQueued ==
    ASSUME NEW a, Sound(a)
    PROVE  AllHandled(a, CommandActions(a))
<1> DEFINE Names == {"CreateThread", "DeleteThread", "DeleteComment",
        "DeleteDm", "React", "SetMessageSaved", "LeaveChannel", "Search", "LoadMore",
        "ListChannels", "MarkNotificationRead"}
<1>1. Names \subseteq Placeless
  BY DEF Placeless, ActionName
<1>2. \A name \in Names : Handled(a, Push(a, name, None))
  BY <1>1, Pushed
<1> QED  BY <1>2, PushedTo DEF CommandActions, AllHandled

LEMMA Submitted ==
    ASSUME NEW b, Sound(b)
    PROVE  AllHandled(b, SubmitComposer(b))
<1> DEFINE a == Compose(b, "")
<1>1. Handled(b, a) /\ Sound(a)
  BY Composing, Values DEF Handled
<1>2. Handled(b, b)
  BY Itself
<1>3. AllHandled(b, CommandActions(a))
  BY <1>1, CommandsQueued, ThenAll
<1>4. \A m \in Mode : Handled(b, [a EXCEPT !.mode = m])
  BY <1>1, ModeSet
<1>5. {"SendDm", "AddComment"} \subseteq Placeless
  BY DEF Placeless, ActionName
<1>6. Handled(b, Push(a, "SendDm", None)) /\ Handled(b, Push(a, "AddComment", None))
  BY <1>1, <1>5, PushedNext
<1> HIDE DEF a
<1> QED  BY <1>1, <1>2, <1>3, <1>4, <1>6, Values DEF SubmitComposer,
            AllHandled, a
-----------------------------------------------------------------------------
(* Navigation                                                              *)

\* The first thread of the list is selected only when it already was, or where
\* no page shows it yet.
LEMMA Previewed ==
    ASSUME NEW a, Sound(a), NEW p \in Pane, FirstThread(a) # None
    PROVE  Handled(a, [a EXCEPT !.thread = FirstThread(a), !.pane = p])
<1> DEFINE t == FirstThread(a)
           b == [a EXCEPT !.thread = t, !.pane = p]
<1>1. a \in AppType /\ a.threads \in Seq(Thread) /\ a.thread \in OptionalThread
      /\ Exclusive(a) /\ a.actions \in Seq(FittingAction)
  BY FieldTypes
<1>2. a.threads # << >> => Head(a.threads) \in Thread
  BY <1>1, HeadTailProperties
<1>3. t \in OptionalThread
  BY <1>1, <1>2 DEF FirstThread, OptionalThread
<1>4. a.dm = None /\ (a.thread = None => a.threads # << >>)
      /\ (a.thread # None => t = a.thread)
  BY <1>1 DEF FirstThread, Exclusive
<1> HIDE DEF t
<1>5. b \in AppType
  BY <1>1, <1>3, Zenon DEF AppType, Pane
<1>6. /\ b.thread = t
      /\ b.route = a.route /\ b.channel = a.channel
      /\ b.dm = a.dm /\ b.threads = a.threads /\ b.comments = a.comments
      /\ b.messages = a.messages /\ b.refresh = a.refresh
      /\ b.activated = a.activated
      /\ b.actions = a.actions
  BY <1>1, Zenon DEF AppType
<1> HIDE DEF b
<1>7. Sound(b)
  BY <1>1, <1>4, <1>5, <1>6 DEF Sound, Exclusive
<1>8. Loaded(a) => Loaded(b)
  BY <1>1, <1>4, <1>6, NoneAssumption DEF Loaded
<1>9. Handled(a, b)
  BY <1>6, <1>7, <1>8 DEF Handled, Current
<1> QED  BY <1>9 DEF b, t

LEMMA Entered ==
    ASSUME NEW a, Sound(a)
    PROVE  Handled(a, EnterThreads(a))
BY Previewed, Itself, Values DEF EnterThreads

LEMMA PaneSet ==
    ASSUME NEW a, Sound(a)
    PROVE  /\ Handled(a, [a EXCEPT !.pane = "rail"])
           /\ Handled(a, [a EXCEPT !.pane = "list"])
           /\ Handled(a, [a EXCEPT !.pane = "detail"])
BY SetPane, Values

LEMMA BackHandled ==
    ASSUME NEW a, Sound(a)
    PROVE  Handled(a, BackFromDetail(a))
BY PaneSet DEF BackFromDetail

LEMMA LeftHandled ==
    ASSUME NEW a, Sound(a)
    PROVE  Handled(a, NavigateLeft(a))
BY PaneSet, BackHandled, Itself, SetCollapsed, Values DEF NavigateLeft

LEMMA RightHandled ==
    ASSUME NEW a, Sound(a)
    PROVE  Handled(a, NavigateRight(a))
BY PaneSet, Entered, Itself, SetCollapsed, Values DEF NavigateRight

LEMMA Folded ==
    ASSUME NEW a, Sound(a), NEW v \in BOOLEAN, NEW p \in Pane
    PROVE  Handled(a, [a EXCEPT !.collapsed = v, !.pane = p])
<1> DEFINE b == [a EXCEPT !.collapsed = v, !.pane = p]
<1>1. a \in AppType
  BY FieldTypes
<1>2. b \in AppType
  BY <1>1, Zenon DEF AppType, Pane
<1>3. Aside(a, b)
  BY <1>1, Zenon DEF AppType, Aside
<1> QED  BY <1>2, <1>3, AsideHandled

LEMMA ThreadsToggled ==
    ASSUME NEW a, Sound(a)
    PROVE  Handled(a, ToggleThreads(a))
<1> DEFINE v == ~a.collapsed
           p == IF a.collapsed THEN a.pane ELSE "rail"
<1>1. a \in AppType /\ v \in BOOLEAN /\ p \in Pane
  BY FieldTypes, Values
<1>2. Handled(a, [a EXCEPT !.collapsed = v, !.pane = p]) /\ Handled(a, a)
  <2> HIDE DEF v, p
  <2> QED  BY <1>1, Folded, Itself
<1>3. ToggleThreads(a) =
        IF a.route \notin Channel THEN a ELSE [a EXCEPT !.collapsed = v, !.pane = p]
  BY <1>1 DEF ToggleThreads
<1> QED  BY <1>2, <1>3

LEMMA DetailToggled ==
    ASSUME NEW a, Sound(a)
    PROVE  Handled(a, ToggleDetail(a))
<1> DEFINE b == [a EXCEPT !.pane = "detail"]
           c == [a EXCEPT !.thread = FirstThread(a), !.pane = "detail"]
<1>1. Handled(a, b) /\ Handled(a, a) /\ Handled(a, BackFromDetail(a))
  BY PaneSet, Itself, BackHandled
<1>2. FirstThread(a) # None => Handled(a, c)
  BY Previewed, Values
<1>3. {"MarkDmRead", "MarkThreadRead"} \subseteq Placeless
  BY DEF Placeless, ActionName
<1>4. /\ Handled(a, Push(b, "MarkDmRead", None))
      /\ FirstThread(a) # None => Handled(a, Push(c, "MarkThreadRead", None))
  BY <1>1, <1>2, <1>3, PushedNext
<1>5. \/ ToggleDetail(a) \in {BackFromDetail(a), Push(b, "MarkDmRead", None), b, a}
      \/ FirstThread(a) # None /\ ToggleDetail(a) = Push(c, "MarkThreadRead", None)
  BY DEF ToggleDetail
<1> QED  BY <1>1, <1>2, <1>4, <1>5

LEMMA AccountActivated ==
    ASSUME NEW a, Sound(a)
    PROVE  AllHandled(a, ActivateAccountFocus(a))
<1>1. "ListChannels" \in Placeless
  BY DEF Placeless, ActionName
<1>2. Handled(a, a) /\ Handled(a, Push(a, "ListChannels", None))
  BY <1>1, Itself, Pushed
<1>3. AllHandled(a, Completed(Compose(a, "command")))
  BY Itself, Composed, CompletedAll, Values
<1> QED  BY <1>2, <1>3 DEF ActivateAccountFocus, AllHandled

LEMMA ResultsActivated ==
    ASSUME NEW a, NEW b, Handled(a, b)
    PROVE  AllHandled(a, {ActivateResult(b, p) : p \in Place})
BY ResultActivated, Then DEF AllHandled, Handled

LEMMA SelectionActivated ==
    ASSUME NEW a, Sound(a)
    PROVE  AllHandled(a, ActivateSelection(a))
<1> DEFINE b == [a EXCEPT !.pane = "detail"]
           results == {ActivateResult(a, p) : p \in Place}
           account == ActivateAccountFocus(a)
           composed == Compose(a, "")
           read == Push(b, "MarkThreadRead", None)
           unfolded == [a EXCEPT !.collapsed = FALSE]
           folded == ToggleThreads(a)
           entered == EnterThreads(a)
<1>1. "MarkThreadRead" \in Placeless
  BY DEF Placeless, ActionName
<1>2. Handled(a, a) /\ Handled(a, b) /\ AllHandled(a, results)
      /\ AllHandled(a, account) /\ Handled(a, composed) /\ Handled(a, unfolded)
      /\ Handled(a, folded) /\ Handled(a, entered)
  BY Itself, PaneSet, ResultsActivated, AccountActivated, Composing,
     SetCollapsed,
     ThreadsToggled, Entered, Values
<1>3. Handled(a, read)
  BY <1>1, <1>2, PushedNext
<1>4. ActivateSelection(a) \in
          {{a} \cup results, account, {composed}, {read}, {b}, {unfolded}, {folded}, {entered}}
  BY DEF ActivateSelection
<1> HIDE DEF b, results, account, composed, read, unfolded, folded, entered
<1> QED  BY <1>2, <1>3, <1>4 DEF AllHandled

LEMMA RowApplied ==
    ASSUME NEW a, Sound(a), NEW row \in WorkspaceRows(a)
    PROVE  Handled(a, ApplyRow(a, row))
<1>0. /\ a \in AppType /\ a.threads \in Seq(Thread)
      /\ a.channels \subseteq Channel
      /\ a.conversations \subseteq Dm /\ a.route \in Route
      /\ a.channel \in Channel \cup {None}
      /\ a.actions \in Seq(FittingAction) /\ Exclusive(a)
  BY FieldTypes
<1>1. CASE row \in Channel
  <2> DEFINE at == [ClearConversationSource(a) EXCEPT
                       !.channel = row, !.route = row, !.pane = "rail"]
             to == [at EXCEPT !.thread = None, !.threads = << >>, !.comments = None,
                              !.collapsed = FALSE, !.refresh = TRUE]
  <2>1. row \in Route /\ row \in Channel \cup {None}
    BY <1>1, Values
  <2>2. at \in AppType
    BY <1>0, <2>1, Values, Zenon DEF AppType, Pane, ClearConversationSource
  <2>3. /\ at.dm = None /\ at.messages = None /\ at.route = row
        /\ at.channel = row
        /\ at.thread = a.thread /\ at.threads = a.threads
        /\ at.comments = a.comments
        /\ at.refresh = a.refresh /\ at.actions = a.actions
        /\ at.activated = a.activated
    BY <1>0 DEF AppType, ClearConversationSource
  <2> HIDE DEF at
  <2>4. to \in AppType
    BY <2>2, Values, Zenon DEF AppType
  <2>5. to.dm = None /\ to.refresh /\ to.actions = a.actions /\ to.activated = a.activated
    BY <2>2, <2>3 DEF AppType
  <2>6. Handled(a, to)
    BY <2>4, <2>5, ChosenHandled DEF Exclusive
  <2>7. ASSUME a.channel = row, a.route \in Channel PROVE Handled(a, at)
    <3>1. Sound(at)
      BY <1>0, <2>2, <2>3 DEF Sound, Exclusive
    <3>2. ASSUME Loaded(a) PROVE Loaded(at)
      BY <1>1, <2>3, <2>7, <3>2, NoneAssumption, IdsAssumption DEF Loaded
    <3> QED  BY <2>3, <3>1, <3>2 DEF Handled, Current
  <2>8. ApplyRow(a, row) = IF a.channel # row \/ a.route \notin Channel THEN to ELSE at
    <3>1. /\ row \notin Thread /\ row \notin Dm
          /\ row # "account" /\ row # "label" /\ row # "saved"
          /\ row # "notifications"
      BY <1>1, IdsAssumption
    <3> QED  BY <1>1, <3>1, Zenon DEF ApplyRow, at
  <2> HIDE DEF to
  <2> QED  BY <1>0, <2>6, <2>7, <2>8
<1>2. CASE row \in Thread
  <2> DEFINE c == ClearConversationSource(a)
             r == IF a.channel # None THEN a.channel ELSE c.route
             b == [c EXCEPT !.thread = row, !.comments = None, !.pane = "list",
                            !.collapsed = FALSE, !.route = r, !.refresh = TRUE]
  <2>1. /\ c.route = a.route /\ c.dm = None
        /\ c.actions = a.actions /\ c.activated = a.activated
    BY <1>0 DEF AppType, ClearConversationSource
  <2>2. r \in Route /\ row \in OptionalThread
    BY <1>0, <1>2, <2>1, Values DEF OptionalThread
  <2>3. c \in AppType
    BY <1>0, Values, Zenon DEF AppType, ClearConversationSource
  <2>4. row \notin Channel /\ row \notin Dm
        /\ row # "account" /\ row # "label" /\ row # "saved"
        /\ row # "notifications"
    BY <1>2, IdsAssumption
  <2>5. ApplyRow(a, row) = b
    BY <1>2, <2>4, Zenon DEF ApplyRow
  <2> HIDE DEF c, r
  <2>6. b \in AppType
    BY <2>2, <2>3, Values, Zenon DEF AppType, Pane
  <2>7. b.dm = None /\ b.refresh /\ b.actions = a.actions /\ b.activated = a.activated
    BY <2>1, <2>3 DEF AppType
  <2> QED  BY <2>5, <2>6, <2>7, ChosenHandled DEF Exclusive
<1>3. CASE row \in Dm
  <2> DEFINE at == [ClearChannelSource(a) EXCEPT
                       !.dm = row, !.route = "dms", !.pane = "rail"]
             to == [at EXCEPT !.messages = None, !.refresh = TRUE]
  <2>1. row \in OptionalDm
    BY <1>3 DEF OptionalDm
  <2>2. at \in AppType
    BY <1>0, <2>1, Values, Zenon DEF AppType, Pane, ClearChannelSource
  <2>3. /\ at.dm = row /\ at.route = "dms" /\ at.messages = a.messages
        /\ at.channel = None /\ at.thread = None /\ at.threads = << >>
        /\ at.refresh = a.refresh /\ at.actions = a.actions
        /\ at.activated = a.activated
    BY <1>0 DEF AppType, ClearChannelSource
  <2> HIDE DEF at
  <2>4. to \in AppType
    BY <2>2, Values, Zenon DEF AppType
  <2>5. /\ to.channel = None /\ to.thread = None /\ to.threads = << >>
        /\ to.refresh /\ to.actions = a.actions /\ to.activated = a.activated
    BY <2>2, <2>3 DEF AppType
  <2>6. Handled(a, to)
    BY <2>4, <2>5, ChosenHandled DEF Exclusive
  <2>7. ASSUME a.dm = row PROVE Handled(a, at)
    <3>1. Sound(at)
      BY <1>0, <2>2, <2>3 DEF Sound, Exclusive
    <3>2. ASSUME Loaded(a) PROVE Loaded(at)
      BY <1>3, <2>3, <2>7, <3>2, NoneAssumption, IdsAssumption DEF Loaded
    <3> QED  BY <2>3, <3>1, <3>2 DEF Handled, Current
  <2>8. ApplyRow(a, row) = IF a.dm # row THEN to ELSE at
    <3>1. row \notin Channel /\ row \notin Thread
          /\ row # "account" /\ row # "label" /\ row # "saved"
          /\ row # "notifications"
      BY <1>3, IdsAssumption
    <3> QED  BY <1>3, <3>1, Zenon DEF ApplyRow, at
  <2> QED  BY <2>6, <2>7, <2>8
<1>4. CASE row \in {"notifications", "saved", "account", "label"}
  <2>1. row \notin Channel /\ row \notin Thread /\ row \notin Dm
    BY <1>4, IdsAssumption
  <2>2. {"OpenLabel", "ListSaved", "ListNotifications"} \subseteq Placeless
        /\ {"label", "saved", "notifications"} \subseteq ResultPage
    BY DEF Placeless, ActionName, ResultPage
  <2>3. /\ Handled(a, Push(ShowPage(a, "label"), "OpenLabel", None))
        /\ Handled(a, Push(ShowPage(a, "saved"), "ListSaved", None))
        /\ Handled(a, Push(ShowPage(a, "notifications"), "ListNotifications", None))
    BY <2>2, PageShown, PushedNext
  <2>4. Handled(a, OpenAccountPage(a))
    BY AccountOpened
  <2> QED  BY <1>4, <2>1, <2>3, <2>4 DEF ApplyRow
<1> QED
  <2>1. ToSet(a.threads) \subseteq Thread
    BY <1>0, MembersOfSequence
  <2>2. row \in Channel \/ row \in Thread \/ row \in Dm
        \/ row \in {"notifications", "saved", "account", "label"}
    BY <1>0, <2>1 DEF WorkspaceRows
  <2> QED  BY <1>1, <1>2, <1>3, <1>4, <2>2

LEMMA WorkspaceMoved ==
    ASSUME NEW a, Sound(a)
    PROVE  AllHandled(a, MoveWorkspace(a))
BY RowApplied, PaneSet DEF MoveWorkspace, AllHandled

LEMMA SelectionMoved ==
    ASSUME NEW a, Sound(a)
    PROVE  AllHandled(a, MoveSelection(a))
<1>1. "LoadMore" \in Placeless
  BY DEF Placeless, ActionName
<1>2. Handled(a, a) /\ Handled(a, Push(a, "LoadMore", None))
  BY <1>1, Itself, Pushed
<1> QED  BY <1>2, WorkspaceMoved DEF MoveSelection, AllHandled
-----------------------------------------------------------------------------
(* Keys and clicks                                                         *)

LEMMA DeletionConfirmed ==
    ASSUME NEW a, Sound(a), NEW p \in Place \cup {None}
    PROVE  Handled(a, ConfirmDelete(a, p))
<1>1. Handled(a, CloseOverlays(a))
  BY Closing
<1>2. {"DeleteDm", "DeleteComment"} \subseteq ActionName
  BY DEF ActionName
<1>3. ASSUME NEW name \in {"DeleteDm", "DeleteComment"}
      PROVE  Handled(CloseOverlays(a), Queue(CloseOverlays(a), name, None, p))
  BY <1>1, <1>2, Queued DEF Handled
<1> QED  BY <1>1, <1>3, Then DEF ConfirmDelete

LEMMA TypingHandled ==
    ASSUME NEW a, Sound(a)
    PROVE  AllHandled(a, Typing(a))
<1>1. ASSUME NEW d \in Draft
      PROVE  AllHandled(a, Completed([a EXCEPT !.draft = d]))
  BY SetDraft, CompletedAll
<1> QED  BY <1>1 DEF Typing, AllHandled

LEMMA ShortcutsHandled ==
    ASSUME NEW a, Sound(a)
    PROVE  AllHandled(a, Shortcuts(a))
<1> DEFINE moved == {NavigateLeft(a), NavigateRight(a), ToggleThreads(a),
                     Push(a, "NextUnread", None), Push(a, "MarkThreadRead", None),
                     Compose(a, "command")}
           modes == {[a EXCEPT !.mode = m] : m \in {"palette", "help", "confirm_quit"}}
           all == moved \cup modes \cup MoveSelection(a) \cup ActivateSelection(a)
<1>1. {"NextUnread", "MarkThreadRead"} \subseteq Placeless
      /\ {"palette", "help", "confirm_quit"} \subseteq Mode
  BY DEF Placeless, ActionName, Mode
<1>2. /\ Handled(a, Push(a, "NextUnread", None))
      /\ Handled(a, Push(a, "MarkThreadRead", None))
  BY <1>1, Pushed
<1>3. AllHandled(a, moved)
  BY <1>2, LeftHandled, RightHandled, ThreadsToggled, Composing, Values
     DEF AllHandled
<1>4. AllHandled(a, modes)
  <2>1. \A m \in Mode : Handled(a, [a EXCEPT !.mode = m])
    BY SetMode
  <2> QED  BY <1>1, <2>1 DEF AllHandled
<1>5. AllHandled(a, all)
  <2> HIDE DEF moved, modes
  <2> QED  BY <1>3, <1>4, SelectionMoved, SelectionActivated DEF AllHandled
<1>6. Shortcuts(a) = UNION {Completed(b) : b \in all}
  BY DEF Shortcuts
<1> HIDE DEF all
<1>7. \A b \in all : AllHandled(a, Completed(b))
  BY <1>5, CompletedAll DEF AllHandled
<1> QED  BY <1>6, <1>7 DEF AllHandled

LEMMA EnterHandled ==
    ASSUME NEW a, Sound(a)
    PROVE  AllHandled(a, EnterKey(a))
BY CompletionAccepted, Submitted DEF EnterKey, AllHandled

LEMMA TabHandled ==
    ASSUME NEW a, Sound(a)
    PROVE  AllHandled(a, TabKey(a))
BY CompletionAccepted, DetailToggled DEF TabKey, AllHandled

LEMMA EscapeHandled ==
    ASSUME NEW a, Sound(a)
    PROVE  AllHandled(a, EscapeKey(a))
<1>1. Handled(a, [a EXCEPT !.popup = FALSE]) /\ Handled(a, Compose(a, ""))
  BY SetPopup, Composing, Values
<1> QED  BY <1>1 DEF EscapeKey, AllHandled

LEMMA WorkspaceKeyHandled ==
    ASSUME NEW a, Sound(a)
    PROVE  AllHandled(a, WorkspaceKey(a))
<1>1. AllHandled(a, AccountKey(a))
  <2>1. Handled(a, a) /\ Handled(a, Compose(a, ""))
    BY Itself, Composing, Values
  <2> QED  BY <2>1, AccountActivated, TypingHandled DEF AccountKey, AllHandled
<1>2. Handled(a, a)
  BY Itself
<1> QED  BY <1>1, <1>2, ShortcutsHandled, TypingHandled, EnterHandled,
            TabHandled, EscapeHandled,
            SelectionMoved DEF WorkspaceKey, AllHandled

LEMMA OnboardingHandled ==
    ASSUME NEW a, Sound(a)
    PROVE  AllHandled(a, OnboardingKey(a))
<1>1. \A d \in Draft : Handled(a, [a EXCEPT !.draft = d])
  BY SetDraft
<1>2. Handled(a, Compose(a, "")) /\ {"", "text"} \subseteq Draft
  BY Composing, Values
<1>3. "CompleteOnboarding" \in Placeless
  BY DEF Placeless, ActionName
<1>4. Handled(a, Push(Compose(a, ""), "CompleteOnboarding", None))
  BY <1>2, <1>3, PushedNext
<1> QED  BY <1>1, <1>2, <1>4 DEF OnboardingKey, AllHandled

LEMMA ModeKeyHandled ==
    ASSUME NEW a, Sound(a)
    PROVE  AllHandled(a, ModeKey(a))
<1>1. /\ Handled(a, a) /\ Handled(a, [a EXCEPT !.mode = "workspace"])
      /\ Handled(a, [a EXCEPT !.running = FALSE])
  BY Itself, SetMode, SetRunning, Values
<1> QED  BY <1>1, WorkspaceKeyHandled, PaletteRun DEF ModeKey, AllHandled

LEMMA KeyHandled ==
    ASSUME NEW a, Sound(a)
    PROVE  AllHandled(a, HandleKey(a))
<1>1. /\ Handled(a, a) /\ Handled(a, CloseOverlays(a))
      /\ Handled(a, [a EXCEPT !.modal = FALSE])
      /\ Handled(a, [a EXCEPT !.running = FALSE])
      /\ Handled(a, ConfirmDelete(a, a.confirm))
  BY Itself, Closing, SetModal, SetRunning, DeletionConfirmed, FieldTypes,
     Values
<1> QED  BY <1>1, ModeKeyHandled, OnboardingHandled DEF HandleKey, AllHandled

\* What the last frame drew.
ScreenType == [place : Place \cup {None}, page : Page \cup {"none"},
    threads : SUBSET Thread, mode : Mode \cup {"onboarding"},
    menu : Place \cup {None}, confirm : Place \cup {None}]

LEMMA QueuedNext ==
    ASSUME NEW a, NEW b, Handled(a, b), NEW name \in Placeless,
           NEW p \in Place \cup {None}
    PROVE  Handled(a, Queue(b, name, None, p))
<1>1. Handled(b, Queue(b, name, None, p))
  BY Queued, Values DEF Handled, Placeless
<1> QED  BY <1>1, Then

LEMMA ModalClicked ==
    ASSUME NEW a, Sound(a)
    PROVE  AllHandled(a, ClickModal(a))
<1> DEFINE b == [a EXCEPT !.modal = FALSE]
<1>1. Handled(a, a) /\ Handled(a, b)
  BY Itself, SetModal, Values
<1> HIDE DEF b
<1>2. \A p \in Place : Handled(a, Push(b, "OpenSourceTarget", p))
  BY <1>1, PushedTo, Then DEF Handled
<1>3. ClickModal(a) = {a} \cup {Push(b, "OpenSourceTarget", p) : p \in Place}
  BY DEF ClickModal, b
<1> QED  BY <1>1, <1>2, <1>3 DEF AllHandled

LEMMA WorkspaceClicked ==
    ASSUME NEW a, Sound(a), screen \in ScreenType
    PROVE  AllHandled(a, ClickWorkspace(a))
<1>1. a.channels \subseteq Channel /\ a.conversations \subseteq Dm
      /\ a.channel \in Channel \cup {None}
  BY FieldTypes
<1>2. \A c \in a.channels : Handled(a, SelectChannel(a, c))
  BY <1>1, ChannelSelected
<1>3. \A d \in a.conversations : Handled(a, SelectConversation(a, d))
  BY <1>1, ConversationSelected
<1>4. ASSUME NEW t \in screen.threads, t \in ToSet(a.threads) \/ a.channel # None
      PROVE  Handled(a, SelectThread(a, IF t \in ToSet(a.threads) THEN Home[t] ELSE a.channel, t))
  <2>1. t \in Thread
    BY DEF ScreenType
  <2>2. (IF t \in ToSet(a.threads) THEN Home[t] ELSE a.channel) \in Channel
    BY <1>1, <1>4, <2>1, HomeAssumption
  <2> QED  BY <2>1, <2>2, ThreadSelected
<1> QED  BY <1>2, <1>3, <1>4, WorkspaceMoved, PushedTo DEF ClickWorkspace,
            AllHandled

LEMMA PageClicked ==
    ASSUME NEW a, Sound(a), screen \in ScreenType
    PROVE  AllHandled(a, ClickPage(a))
<1> DEFINE b == [a EXCEPT !.pane = "detail"]
<1>1. Handled(a, b) /\ Sound(b)
  BY PaneSet DEF Handled
<1>2. AllHandled(a, ClickResult(a))
  <2>1. AllHandled(a, {ActivateResult(b, p) : p \in Place})
    BY <1>1, ResultsActivated
  <2> QED  BY <2>1 DEF ClickResult, AllHandled
<1> HIDE DEF b
<1>3. AllHandled(a, Completed(a)) /\ AllHandled(a, ActivateAccountFocus(b))
  BY <1>1, Itself, CompletedAll, AccountActivated, ThenAll
<1>4. {"MarkNotificationRead", "React", "OpenLabel"} \subseteq Placeless
  BY DEF Placeless, ActionName
<1>5. screen.place \in Place \cup {None}
  BY DEF ScreenType
<1>6. /\ Handled(a, Push(b, "MarkNotificationRead", None))
      /\ Handled(a, Push(b, "OpenLabel", None))
      /\ Handled(a, Queue(b, "React", None, screen.place))
  BY <1>1, <1>4, <1>5, PushedNext, QueuedNext
<1>7. \A d \in Dm : Handled(a, Push(b, "OpenDm", d))
  BY <1>1, PushedTo, Then
<1>8. AllHandled(a, Completed(Compose(CloseOverlays(b), "command")))
  <2>1. Handled(a, CloseOverlays(b))
    BY <1>1, Closing, Then
  <2> QED  BY <2>1, Composed, CompletedAll, Values
<1>9. ClickPage(a) =
        {b} \cup ClickResult(a) \cup Completed(a)
        \cup (IF screen.page = "account" THEN ActivateAccountFocus(b) ELSE {})
        \cup (IF screen.page = "notifications" THEN {Push(b, "MarkNotificationRead", None)} ELSE {})
        \cup (IF screen.place = None THEN {}
              ELSE {Queue(b, "React", None, screen.place), Push(b, "OpenLabel", None)}
                   \cup {Push(b, "OpenDm", d) : d \in Dm}
                   \cup Completed(Compose(CloseOverlays(b), "command")))
  BY DEF ClickPage, b
<1> QED  BY <1>1, <1>2, <1>3, <1>6, <1>7, <1>8, <1>9 DEF AllHandled

LEMMA MenuClicked ==
    ASSUME NEW a, Sound(a), screen \in ScreenType
    PROVE  AllHandled(a, ClickMenu(a))
<1> DEFINE b == [a EXCEPT !.menu = None, !.confirm = screen.menu]
<1>1. Handled(a, CloseOverlays(a))
  BY Closing
<1>2. screen.menu \in Place \cup {None}
  BY DEF ScreenType
<1>3. Handled(a, b)
  <2>1. PICK p \in Place \cup {None} : p = screen.menu
    BY <1>2
  <2>2. Handled(a, [[a EXCEPT !.menu = None] EXCEPT !.confirm = p])
    <3>1. Handled(a, [a EXCEPT !.menu = None])
      BY SetMenu, Values
    <3> QED  BY <3>1, SetConfirm, Then DEF Handled
  <2>3. b = [[a EXCEPT !.menu = None] EXCEPT !.confirm = p]
    BY <2>1, Zenon
  <2> QED  BY <2>2, <2>3
<1>4. "SetMessageSaved" \in Placeless
  BY DEF Placeless, ActionName
<1>5. Handled(a, Queue(CloseOverlays(a), "SetMessageSaved", None, screen.menu))
  BY <1>1, <1>2, <1>4, QueuedNext
<1>6. AllHandled(a, Completed(Compose(CloseOverlays(a), "command")))
  BY <1>1, Composed, CompletedAll, Values
<1> HIDE DEF b
<1>7. ClickMenu(a) =
        {CloseOverlays(a), b,
         Queue(CloseOverlays(a), "SetMessageSaved", None, screen.menu)}
        \cup Completed(Compose(CloseOverlays(a), "command"))
  BY DEF ClickMenu, b
<1> QED  BY <1>1, <1>3, <1>5, <1>6, <1>7 DEF AllHandled

LEMMA OverlayClicked ==
    ASSUME NEW a, Sound(a)
    PROVE  AllHandled(a, ClickOverlay(a))
<1>1. /\ Handled(a, [a EXCEPT !.mode = "workspace"])
      /\ Handled(a, [a EXCEPT !.running = FALSE])
  BY SetMode, SetRunning, Values
<1> QED  BY <1>1, PaletteRun DEF ClickOverlay, AllHandled

LEMMA RightClicked ==
    ASSUME NEW a, Sound(a), screen \in ScreenType
    PROVE  AllHandled(a, RightClick(a))
<1> DEFINE b == [a EXCEPT !.confirm = None, !.menu = screen.place]
<1>1. Handled(a, CloseOverlays(a))
  BY Closing
<1>2. Handled(a, b)
  <2>1. PICK p \in Place \cup {None} : p = screen.place
    BY DEF ScreenType
  <2>2. Handled(a, [[a EXCEPT !.confirm = None] EXCEPT !.menu = p])
    <3>1. Handled(a, [a EXCEPT !.confirm = None])
      BY SetConfirm, Values
    <3> QED  BY <3>1, SetMenu, Then DEF Handled
  <2>3. b = [[a EXCEPT !.confirm = None] EXCEPT !.menu = p]
    BY <2>1, Zenon
  <2> QED  BY <2>2, <2>3
<1> HIDE DEF b
<1>3. RightClick(a) = {CloseOverlays(a)} \cup (IF screen.place # None THEN {b} ELSE {})
  BY DEF RightClick, b
<1> QED  BY <1>1, <1>2, <1>3 DEF AllHandled

LEMMA MouseHandled ==
    ASSUME NEW a, Sound(a), screen \in ScreenType
    PROVE  AllHandled(a, HandleMouse(a))
<1>1. Handled(a, a) /\ Handled(a, CloseOverlays(a))
  BY Itself, Closing
<1>2. Handled(a, ConfirmDelete(a, screen.confirm))
  BY DeletionConfirmed DEF ScreenType
<1>3. AllHandled(a, ClickBar(a))
  <2>1. Handled(a, [a EXCEPT !.mode = "help"])
    BY SetMode, Values
  <2> QED  BY <2>1, Submitted, TabHandled DEF ClickBar, AllHandled
<1> QED  BY <1>1, <1>2, <1>3, ModalClicked, RightClicked, MenuClicked,
            OverlayClicked,
            WorkspaceClicked, PageClicked DEF HandleMouse, AllHandled
-----------------------------------------------------------------------------
(* The snapshot                                                            *)

\* Among keeps the members of a sequence that are in a set, in their order.
\* (Proved by induction on the sequence.)
Wanted(x, S) == IF x \in S THEN <<x>> ELSE << >>

LEMMA AmongAppend ==
    ASSUME NEW T, NEW s \in Seq(T), NEW x \in T, NEW S
    PROVE  /\ Among(s, S) \in Seq(T)
           /\ Among(Append(s, x), S) = Among(s, S) \o Wanted(x, S)
<1> DEFINE one(y) == Wanted(y, S)
           parts(u) == [i \in DOMAIN u |-> one(u[i])]
<1>1. \A y \in T : one(y) \in Seq(T)
  BY EmptySeq DEF Wanted
<1> HIDE DEF one
<1>2. ASSUME NEW u \in Seq(T) PROVE parts(u) \in Seq(Seq(T))
  <2>1. Len(u) \in Nat /\ DOMAIN u = 1..Len(u) /\ \A i \in 1..Len(u) : u[i] \in T
    BY LenProperties, ElementOfSeq
  <2> QED  BY <1>1, <2>1
<1>3. parts(Append(s, x)) = Append(parts(s), one(x))
  <2>1. /\ Len(s) \in Nat /\ DOMAIN s = 1..Len(s)
        /\ Append(s, x) \in Seq(T)
        /\ Len(Append(s, x)) = Len(s) + 1
        /\ DOMAIN Append(s, x) = 1..Len(s) + 1
        /\ \A i \in 1..Len(s) : Append(s, x)[i] = s[i]
        /\ Append(s, x)[Len(s) + 1] = x
    BY LenProperties, AppendProperties
  <2>2. parts(s) \in Seq(Seq(T)) /\ parts(Append(s, x)) \in Seq(Seq(T))
    BY <1>2, <2>1
  <2>3. Len(parts(s)) = Len(s) /\ Len(parts(Append(s, x))) = Len(s) + 1
    BY <2>1
  <2>4. Append(parts(s), one(x)) \in Seq(Seq(T)) /\ Len(Append(parts(s), one(x))) = Len(s) + 1
    BY <1>1, <2>2, <2>3, AppendProperties
  <2>5. ASSUME NEW i \in 1..Len(s) + 1
        PROVE  parts(Append(s, x))[i] = Append(parts(s), one(x))[i]
    <3>1. parts(Append(s, x))[i] = one(Append(s, x)[i])
      BY <2>1
    <3>2. CASE i = Len(s) + 1
      BY <1>1, <2>1, <2>2, <2>3, <3>1, <3>2, AppendProperties
    <3>3. CASE i \in 1..Len(s)
      <4>1. Append(parts(s), one(x))[i] = parts(s)[i]
        BY <1>1, <2>2, <2>3, <3>3, AppendProperties
      <4>2. parts(s)[i] = one(s[i])
        BY <2>1, <3>3
      <4> QED  BY <2>1, <3>1, <3>3, <4>1, <4>2
    <3> QED  BY <2>1, <3>2, <3>3
  <2> HIDE DEF parts
  <2> QED  BY <2>2, <2>3, <2>4, <2>5, SeqEqual
<1>4. Among(s, S) = FlattenSeq(parts(s)) /\ Among(Append(s, x), S) = FlattenSeq(parts(Append(s, x)))
  BY DEF Among, Wanted, one
<1>5. parts(s) \in Seq(Seq(T)) /\ one(x) \in Seq(T)
  BY <1>1, <1>2
<1> HIDE DEF parts
<1>6. FlattenSeq(parts(Append(s, x))) = FlattenSeq(parts(s)) \o one(x)
  BY <1>3, <1>5, FlattenAppend
<1>7. FlattenSeq(parts(s)) \in Seq(T)
  BY <1>5, FlattenType
<1> QED  BY <1>4, <1>6, <1>7 DEF one

LEMMA AmongMembers ==
    ASSUME NEW T, NEW s \in Seq(T), NEW S
    PROVE  Among(s, S) \in Seq(T) /\ ToSet(Among(s, S)) = ToSet(s) \cap S
<1> DEFINE P == {u \in Seq(T) : /\ Among(u, S) \in Seq(T)
                                /\ ToSet(Among(u, S)) = ToSet(u) \cap S}
<1>1. << >> \in P
  <2>1. PICK e : e = << >> /\ DOMAIN e = {}
    BY EmptySeq, LenProperties
  <2>2. Among(e, S) = << >>
    <3>1. [i \in DOMAIN e |-> IF e[i] \in S THEN <<e[i]>> ELSE << >>] = << >>
      BY <2>1
    <3> QED  BY <3>1, FlattenEmpty DEF Among
  <2> QED  BY <2>1, <2>2, EmptySeq DEF ToSet
<1>2. ASSUME NEW u \in Seq(T), NEW x \in T, u \in P PROVE Append(u, x) \in P
  <2> DEFINE m == Among(u, S)
             o == Wanted(x, S)
  <2>1. /\ m \in Seq(T) /\ ToSet(m) = ToSet(u) \cap S
        /\ Among(Append(u, x), S) = m \o o
    BY <1>2, AmongAppend
  <2>2. o \in Seq(T) /\ ToSet(o) = {x} \cap S
    BY EmptySeq DEF ToSet, Wanted
  <2>3. m \o o \in Seq(T) /\ ToSet(m \o o) = ToSet(m) \cup ToSet(o)
    <3> HIDE DEF m, o
    <3>1. m \o o \in Seq(T)
      BY <2>1, <2>2, ConcatProperties
    <3>2. /\ Len(m) \in Nat /\ Len(o) \in Nat /\ Len(m \o o) = Len(m) + Len(o)
          /\ DOMAIN m = 1..Len(m) /\ DOMAIN o = 1..Len(o)
          /\ DOMAIN (m \o o) = 1..Len(m) + Len(o)
          /\ \A i \in 1..Len(m) + Len(o) :
                (m \o o)[i] = IF i <= Len(m) THEN m[i] ELSE o[i - Len(m)]
      BY <2>1, <2>2, LenProperties, ConcatProperties
    <3>3. ASSUME NEW y \in ToSet(m \o o) PROVE y \in ToSet(m) \cup ToSet(o)
      BY <3>2 DEF ToSet
    <3>4. ASSUME NEW y \in ToSet(m) PROVE y \in ToSet(m \o o)
      BY <3>2 DEF ToSet
    <3>5. ASSUME NEW y \in ToSet(o) PROVE y \in ToSet(m \o o)
      <4>1. PICK i \in 1..Len(o) : y = o[i]
        BY <3>2 DEF ToSet
      <4>2. /\ Len(m) + i \in 1..Len(m) + Len(o)
            /\ (m \o o)[Len(m) + i] = o[i]
        BY <3>2
      <4> QED  BY <3>2, <4>1, <4>2 DEF ToSet
    <3> QED  BY <3>1, <3>3, <3>4, <3>5
  <2>4. Append(u, x) \in Seq(T) /\ ToSet(Append(u, x)) = ToSet(u) \cup {x}
    <3>1. /\ Len(u) \in Nat /\ DOMAIN u = 1..Len(u)
          /\ DOMAIN Append(u, x) = 1..Len(u) + 1
          /\ \A i \in 1..Len(u) : Append(u, x)[i] = u[i]
          /\ Append(u, x)[Len(u) + 1] = x
          /\ Append(u, x) \in Seq(T)
      BY LenProperties, AppendProperties
    <3> QED  BY <3>1 DEF ToSet
  <2> HIDE DEF m, o
  <2> QED  BY <2>1, <2>2, <2>3, <2>4
<1>3. Seq(T) \subseteq P
  <2> HIDE DEF P
  <2> QED  BY <1>1, <1>2, SeqSetInduction
<1> QED  BY <1>3

LEMMA HeadIsMember ==
    ASSUME NEW S, NEW s \in Seq(S), s # << >>
    PROVE  Head(s) \in S /\ Head(s) \in ToSet(s)
<1>1. Len(s) \in Nat /\ Len(s) # 0 /\ DOMAIN s = 1..Len(s) /\ Head(s) = s[1]
  BY LenProperties, HeadTailProperties
<1>2. 1 \in DOMAIN s
  BY <1>1
<1> QED  BY <1>1, <1>2, HeadTailProperties DEF ToSet

LEMMA FirstFewMembers ==
    ASSUME NEW S, NEW s \in Seq(S), NEW n \in Nat
    PROVE  FirstFew(s, n) \in Seq(S) /\ ToSet(FirstFew(s, n)) \subseteq ToSet(s)
<1>1. Len(s) \in Nat /\ DOMAIN s = 1..Len(s) /\ \A i \in 1..Len(s) : s[i] \in S
  BY LenProperties, ElementOfSeq
<1>2. CASE Len(s) <= n
  BY <1>2 DEF FirstFew
<1>3. CASE ~(Len(s) <= n)
  <2> DEFINE few == SubSeq(s, 1, n)
  <2>1. FirstFew(s, n) = few
    BY <1>3 DEF FirstFew
  <2>2. \A i \in 1..n : i \in 1..Len(s)
    BY <1>1, <1>3
  <2>3. /\ few \in Seq(S)
        /\ Len(few) = IF 1 <= n THEN n - 1 + 1 ELSE 0
        /\ \A i \in 1..n - 1 + 1 : few[i] = s[1 + i - 1]
    <3>1. \A i \in 1..n : s[i] \in S
      BY <1>1, <2>2
    <3> HIDE DEF few
    <3> QED  BY <3>1, SubSeqProperties DEF few
  <2> HIDE DEF few
  <2>4. DOMAIN few = 1..Len(few)
    BY <2>3, LenProperties
  <2>5. ASSUME NEW i \in DOMAIN few PROVE few[i] \in ToSet(s)
    <3>1. i \in 1..n /\ few[i] = s[i]
      BY <2>3, <2>4, <2>5
    <3> QED  BY <1>1, <2>2, <3>1 DEF ToSet
  <2> QED  BY <2>1, <2>3, <2>5 DEF ToSet
<1> QED  BY <1>2, <1>3

\* The threads listed of a channel are its own.
LEMMA ThreadsTyped ==
    ASSUME db \in DbType, NEW c
    PROVE  /\ ThreadsOf(c) \in Seq(Thread)
           /\ \A t \in ToSet(ThreadsOf(c)) :
                  t \in Thread /\ t \in ToSet(db.recent) /\ Home[t] = c
           /\ ToSet(ThreadsOf(c)) \subseteq Thread
<1> DEFINE S == {t \in Thread : Home[t] = c}
<1> DEFINE all == Among(db.recent, S)
<1>1. db.recent \in Seq(Thread)
  BY DEF DbType
<1>2. all \in Seq(Thread) /\ ToSet(all) = ToSet(db.recent) \cap S
  <2> HIDE DEF S
  <2> QED  BY <1>1, AmongMembers
<1>3. ThreadsOf(c) = FirstFew(all, ThreadLimit)
  BY DEF ThreadsOf
<1>4. ThreadsOf(c) \in Seq(Thread) /\ ToSet(ThreadsOf(c)) \subseteq ToSet(all)
  <2> HIDE DEF all
  <2> QED  BY <1>2, <1>3, FirstFewMembers, LimitAssumption
<1> HIDE DEF all
<1> QED  BY <1>2, <1>4

LEMMA FirstJoined ==
    ASSUME db \in DbType
    PROVE  FirstOf(Joined) \in Channel \cup {None}
<1>1. Joined \in Seq(Channel)
  BY AmongMembers, OrderAssumption DEF Joined
<1> QED  BY <1>1, HeadIsMember DEF FirstOf

\* The selection filters of a snapshot of an activated account.
SnapshotDm(a) == IF a.dm \in db.talks THEN a.dm ELSE None
SnapshotChannel(a) ==
    IF SnapshotDm(a) # None THEN None
    ELSE IF a.channel \in db.joined THEN a.channel ELSE FirstOf(Joined)
SnapshotThreads(a) ==
    IF SnapshotChannel(a) = None THEN << >> ELSE ThreadsOf(SnapshotChannel(a))
SnapshotThread(a) ==
    IF a.thread \in ToSet(SnapshotThreads(a)) THEN a.thread ELSE FirstOf(SnapshotThreads(a))

LEMMA SnapshotSelection ==
    ASSUME NEW a, Sound(a), db \in DbType
    PROVE  /\ SnapshotDm(a) \in OptionalDm
           /\ SnapshotChannel(a) \in Channel \cup {None}
           /\ SnapshotThreads(a) \in Seq(Thread)
           /\ SnapshotThread(a) \in OptionalThread
           /\ SnapshotDm(a) # None =>
                 /\ SnapshotChannel(a) = None /\ SnapshotThread(a) = None
                 /\ SnapshotThreads(a) = << >>
           /\ SnapshotThread(a) # None =>
                 /\ SnapshotThread(a) \in ToSet(SnapshotThreads(a))
                 /\ Home[SnapshotThread(a)] = SnapshotChannel(a)
           /\ SnapshotThread(a) = None => SnapshotThreads(a) = << >>
<1> DEFINE dm == SnapshotDm(a)
           selected == SnapshotChannel(a)
           threads == SnapshotThreads(a)
           thread == SnapshotThread(a)
<1>1. dm \in OptionalDm
  BY DEF DbType, SnapshotDm, OptionalDm
<1>2. selected \in Channel \cup {None}
  BY FirstJoined DEF DbType, SnapshotChannel
<1>3. /\ threads \in Seq(Thread) /\ ToSet(threads) \subseteq Thread
      /\ \A t \in ToSet(threads) : Home[t] = selected
  <2>1. CASE selected = None
    <3>1. threads = << >>
      BY <2>1 DEF SnapshotThreads
    <3> QED  BY <3>1, EmptySeq DEF ToSet
  <2>2. CASE selected # None
    <3>1. threads = ThreadsOf(selected)
      BY <2>2 DEF SnapshotThreads
    <3> HIDE DEF threads, selected
    <3> QED  BY <3>1, ThreadsTyped
  <2> QED  BY <2>1, <2>2
<1>4. \/ thread = None /\ threads = << >>
      \/ thread \in ToSet(threads)
  <2>1. CASE threads = << >>
    <3>1. ToSet(threads) = {}
      BY <2>1, EmptySeq DEF ToSet
    <3> QED  BY <2>1, <3>1 DEF SnapshotThread, FirstOf
  <2>2. CASE threads # << >>
    <3>1. Head(threads) \in ToSet(threads)
      <4> HIDE DEF threads
      <4> QED  BY <1>3, <2>2, HeadIsMember
    <3> QED  BY <2>2, <3>1 DEF SnapshotThread, FirstOf
  <2> QED  BY <2>1, <2>2
<1>5. None \notin Thread
  BY NoneAssumption
<1>6. dm # None => selected = None /\ threads = << >>
  BY DEF SnapshotChannel, SnapshotThreads
<1>7. dm # None => thread = None
  <2>1. ToSet(<< >>) = {}
    BY EmptySeq DEF ToSet
  <2> QED  BY <1>4, <1>6, <2>1
<1> HIDE DEF dm, selected, threads, thread
<1> QED  BY <1>1, <1>2, <1>3, <1>4, <1>5, <1>6, <1>7
         DEF OptionalThread, dm, selected, threads, thread

LEMMA SnapshotActivated ==
    ASSUME NEW a, db.activated
    PROVE  Snapshot(a) =
             [a EXCEPT !.activated = TRUE, !.channels = db.joined, !.threads = SnapshotThreads(a),
                 !.conversations = db.talks, !.channel = SnapshotChannel(a),
                 !.thread = SnapshotThread(a), !.dm = SnapshotDm(a),
                 !.comments = SnapshotThread(a), !.messages = SnapshotDm(a)]
BY DEF Snapshot, SnapshotDm, SnapshotChannel, SnapshotThreads, SnapshotThread

\* What a snapshot leaves: its own rows, and nothing for an account that has
\* not been activated.
Fetched(a, b) ==
    /\ b \in AppType
    /\ b.messages = b.dm /\ b.comments = b.thread
    /\ b.thread # None => b.thread \in ToSet(b.threads) /\ Home[b.thread] = b.channel
    /\ b.thread = None => b.threads = << >>
    /\ Exclusive(b)
    /\ b.actions = a.actions /\ b.running = a.running
    /\ b.modal = a.modal /\ b.menu = a.menu /\ b.confirm = a.confirm
    /\ b.activated = db.activated
    /\ ~db.activated => b.dm = None /\ b.thread = None

LEMMA SnapshotFetched ==
    ASSUME NEW a, Sound(a), db \in DbType
    PROVE  /\ Fetched(a, Snapshot(a))
           /\ Snapshot(a).route = a.route
           /\ db.activated =>
                /\ Snapshot(a).dm = SnapshotDm(a)
                /\ Snapshot(a).channel = SnapshotChannel(a)
                /\ Snapshot(a).thread = SnapshotThread(a)
<1>0. a \in AppType
  BY FieldTypes
<1>1. CASE db.activated
  <2>1. PICK dm \in OptionalDm, selected \in Channel \cup {None},
             threads \in Seq(Thread), thread \in OptionalThread :
          /\ dm = SnapshotDm(a) /\ selected = SnapshotChannel(a)
          /\ threads = SnapshotThreads(a) /\ thread = SnapshotThread(a)
    BY SnapshotSelection
  <2>2. PICK joined \in SUBSET Channel, talks \in SUBSET Dm :
          joined = db.joined /\ talks = db.talks
    BY DEF DbType
  <2> DEFINE b == [a EXCEPT !.activated = TRUE, !.channels = joined, !.threads = threads,
                 !.conversations = talks, !.channel = selected, !.thread = thread,
                 !.dm = dm, !.comments = thread, !.messages = dm]
  <2>3. Snapshot(a) = b
    BY <1>1, <2>1, <2>2, SnapshotActivated
  <2>4. b \in AppType
    BY <1>0, Values, Zenon DEF AppType
  <2>5. /\ b.activated = TRUE /\ b.route = a.route /\ b.dm = dm
        /\ b.channel = selected
        /\ b.thread = thread /\ b.threads = threads /\ b.comments = thread
        /\ b.messages = dm /\ b.actions = a.actions /\ b.running = a.running
        /\ b.modal = a.modal /\ b.menu = a.menu /\ b.confirm = a.confirm
    BY <1>0, Zenon DEF AppType
  <2> HIDE DEF b
  <2>6. db.activated = TRUE
    BY <1>1 DEF DbType
  <2>7. Fetched(a, b)
    BY <2>1, <2>4, <2>5, <2>6, SnapshotSelection DEF Fetched, Exclusive
  <2> QED  BY <1>1, <2>1, <2>3, <2>5, <2>7
<1>2. CASE ~db.activated
  <2> DEFINE b == [ClearActiveSource(a) EXCEPT
                     !.activated = FALSE, !.channels = {}, !.conversations = {}]
  <2>1. Snapshot(a) = b
    BY <1>2 DEF Snapshot
  <2>2. {} \in SUBSET Channel /\ {} \in SUBSET Dm
    OBVIOUS
  <2>3. b \in AppType
    BY <1>0, <2>2, Values, Zenon
       DEF AppType, ClearActiveSource, ClearChannelSource, ClearConversationSource
  <2>4. /\ b.activated = FALSE /\ b.route = a.route /\ b.dm = None
        /\ b.channel = None
        /\ b.thread = None /\ b.threads = << >> /\ b.comments = None
        /\ b.messages = None /\ b.actions = a.actions /\ b.running = a.running
        /\ b.modal = a.modal /\ b.menu = a.menu /\ b.confirm = a.confirm
    BY <1>0, Zenon
       DEF AppType, ClearActiveSource, ClearChannelSource, ClearConversationSource
  <2> HIDE DEF b
  <2>5. db.activated = FALSE
    BY <1>2 DEF DbType
  <2>6. Fetched(a, b)
    BY <2>3, <2>4, <2>5 DEF Fetched, Exclusive
  <2> QED  BY <1>2, <2>1, <2>4, <2>6
<1> QED  BY <1>1, <1>2
-----------------------------------------------------------------------------
(* apply_refresh                                                           *)

\* Only the page, the pane, the composer and what is asked for differ.
LEMMA FetchedBeside ==
    ASSUME NEW a, NEW b, Fetched(a, b), NEW c \in AppType,
           c.channel = b.channel, c.thread = b.thread, c.dm = b.dm,
           c.threads = b.threads, c.comments = b.comments, c.messages = b.messages,
           c.actions = b.actions, c.running = b.running, c.modal = b.modal,
           c.menu = b.menu, c.confirm = b.confirm, c.activated = b.activated
    PROVE  Fetched(a, c)
BY DEF Fetched, Exclusive

RefreshStarted(a) ==
    IF ~a.activated /\ Snapshot(a).activated
    THEN [Snapshot(a) EXCEPT !.route = "notifications", !.pane = "detail",
                             !.draft = "", !.popup = FALSE]
    ELSE Snapshot(a)
RefreshKept(a) ==
    IF RefreshStarted(a).route \in {"search", "saved", "notifications"}
    THEN ClearActiveSource(RefreshStarted(a)) ELSE RefreshStarted(a)
RefreshSynced(a) == [SyncRoute(RefreshKept(a)) EXCEPT !.refresh = FALSE]

LEMMA RefreshSteps == ASSUME NEW a PROVE Refresh(a) = Completed(RefreshSynced(a))
BY DEF Refresh, RefreshStarted, RefreshKept, RefreshSynced

LEMMA StartedFetched ==
    ASSUME NEW a, Sound(a), db \in DbType
    PROVE  /\ Fetched(a, RefreshStarted(a))
           /\ a.activated => RefreshStarted(a) = Snapshot(a)
<1>1. PICK f : f = Snapshot(a)
  OBVIOUS
<1>2. Fetched(a, f)
  BY <1>1, SnapshotFetched
<1> DEFINE s == [f EXCEPT !.route = "notifications", !.pane = "detail",
                          !.draft = "", !.popup = FALSE]
<1>3. f \in AppType /\ "notifications" \in Route
  BY <1>2, Values DEF Fetched
<1>4. s \in AppType
  BY <1>3, Values, Zenon DEF AppType, Pane
<1>5. /\ s.channel = f.channel /\ s.thread = f.thread /\ s.dm = f.dm
      /\ s.threads = f.threads /\ s.comments = f.comments
      /\ s.messages = f.messages
      /\ s.actions = f.actions /\ s.running = f.running /\ s.modal = f.modal
      /\ s.menu = f.menu /\ s.confirm = f.confirm /\ s.activated = f.activated
  BY <1>3, Zenon DEF AppType
<1>6. RefreshStarted(a) = IF ~a.activated /\ f.activated THEN s ELSE f
  BY <1>1 DEF RefreshStarted
<1> HIDE DEF s
<1>7. Fetched(a, s)
  BY <1>2, <1>4, <1>5, FetchedBeside
<1> QED  BY <1>1, <1>2, <1>6, <1>7

LEMMA KeptFetched ==
    ASSUME NEW a, Sound(a), db \in DbType
    PROVE  Fetched(a, RefreshKept(a))
<1>1. PICK s : s = RefreshStarted(a)
  OBVIOUS
<1>2. Fetched(a, s)
  BY <1>1, StartedFetched
<1> DEFINE k == ClearActiveSource(s)
<1>3. s \in AppType
  BY <1>2 DEF Fetched
<1>4. k \in AppType
  BY <1>3, Values, Zenon
     DEF AppType, ClearActiveSource, ClearChannelSource, ClearConversationSource
<1>5. /\ k.channel = None /\ k.thread = None /\ k.dm = None
      /\ k.threads = << >> /\ k.comments = None /\ k.messages = None
      /\ k.actions = s.actions /\ k.running = s.running /\ k.modal = s.modal
      /\ k.menu = s.menu /\ k.confirm = s.confirm /\ k.activated = s.activated
  BY <1>3, Zenon
     DEF AppType, ClearActiveSource, ClearChannelSource, ClearConversationSource
<1>6. RefreshKept(a) = IF s.route \in {"search", "saved", "notifications"} THEN k ELSE s
  BY <1>1 DEF RefreshKept
<1> HIDE DEF k
<1>7. Fetched(a, k)
  BY <1>2, <1>4, <1>5 DEF Fetched, Exclusive
<1> QED  BY <1>2, <1>6, <1>7

\* Only its own route and pane differ from an App without a stale route.
LEMMA SyncRouted ==
    ASSUME NEW b \in AppType
    PROVE  /\ SyncRoute(b) \in AppType
           /\ SyncRoute(b).channel = b.channel /\ SyncRoute(b).thread = b.thread
           /\ SyncRoute(b).dm = b.dm /\ SyncRoute(b).threads = b.threads
           /\ SyncRoute(b).comments = b.comments /\ SyncRoute(b).messages = b.messages
           /\ SyncRoute(b).actions = b.actions /\ SyncRoute(b).running = b.running
           /\ SyncRoute(b).modal = b.modal /\ SyncRoute(b).menu = b.menu
           /\ SyncRoute(b).confirm = b.confirm /\ SyncRoute(b).activated = b.activated
           /\ SyncRoute(b).route =
                IF b.dm # None THEN "dms"
                ELSE IF b.route \notin Page /\ b.channel # None THEN b.channel
                     ELSE b.route
<1> DEFINE p == IF b.pane = "list" THEN "detail" ELSE b.pane
           d == [b EXCEPT !.route = "dms", !.pane = p]
           c == [b EXCEPT !.route = b.channel]
<1>1. /\ b.pane \in Pane /\ p \in Pane
      /\ b.channel # None => b.channel \in Route
  BY Values DEF AppType, Pane, Route
<1>2. SyncRoute(b) = IF b.dm # None THEN d
                     ELSE IF b.route \notin Page /\ b.channel # None THEN c ELSE b
  BY DEF SyncRoute
<1>3. /\ d \in AppType /\ d.route = "dms"
      /\ d.channel = b.channel /\ d.thread = b.thread /\ d.dm = b.dm
      /\ d.threads = b.threads /\ d.comments = b.comments
      /\ d.messages = b.messages
      /\ d.actions = b.actions /\ d.running = b.running /\ d.modal = b.modal
      /\ d.menu = b.menu /\ d.confirm = b.confirm /\ d.activated = b.activated
  <2> HIDE DEF p
  <2>1. d \in AppType
    BY <1>1, Values, Zenon DEF AppType, Pane
  <2>2. /\ d.route = "dms"
        /\ d.channel = b.channel /\ d.thread = b.thread /\ d.dm = b.dm
        /\ d.threads = b.threads /\ d.comments = b.comments
        /\ d.messages = b.messages
        /\ d.actions = b.actions /\ d.running = b.running /\ d.modal = b.modal
        /\ d.menu = b.menu /\ d.confirm = b.confirm /\ d.activated = b.activated
    BY Zenon DEF AppType
  <2> QED  BY <2>1, <2>2
<1>4. b.channel # None =>
      /\ c \in AppType /\ c.route = b.channel
      /\ c.channel = b.channel /\ c.thread = b.thread /\ c.dm = b.dm
      /\ c.threads = b.threads /\ c.comments = b.comments
      /\ c.messages = b.messages
      /\ c.actions = b.actions /\ c.running = b.running /\ c.modal = b.modal
      /\ c.menu = b.menu /\ c.confirm = b.confirm /\ c.activated = b.activated
  <2> SUFFICES ASSUME b.channel # None
               PROVE /\ c \in AppType /\ c.route = b.channel
                     /\ c.channel = b.channel /\ c.thread = b.thread
                     /\ c.dm = b.dm
                     /\ c.threads = b.threads /\ c.comments = b.comments
                     /\ c.messages = b.messages
                     /\ c.actions = b.actions /\ c.running = b.running
                     /\ c.modal = b.modal
                     /\ c.menu = b.menu /\ c.confirm = b.confirm
                     /\ c.activated = b.activated
    OBVIOUS
  <2>1. PICK r \in Route : r = b.channel
    BY <1>1
  <2>2. [b EXCEPT !.route = r] \in AppType
    BY <2>1, Zenon DEF AppType
  <2>3. /\ c.route = b.channel
        /\ c.channel = b.channel /\ c.thread = b.thread /\ c.dm = b.dm
        /\ c.threads = b.threads /\ c.comments = b.comments
        /\ c.messages = b.messages
        /\ c.actions = b.actions /\ c.running = b.running /\ c.modal = b.modal
        /\ c.menu = b.menu /\ c.confirm = b.confirm /\ c.activated = b.activated
    BY Zenon DEF AppType
  <2> QED  BY <2>1, <2>2, <2>3
<1> HIDE DEF d, c
<1>5. CASE b.dm # None
  BY <1>2, <1>3, <1>5
<1>6. CASE b.dm = None /\ b.route \notin Page /\ b.channel # None
  BY <1>2, <1>4, <1>6
<1>7. CASE b.dm = None /\ ~(b.route \notin Page /\ b.channel # None)
  BY <1>2, <1>7
<1> QED  BY <1>5, <1>6, <1>7

\* What a refresh leaves: a sound App with the rows of its selection.
LEMMA Refreshed ==
    ASSUME NEW a, Sound(a), db \in DbType, NEW b \in Refresh(a)
    PROVE  /\ Fetched(a, b) /\ Sound(b) /\ Loaded(b)
           /\ b.refresh = FALSE
           /\ b.route = SyncRoute(RefreshKept(a)).route
           /\ b.dm = RefreshKept(a).dm /\ b.thread = RefreshKept(a).thread
<1>1. PICK k : k = RefreshKept(a)
  OBVIOUS
<1>2. Fetched(a, k)
  BY <1>1, KeptFetched
<1>3. PICK y : y = SyncRoute(k)
  OBVIOUS
<1>4. k \in AppType
  BY <1>2 DEF Fetched
<1>5. y \in AppType
  BY <1>3, <1>4, SyncRouted
<1> DEFINE z == [y EXCEPT !.refresh = FALSE]
<1>6. z \in AppType
  BY <1>5, Values, Zenon DEF AppType
<1>7. /\ z.route = y.route /\ z.channel = y.channel /\ z.thread = y.thread
      /\ z.dm = y.dm
      /\ z.threads = y.threads /\ z.comments = y.comments
      /\ z.messages = y.messages
      /\ z.actions = y.actions /\ z.running = y.running /\ z.modal = y.modal
      /\ z.menu = y.menu /\ z.confirm = y.confirm /\ z.activated = y.activated
      /\ z.refresh = FALSE
  BY <1>5, Zenon DEF AppType
<1>8. PICK v \in BOOLEAN : b = [z EXCEPT !.popup = v]
  <2>1. b \in Completed(z)
    BY <1>1, <1>3, RefreshSteps DEF RefreshSynced
  <2> QED  BY <2>1 DEF Completed
<1> HIDE DEF z
<1>9. b \in AppType
  BY <1>6, <1>8, Zenon DEF AppType
<1>10. /\ b.route = z.route /\ b.channel = z.channel /\ b.thread = z.thread
       /\ b.dm = z.dm
       /\ b.threads = z.threads /\ b.comments = z.comments
       /\ b.messages = z.messages
       /\ b.actions = z.actions /\ b.running = z.running /\ b.modal = z.modal
       /\ b.menu = z.menu /\ b.confirm = z.confirm /\ b.activated = z.activated
       /\ b.refresh = z.refresh
  BY <1>6, <1>8, Zenon DEF AppType
<1>11. /\ y.channel = k.channel /\ y.thread = k.thread /\ y.dm = k.dm
       /\ y.threads = k.threads /\ y.comments = k.comments
       /\ y.messages = k.messages
       /\ y.actions = k.actions /\ y.running = k.running /\ y.modal = k.modal
       /\ y.menu = k.menu /\ y.confirm = k.confirm /\ y.activated = k.activated
       /\ y.route = IF k.dm # None THEN "dms"
                    ELSE IF k.route \notin Page /\ k.channel # None THEN k.channel
                         ELSE k.route
  BY <1>3, <1>4, SyncRouted
<1>12. Fetched(a, b)
  BY <1>2, <1>7, <1>9, <1>10, <1>11, FetchedBeside
<1>13. Sound(b)
  <2>1. a.actions \in Seq(FittingAction)
    BY FieldTypes
  <2> QED  BY <1>9, <1>12, <2>1 DEF Sound, Fetched
<1>14. b.route \in Channel => b.channel \in {b.route, None}
  <2>1. /\ b.route = IF b.dm # None THEN "dms"
                     ELSE IF k.route \notin Page /\ b.channel # None THEN b.channel
                     ELSE k.route
    BY <1>7, <1>10, <1>11
  <2>2. Channel \cap Page = {} /\ "dms" \notin Channel
    BY IdsAssumption DEF Page, ResultPage
  <2> QED  BY <2>1, <2>2
<1>15. Loaded(b)
  BY <1>12, <1>14 DEF Loaded, Fetched
<1> QED  BY <1>1, <1>3, <1>7, <1>10, <1>11, <1>12, <1>13, <1>15

\* A place on the page that is still in its list survives the filters.
LEMMA PlaceKept ==
    ASSUME Sound(app), db \in DbType, app.activated, db.activated,
           Listed(Shown(app)), NEW b \in Refresh(app)
    PROVE  Shown(b) = Shown(app)
<1>1. PICK f : f = Snapshot(app)
  OBVIOUS
<1>2. /\ Fetched(app, f) /\ f.route = app.route /\ f.dm = SnapshotDm(app)
      /\ f.channel = SnapshotChannel(app) /\ f.thread = SnapshotThread(app)
      /\ RefreshStarted(app) = f
  BY <1>1, SnapshotFetched, StartedFetched
<1>3. /\ app.dm \in OptionalDm /\ app.thread \in OptionalThread /\ Exclusive(app)
      /\ db.talks \subseteq Dm
  BY FieldTypes DEF DbType
<1>4. ToSet(ThreadsOf(app.channel)) \subseteq Thread
  BY ThreadsTyped
<1>5. /\ Channel \cap Page = {} /\ "dms" \notin Channel /\ "dms" \notin Page
      /\ None \notin Thread \cup Dm \cup Channel /\ Thread \cap Dm = {}
  BY IdsAssumption, NoneAssumption DEF Page, ResultPage
<1>6. app.route \in Channel \cup {"dms"}
  BY <1>3, <1>4, <1>5 DEF Shown, Listed
<1>7. RefreshKept(app) = f
  <2>1. app.route \notin {"search", "saved", "notifications"}
    BY <1>6, IdsAssumption
  <2> QED  BY <1>2, <2>1 DEF RefreshKept
<1>8. f \in AppType
  BY <1>2 DEF Fetched
<1>9. /\ b.dm = f.dm /\ b.thread = f.thread
      /\ b.route = IF f.dm # None THEN "dms"
                   ELSE IF f.route \notin Page /\ f.channel # None THEN f.channel
                        ELSE f.route
  <2>1. /\ b.route = SyncRoute(RefreshKept(app)).route
        /\ b.dm = RefreshKept(app).dm /\ b.thread = RefreshKept(app).thread
    BY Refreshed
  <2>2. b.route = SyncRoute(f).route /\ b.dm = f.dm /\ b.thread = f.thread
    BY <1>7, <2>1
  <2>3. SyncRoute(f).route =
          IF f.dm # None THEN "dms"
          ELSE IF f.route \notin Page /\ f.channel # None THEN f.channel ELSE f.route
    BY <1>8, SyncRouted
  <2> QED  BY <2>2, <2>3
<1>10. CASE app.route = "dms"
  <2>1. Shown(app) = app.dm
    BY <1>5, <1>10 DEF Shown
  <2>2. app.dm \in db.talks /\ app.dm # None
    BY <1>3, <1>4, <1>5, <2>1 DEF Listed, OptionalDm
  <2>3. f.dm = app.dm
    BY <1>2, <2>2 DEF SnapshotDm
  <2>4. b.route = "dms" /\ b.dm = app.dm
    BY <1>9, <2>2, <2>3
  <2> QED  BY <1>5, <2>1, <2>4 DEF Shown
<1>11. CASE app.route \in Channel
  <2>1. Shown(app) = app.thread
    BY <1>5, <1>11 DEF Shown
  <2>2. /\ app.channel \in db.joined /\ app.thread \in ToSet(ThreadsOf(app.channel))
        /\ app.thread \in Thread /\ app.thread # None
    BY <1>3, <1>4, <1>5, <2>1 DEF Listed, OptionalThread
  <2>3. app.dm = None
    BY <1>3, <2>2 DEF Exclusive
  <2>4. app.channel \in db.joined /\ app.channel \in Channel
    BY <2>2 DEF DbType
  <2>5. f.dm = None /\ f.channel = app.channel
    BY <1>2, <2>3, <2>4 DEF SnapshotDm, SnapshotChannel
  <2>7. f.thread = app.thread
    <3>1. SnapshotThreads(app) = ThreadsOf(app.channel)
      BY <1>2, <1>5, <2>4, <2>5 DEF SnapshotThreads
    <3> QED  BY <1>2, <2>2, <3>1 DEF SnapshotThread
  <2>8. b.route = app.channel /\ b.thread = app.thread
    BY <1>2, <1>5, <1>9, <1>11, <2>4, <2>5, <2>7
  <2> QED  BY <1>5, <2>1, <2>4, <2>8 DEF Shown
<1> QED  BY <1>6, <1>10, <1>11
-----------------------------------------------------------------------------
(* An account that has not been activated yet                              *)

\* It has no selection and no overlay, and only asks to be activated.
OnboardingAction == {q \in FittingAction : q.do = "CompleteOnboarding"}
Waiting(a) ==
    /\ a.dm = None /\ a.thread = None
    /\ a.modal = FALSE /\ a.menu = None /\ a.confirm = None
    /\ a.actions \in Seq(OnboardingAction)

LEMMA WaitingBeside ==
    ASSUME NEW a, Waiting(a), NEW b,
           b.dm = a.dm, b.thread = a.thread, b.modal = a.modal, b.menu = a.menu,
           b.confirm = a.confirm, b.actions = a.actions
    PROVE  Waiting(b)
BY DEF Waiting

LEMMA WaitingKeys ==
    ASSUME NEW a, Sound(a), Waiting(a), ~a.activated, NEW b \in HandleKey(a)
    PROVE  Waiting(b)
<1>0. a \in AppType
  BY FieldTypes
<1> DEFINE c == Compose(a, "")
<1>1. ASSUME NEW v \in BOOLEAN PROVE Waiting([a EXCEPT !.running = v])
  BY <1>0, WaitingBeside, Zenon DEF AppType
<1>2. ASSUME NEW d \in Draft PROVE Waiting([a EXCEPT !.draft = d])
  BY <1>0, WaitingBeside, Zenon DEF AppType
<1>3. /\ c.dm = a.dm /\ c.thread = a.thread /\ c.modal = a.modal
      /\ c.menu = a.menu
      /\ c.confirm = a.confirm /\ c.actions = a.actions
  BY <1>0, Zenon DEF AppType, Compose
<1>4. Waiting(c) /\ Sound(c)
  BY <1>3, WaitingBeside, Composing, Values DEF Handled
<1> HIDE DEF c
<1>5. Waiting(Push(c, "CompleteOnboarding", None))
  <2> DEFINE q == [do |-> "CompleteOnboarding", to |-> None, shown |-> None]
             e == [c EXCEPT !.actions = Append(c.actions, q)]
  <2>1. "CompleteOnboarding" \notin Addressed /\ "CompleteOnboarding" \in ActionName
    BY DEF Addressed, ActionName
  <2>2. Push(c, "CompleteOnboarding", None) = e
    BY <2>1 DEF Push, Queue
  <2>3. q \in OnboardingAction
    BY <2>1, Values DEF OnboardingAction, FittingAction, ActionFits, Action
  <2>4. Append(c.actions, q) \in Seq(OnboardingAction)
    BY <1>4, <2>3, AppendProperties DEF Waiting
  <2> HIDE DEF q
  <2>5. /\ e.dm = c.dm /\ e.thread = c.thread /\ e.modal = c.modal
        /\ e.menu = c.menu
        /\ e.confirm = c.confirm /\ e.actions = Append(c.actions, q)
    BY <1>4, Zenon DEF Sound, AppType
  <2> HIDE DEF e
  <2> QED  BY <1>4, <2>2, <2>4, <2>5 DEF Waiting
<1>6. HandleKey(a) = {[a EXCEPT !.running = FALSE]} \cup OnboardingKey(a)
  BY DEF HandleKey, Waiting
<1>7. OnboardingKey(a) \subseteq
          {[a EXCEPT !.draft = d] : d \in Draft}
          \cup {c, Push(c, "CompleteOnboarding", None)}
  BY Values DEF OnboardingKey, c
<1> QED  BY <1>1, <1>2, <1>4, <1>5, <1>6, <1>7

LEMMA WaitingMouse ==
    ASSUME NEW a, Sound(a), Waiting(a), screen.mode = "onboarding", screen.place = None,
           screen.menu = None, screen.confirm = None, NEW b \in HandleMouse(a)
    PROVE  Waiting(b)
<1>0. a \in AppType
  BY FieldTypes
<1>1. Waiting(CloseOverlays(a))
  <2> DEFINE c == CloseOverlays(a)
  <2>1. /\ c.dm = a.dm /\ c.thread = a.thread /\ c.modal = a.modal
        /\ c.menu = None
        /\ c.confirm = None /\ c.actions = a.actions
    BY <1>0, Zenon DEF AppType, CloseOverlays
  <2> QED  BY <2>1 DEF Waiting
<1>2. HandleMouse(a) = {CloseOverlays(a)} \cup {a}
  BY DEF HandleMouse, RightClick, Waiting
<1> QED  BY <1>1, <1>2
-----------------------------------------------------------------------------
(* process_action                                                          *)

LEMMA BannerHandled ==
    ASSUME NEW a, Sound(a)
    PROVE  /\ Handled(a, Banner(a))
           /\ Banner(a).refresh = a.refresh /\ Banner(a).running = a.running
           /\ Waiting(a) => Waiting(Banner(a))
<1>0. a \in AppType
  BY FieldTypes
<1>1. Handled(a, Banner(a))
  BY SetModal, Values DEF Banner
<1> DEFINE c == Banner(a)
<1>2. /\ c.dm = a.dm /\ c.thread = a.thread /\ c.modal = FALSE
      /\ c.menu = a.menu
      /\ c.confirm = a.confirm /\ c.actions = a.actions /\ c.refresh = a.refresh
      /\ c.running = a.running
  BY <1>0, Zenon DEF AppType, Banner
<1> QED  BY <1>1, <1>2 DEF Waiting

LEMMA BannerNext ==
    ASSUME NEW a, NEW b, Handled(a, b)
    PROVE  Handled(a, Banner(b))
BY BannerHandled, Then DEF Handled

\* A thread may move to any place of the order, or leave it.
LEMMA MovedTyped ==
    ASSUME db \in DbType, NEW t \in Thread
    PROVE  /\ \A d \in Moved(t) : d \in DbType /\ d.activated = db.activated
           /\ Raised(t) \subseteq Moved(t)
           /\ [db EXCEPT !.recent = Among(@, Thread \ {t})] \in DbType
           /\ [db EXCEPT !.recent = Among(@, Thread \ {t})].activated = db.activated
<1> DEFINE others == Among(db.recent, Thread \ {t})
<1>1. others \in Seq(Thread)
  BY AmongMembers DEF DbType
<1>2. [db EXCEPT !.recent = Among(@, Thread \ {t})] = [db EXCEPT !.recent = others]
  BY DEF DbType
<1>3. Moved(t) = {[db EXCEPT !.recent = InsertAt(others, i, t)] : i \in 1..Len(others) + 1}
  BY DEF Moved
<1> HIDE DEF others
<1>4. Len(others) \in Nat /\ \A i \in 1..Len(others) : others[i] \in Thread
  BY <1>1, LenProperties, ElementOfSeq
<1>5. ASSUME NEW i \in 1..Len(others) + 1 PROVE InsertAt(others, i, t) \in Seq(Thread)
  <2> DEFINE before == SubSeq(others, 1, i - 1)
             after == SubSeq(others, i, Len(others))
  <2>1. i \in Int /\ i - 1 \in Int /\ Len(others) \in Int
    BY <1>4
  <2>2. before \in Seq(Thread) /\ after \in Seq(Thread)
    <3>1. \A j \in 1..i - 1 : others[j] \in Thread
      BY <1>4
    <3>2. \A j \in i..Len(others) : others[j] \in Thread
      BY <1>4
    <3> QED  BY <2>1, <3>1, <3>2, SubSeqProperties
  <2>3. InsertAt(others, i, t) = before \o <<t>> \o after
    BY DEF InsertAt
  <2>4. <<t>> \in Seq(Thread)
    OBVIOUS
  <2> HIDE DEF before, after
  <2>5. before \o <<t>> \in Seq(Thread)
    BY <2>2, <2>4, ConcatProperties
  <2> QED  BY <2>2, <2>3, <2>5, ConcatProperties
<1>6. ASSUME NEW r \in Seq(Thread)
      PROVE  [db EXCEPT !.recent = r] \in DbType /\ [db EXCEPT !.recent = r].activated = db.activated
  BY DEF DbType
<1>7. ASSUME NEW d \in Moved(t) PROVE d \in DbType /\ d.activated = db.activated
  <2>1. PICK i \in 1..Len(others) + 1 : d = [db EXCEPT !.recent = InsertAt(others, i, t)]
    BY <1>3
  <2> QED  BY <1>5, <1>6, <2>1
<1>8. Raised(t) \subseteq Moved(t)
  BY DEF Raised
<1>9. /\ [db EXCEPT !.recent = Among(@, Thread \ {t})] \in DbType
      /\ [db EXCEPT !.recent = Among(@, Thread \ {t})].activated = db.activated
  BY <1>1, <1>2, <1>6
<1> QED  BY <1>7, <1>8, <1>9

\* Whatever an action does, it keeps the App sound and the database typed; an
\* action that is not followed by a refresh asks for none and stops nothing.
LEMMA Performed ==
    ASSUME Sound(app), db \in DbType, NEW q \in FittingAction, Perform(q)
    PROVE  /\ Handled(app, app') /\ db' \in DbType
           /\ db.activated => db'.activated
           /\ ~RefreshesAfter(q.do) =>
                 app'.refresh = app.refresh /\ app'.running = app.running
           /\ q.do = "CompleteOnboarding" /\ Waiting(app) => Waiting(app')
<1>0. /\ app \in AppType /\ app.channel \in Channel \cup {None}
      /\ app.thread \in OptionalThread /\ app.dm \in OptionalDm
      /\ app.channels \subseteq Channel /\ app.route \in Route
      /\ q \in Action /\ q.do \in ActionName /\ ActionFits(q)
      /\ Handled(app, app)
  BY FieldTypes, Itself DEF FittingAction, Action
<1>1. CASE Fail(q)
  BY <1>1, BannerHandled DEF Fail
<1>2. CASE AddComment(q)
  <2>1. app.channel \in Channel /\ app.thread \in Thread
    BY <1>0, <1>2, MembersOfSequence DEF AddComment, Visible, DbType
  <2>2. Handled(app, SelectThread(app, app.channel, app.thread))
    BY <2>1, ThreadSelected
  <2>3. db' \in DbType /\ db'.activated = db.activated
    BY <1>2, <2>1, MovedTyped DEF AddComment
  <2> QED  BY <1>2, <2>1, <2>2, <2>3 DEF AddComment, RefreshesAfter
<1>3. CASE SendDm(q)
  <2>1. app.dm \in Dm
    BY <1>0, <1>3 DEF SendDm, OptionalDm
  <2>2. Handled(app, SelectConversation(app, app.dm))
    BY <2>1, ConversationSelected
  <2> QED  BY <1>3, <2>2 DEF SendDm, RefreshesAfter
<1>4. CASE ChangeMessage(q)
  BY <1>0, <1>4, BannerHandled DEF ChangeMessage, RefreshesAfter
<1>5. CASE DeleteThread(q)
  <2>1. app.thread \in Thread
    BY <1>0, <1>5, MembersOfSequence DEF DeleteThread, Visible, DbType
  <2> QED  BY <1>5, <2>1, MovedTyped, BannerHandled DEF DeleteThread,
              RefreshesAfter
<1>6. CASE MarkRead(q)
  BY <1>0, <1>6 DEF MarkRead
<1>7. CASE NextUnread(q)
  <2>1. ASSUME NEW t \in Visible
        PROVE  Handled(app, SelectThread(app, Home[t], t))
    <3>1. t \in Thread /\ Home[t] \in Channel
      BY HomeAssumption, MembersOfSequence DEF Visible, DbType
    <3> QED  BY <3>1, ThreadSelected
  <2>2. ASSUME NEW d \in db.talks PROVE Handled(app, SelectConversation(app, d))
    BY ConversationSelected DEF DbType
  <2> QED  BY <1>7, <2>1, <2>2 DEF NextUnread, RefreshesAfter
<1>8. CASE OpenDm(q)
  <2>1. q.to \in Dm
    BY <1>8 DEF OpenDm, DbType
  <2> QED  BY <1>8, <2>1, ConversationSelected DEF OpenDm, RefreshesAfter
<1>9. CASE JoinChannel(q)
  <2>1. q.to \in Channel
    BY <1>0, <1>9 DEF JoinChannel, ActionFits
  <2>2. Handled(app, Banner(SelectChannel(app, q.to)))
    BY <2>1, ChannelSelected, BannerNext
  <2>3. [db EXCEPT !.joined = @ \cup {q.to}] \in DbType
        /\ [db EXCEPT !.joined = @ \cup {q.to}].activated = db.activated
    BY <2>1 DEF DbType
  <2> QED  BY <1>9, <2>2, <2>3 DEF JoinChannel, RefreshesAfter
<1>10. CASE LeaveChannel(q)
  <2>1. [db EXCEPT !.joined = @ \ {app.channel}] \in DbType
        /\ [db EXCEPT !.joined = @ \ {app.channel}].activated = db.activated
    BY DEF DbType
  <2> QED  BY <1>10, <2>1, BannerHandled DEF LeaveChannel, RefreshesAfter
<1>11. CASE CreateThread(q)
  <2>1. PICK selected \in db.joined, t \in db.unused :
          /\ \E moved \in Moved(t) : db' = [moved EXCEPT !.unused = @ \ {t}]
          /\ app' = Banner(SelectThread(app, selected, t))
    BY <1>11 DEF CreateThread
  <2>2. selected \in Channel /\ t \in Thread
    BY DEF DbType
  <2>3. Handled(app, app')
    BY <2>1, <2>2, ThreadSelected, BannerNext
  <2>4. db' \in DbType /\ db'.activated = db.activated
    <3>1. PICK moved \in Moved(t) : db' = [moved EXCEPT !.unused = @ \ {t}]
      BY <2>1
    <3>2. moved \in DbType /\ moved.activated = db.activated
      BY <2>2, <3>1, MovedTyped
    <3> QED  BY <3>1, <3>2 DEF DbType
  <2> QED  BY <1>11, <2>3, <2>4 DEF CreateThread, RefreshesAfter
<1>12. CASE OpenSourceTarget(q)
  <2>1. q.to \in Place
    BY <1>0, <1>12 DEF OpenSourceTarget, ActionFits
  <2>2. Handled(app, app')
    BY <1>12, <2>1, ResultActivated DEF OpenSourceTarget
  <2>3. db' \in DbType /\ db'.activated = db.activated
    BY <1>12, HomeAssumption DEF OpenSourceTarget, DbType
  <2> QED  BY <1>12, <2>2, <2>3 DEF OpenSourceTarget, RefreshesAfter
<1>13. CASE OpenPage(q)
  <2>1. \A page \in ResultPage :
          /\ Handled(app, ShowPage(app, page))
          /\ ShowPage(app, page).refresh = app.refresh
          /\ ShowPage(app, page).running = app.running
    BY PageShown
  <2>2. /\ Handled(app, OpenAccountPage(app))
        /\ OpenAccountPage(app).refresh = app.refresh
        /\ OpenAccountPage(app).running = app.running
    BY AccountOpened
  <2>3. Handled(app, [app EXCEPT !.modal = TRUE])
    BY SetModal, Values
  <2>4. /\ Handled(app, Banner(app))
        /\ Handled(app, Banner(ShowPage(app, "notifications")))
    BY <2>1, BannerHandled, BannerNext DEF ResultPage
  <2>5. {"search", "label", "saved", "notifications"} \subseteq ResultPage
    BY DEF ResultPage
  <2>6. /\ Handled(app, app')
        /\ ~RefreshesAfter(q.do) =>
              app'.refresh = app.refresh /\ app'.running = app.running
    BY <1>0, <1>13, <2>1, <2>2, <2>3, <2>4, <2>5 DEF OpenPage, RefreshesAfter
  <2> QED  BY <1>13, <2>6 DEF OpenPage
<1>14. CASE CompleteOnboarding(q)
  <2>1. [db EXCEPT !.activated = TRUE] \in DbType
    BY Zenon DEF DbType
  <2> QED  BY <1>14, <2>1, BannerHandled DEF CompleteOnboarding, RefreshesAfter
<1>15. CASE LoadMore(q)
  <2>1. ASSUME NEW page \in ResultPage, app' = AppendPage(app, page)
        PROVE  /\ Handled(app, app')
               /\ app'.refresh = app.refresh /\ app'.running = app.running
    BY <2>1, PageShown DEF AppendPage
  <2>2. Handled(app, app)
    BY DEF Handled
  <2> QED  BY <1>15, <2>1, <2>2 DEF LoadMore
<1> QED  BY <1>1, <1>2, <1>3, <1>4, <1>5, <1>6, <1>7, <1>8, <1>9, <1>10,
            <1>11, <1>12, <1>13, <1>14, <1>15 DEF Perform
-----------------------------------------------------------------------------
(* The invariant                                                           *)

\* Queued actions fit, and before activation there is one to ask for only.
ActionsFit ==
    /\ app.actions \in Seq(FittingAction)
    /\ queue \in Seq(FittingAction)

\* The rows on the page are those of the selection, or a refresh is under way
\* that will read them before they are drawn.
RowsCurrent ==
    app.running =>
        /\ phase = "input" => Current(app)
        /\ phase = "act" => needs_refresh \/ (~app.refresh /\ Loaded(app))
        /\ phase = "draw" => Loaded(app)

OnboardingWaits ==
    /\ app.activated => db.activated
    /\ ~app.activated => Waiting(app) /\ queue \in Seq(OnboardingAction)
    /\ ~app.activated /\ phase = "input" =>
          /\ screen.mode = "onboarding"
          /\ screen.place = None /\ screen.menu = None /\ screen.confirm = None

ClientInv ==
    /\ ClientTypeOK /\ screen \in ScreenType /\ ActionsFit
    /\ ConversationExclusive
    /\ RowsCurrent /\ OnboardingWaits

LEMMA InvSound == ASSUME ClientInv PROVE Sound(app) /\ db \in DbType
BY DEF ClientInv, ClientTypeOK, ActionsFit, ConversationExclusive, Sound,
   Exclusive

\* A sound App in a typed database, the rest typed.
LEMMA SoundInv ==
    ASSUME Sound(app)', (db \in DbType)', (phase \in {"input", "act", "settle",
           "draw", "gone"})',
           (queue \in Seq(FittingAction))', (needs_refresh \in BOOLEAN)',
           (screen \in ScreenType)', RowsCurrent', OnboardingWaits'
    PROVE  ClientInv'
<1>1. app' \in AppType /\ app'.actions \in Seq(FittingAction) /\ Exclusive(app)'
  BY DEF Sound
<1>2. FittingAction \subseteq Action
  BY DEF FittingAction
<1>3. queue' \in Seq(Action)
  BY <1>2
<1> QED  BY <1>1, <1>3
         DEF ClientInv, ClientTypeOK, ActionsFit, ConversationExclusive, Exclusive

LEMMA EmptySound ==
    /\ Sound(Empty) /\ Waiting(Empty)
    /\ Empty.running = TRUE /\ Empty.refresh = FALSE
<1>1. /\ << >> \in Seq(Action)
      /\ << >> \in Seq(FittingAction)
      /\ << >> \in Seq(OnboardingAction)
  BY EmptySeq
<1>2. {} \in SUBSET Channel /\ {} \in SUBSET Dm
  OBVIOUS
<1>3. Empty \in AppType
  BY <1>1, <1>2, Values, Zenon DEF Empty, AppType, Mode, Pane
<1>4. /\ Empty.dm = None /\ Empty.thread = None /\ Empty.modal = FALSE
      /\ Empty.menu = None
      /\ Empty.confirm = None /\ Empty.actions = << >> /\ Empty.running = TRUE
      /\ Empty.refresh = FALSE
  BY DEF Empty
<1> QED  BY <1>1, <1>3, <1>4 DEF Sound, Exclusive, Waiting

LEMMA DrawnType ==
    ASSUME NEW a, Sound(a)
    PROVE  Drawn(a) \in ScreenType
<1>1. /\ Shown(a) \in Place \cup {None} /\ a.threads \in Seq(Thread)
      /\ a.menu \in Place \cup {None} /\ a.confirm \in Place \cup {None}
      /\ a.mode \in Mode
  BY ShownType, FieldTypes
<1>2. ToSet(a.threads) \subseteq Thread
  BY <1>1, MembersOfSequence
<1>3. /\ DrawnPlace(a) \in Place \cup {None} /\ DrawnPage(a) \in Page \cup {"none"}
      /\ DrawnThreads(a) \in SUBSET Thread /\ DrawnMode(a) \in Mode \cup {"onboarding"}
      /\ DrawnMenu(a) \in Place \cup {None} /\ DrawnConfirm(a) \in Place \cup {None}
  BY <1>1, <1>2
     DEF DrawnPlace, DrawnPage, DrawnThreads, DrawnMode, DrawnMenu, DrawnConfirm
<1> QED  BY <1>3 DEF Drawn, ScreenType

LEMMA DrawnOnboarding ==
    ASSUME NEW a, ~a.activated
    PROVE  /\ Drawn(a).mode = "onboarding" /\ Drawn(a).place = None
           /\ Drawn(a).menu = None /\ Drawn(a).confirm = None
BY DEF Drawn, DrawnPlace, DrawnMode, DrawnMenu, DrawnConfirm

LEMMA ClientInitially == ClientInit => ClientInv
<1> SUFFICES ASSUME ClientInit PROVE ClientInv
  OBVIOUS
<1>1. db \in DbType
  <2>1. PICK activated \in BOOLEAN, recent \in Posted :
          db = [activated |-> activated, joined |-> Channel, recent |-> recent,
                unused |-> Thread \ ToSet(recent), talks |-> Dm]
    BY DEF ClientInit
  <2>2. recent \in Seq(Thread)
    BY PostedAssumption
  <2> QED  BY <2>1, <2>2 DEF DbType
<1>2. PICK f : f = Snapshot(Empty)
  OBVIOUS
<1>3. Fetched(Empty, f)
  BY <1>1, <1>2, EmptySound, SnapshotFetched
<1>4. PICK y : y = SyncRoute(f)
  OBVIOUS
<1>5. f \in AppType
  BY <1>3 DEF Fetched
<1>6. /\ y \in AppType
      /\ y.channel = f.channel /\ y.thread = f.thread /\ y.dm = f.dm
      /\ y.threads = f.threads /\ y.comments = f.comments
      /\ y.messages = f.messages
      /\ y.actions = f.actions /\ y.running = f.running /\ y.modal = f.modal
      /\ y.menu = f.menu /\ y.confirm = f.confirm /\ y.activated = f.activated
      /\ y.route = IF f.dm # None THEN "dms"
                   ELSE IF f.route \notin Page /\ f.channel # None THEN f.channel
                        ELSE f.route
  BY <1>4, <1>5, SyncRouted
<1>7. Fetched(Empty, y)
  BY <1>3, <1>6, FetchedBeside
<1> DEFINE n == [y EXCEPT !.route = "notifications", !.pane = "detail"]
<1>8. "notifications" \in Route
  BY Values
<1>9. n \in AppType
  BY <1>6, <1>8, Values, Zenon DEF AppType, Pane
<1>10. /\ n.channel = y.channel /\ n.thread = y.thread /\ n.dm = y.dm
       /\ n.threads = y.threads /\ n.comments = y.comments
       /\ n.messages = y.messages
       /\ n.actions = y.actions /\ n.running = y.running /\ n.modal = y.modal
       /\ n.menu = y.menu /\ n.confirm = y.confirm /\ n.activated = y.activated
       /\ n.route = "notifications"
  BY <1>6, Zenon DEF AppType
<1>11. app = IF db.activated THEN n ELSE y
  BY <1>2, <1>4 DEF ClientInit
<1> HIDE DEF n
<1>12. Fetched(Empty, n)
  BY <1>7, <1>9, <1>10, FetchedBeside
<1>13. Fetched(Empty, app) /\ app.activated = db.activated
  BY <1>7, <1>11, <1>12 DEF Fetched
<1>14. Sound(app)
  BY <1>13, EmptySound DEF Sound, Fetched
<1>15. app.route \in Channel => app.channel = app.route
  <2>1. "notifications" \notin Channel /\ "dms" \notin Channel
    BY IdsAssumption
  <2>2. f.route = "dms"
    BY <1>1, <1>2, EmptySound, SnapshotFetched DEF Empty
  <2> QED  BY <1>6, <1>10, <1>11, <2>1, <2>2
<1>16. Loaded(app)
  BY <1>13, <1>15 DEF Loaded, Fetched
<1>17. ~app.activated => Waiting(app)
  BY <1>13, EmptySound DEF Fetched, Waiting
<1>18. /\ phase = "draw" /\ queue = << >> /\ needs_refresh = FALSE /\ screen = Drawn(app)
  BY DEF ClientInit
<1>19. screen \in ScreenType
  BY <1>14, <1>18, DrawnType
<1>20. /\ << >> \in Seq(Action)
       /\ << >> \in Seq(FittingAction)
       /\ << >> \in Seq(OnboardingAction)
  BY EmptySeq
<1> QED  BY <1>1, <1>13, <1>14, <1>16, <1>17, <1>18, <1>19, <1>20
         DEF ClientInv, ClientTypeOK, ActionsFit, ConversationExclusive, RowsCurrent,
             OnboardingWaits, Sound, Exclusive

LEMMA InputInv == ASSUME ClientInv, Input PROVE ClientInv'
<1>1. Sound(app) /\ db \in DbType /\ screen \in ScreenType
  BY InvSound DEF ClientInv
<1>2. PICK b \in HandleKey(app) \cup HandleMouse(app) : b = app'
  BY DEF Input
<1>3. Handled(app, b)
  BY <1>1, KeyHandled, MouseHandled DEF AllHandled
<1>4. Sound(b) /\ (Current(app) => Current(b)) /\ b.activated = app.activated
  BY <1>3 DEF Handled
<1>5. ~app.activated => Waiting(b)
  BY <1>1, WaitingKeys, WaitingMouse DEF ClientInv, OnboardingWaits, Input
<1>6. UNCHANGED <<db, phase, queue, needs_refresh, screen>> /\ phase = "input" /\ app.running
  BY DEF Input
<1>7. (phase \in {"input", "act", "settle", "draw", "gone"} /\ needs_refresh \in BOOLEAN
       /\ queue \in Seq(FittingAction))'
  BY <1>6 DEF ClientInv, ClientTypeOK, ActionsFit
<1>8. RowsCurrent'
  BY <1>2, <1>4, <1>6 DEF ClientInv, RowsCurrent, Current, Loaded
<1>9. OnboardingWaits'
  BY <1>2, <1>4, <1>5, <1>6 DEF ClientInv, OnboardingWaits, Waiting
<1>10. Sound(app)'
  BY <1>2, <1>4 DEF Sound, Exclusive
<1> QED  BY <1>1, <1>6, <1>7, <1>8, <1>9, <1>10, SoundInv

LEMMA TakeActionsInv == ASSUME ClientInv, TakeActions PROVE ClientInv'
<1>1. Sound(app) /\ db \in DbType /\ screen \in ScreenType
  BY InvSound DEF ClientInv
<1>2. PICK a : a = app
  OBVIOUS
<1>3. a \in AppType /\ a.actions \in Seq(FittingAction) /\ Exclusive(a)
  BY <1>1, <1>2, FieldTypes
<1> DEFINE b == [a EXCEPT !.actions = << >>, !.refresh = FALSE]
<1>4. /\ << >> \in Seq(Action)
      /\ << >> \in Seq(FittingAction)
      /\ << >> \in Seq(OnboardingAction)
  BY EmptySeq
<1>5. b \in AppType
  BY <1>3, <1>4, Values, Zenon DEF AppType
<1>6. /\ b.route = a.route /\ b.channel = a.channel /\ b.thread = a.thread
      /\ b.dm = a.dm
      /\ b.threads = a.threads /\ b.comments = a.comments
      /\ b.messages = a.messages
      /\ b.running = a.running /\ b.modal = a.modal /\ b.menu = a.menu
      /\ b.confirm = a.confirm /\ b.activated = a.activated
      /\ b.refresh = FALSE /\ b.actions = << >>
  BY <1>3, Zenon DEF AppType
<1>7. /\ app' = b /\ queue' = a.actions /\ UNCHANGED <<db, screen>>
      /\ phase = "input" /\ phase' = IF a.running THEN "act" ELSE "gone"
      /\ needs_refresh' \in BOOLEAN /\ (a.refresh => needs_refresh')
  <2>1. \E live \in BOOLEAN : needs_refresh' = (live \/ a.refresh)
    BY <1>2 DEF TakeActions
  <2>2. /\ app' = b /\ queue' = a.actions /\ UNCHANGED <<db, screen>>
        /\ phase = "input" /\ phase' = IF a.running THEN "act" ELSE "gone"
    BY <1>2 DEF TakeActions
  <2> QED  BY <2>1, <2>2
<1> HIDE DEF b
<1>8. Sound(b)
  BY <1>3, <1>4, <1>5, <1>6 DEF Sound, Exclusive
<1>9. Loaded(a) => Loaded(b)
  BY <1>6 DEF Loaded
<1>10. RowsCurrent'
  BY <1>2, <1>6, <1>7, <1>9 DEF ClientInv, RowsCurrent, Current, Loaded
<1>11. OnboardingWaits'
  BY <1>2, <1>4, <1>6, <1>7 DEF ClientInv, OnboardingWaits, Waiting
<1>12. Sound(app)'
  BY <1>7, <1>8 DEF Sound, Exclusive
<1>13. (phase \in {"input", "act", "settle", "draw", "gone"} /\ queue \in Seq(FittingAction))'
  BY <1>3, <1>7
<1> QED  BY <1>1, <1>7, <1>10, <1>11, <1>12, <1>13, SoundInv

LEMMA ProcessActionInv == ASSUME ClientInv, ProcessAction PROVE ClientInv'
<1>1. Sound(app) /\ db \in DbType /\ screen \in ScreenType
  BY InvSound DEF ClientInv
<1>2. /\ phase = "act" /\ queue # << >> /\ Perform(Head(queue)) /\ queue' = Tail(queue)
      /\ phase' = IF RefreshesAfter(Head(queue).do) THEN "settle" ELSE "act"
      /\ UNCHANGED <<needs_refresh, screen>>
  BY DEF ProcessAction
<1>3. queue \in Seq(FittingAction) /\ Head(queue) \in FittingAction
      /\ Tail(queue) \in Seq(FittingAction)
  BY <1>2, HeadTailProperties DEF ClientInv, ActionsFit
<1>4. PICK q \in FittingAction : q = Head(queue)
  BY <1>3
<1>5. /\ Handled(app, app') /\ db' \in DbType
      /\ db.activated => db'.activated
      /\ ~RefreshesAfter(q.do) =>
            app'.refresh = app.refresh /\ app'.running = app.running
      /\ q.do = "CompleteOnboarding" /\ Waiting(app) => Waiting(app')
  BY <1>1, <1>2, <1>4, Performed
<1>6. PICK b : b = app'
  OBVIOUS
<1>7. Sound(b) /\ (Current(app) => Current(b)) /\ b.activated = app.activated
  BY <1>5, <1>6 DEF Handled
<1>8. RowsCurrent'
  <2>1. CASE RefreshesAfter(q.do)
    BY <1>2, <1>4, <2>1 DEF RowsCurrent
  <2>2. CASE ~RefreshesAfter(q.do)
    <3>1. b.refresh = app.refresh /\ b.running = app.running /\ phase' = "act"
      BY <1>2, <1>4, <1>5, <1>6, <2>2
    <3>2. app.running => needs_refresh \/ (~app.refresh /\ Loaded(app))
      BY <1>2 DEF ClientInv, RowsCurrent
    <3>3. b.running => needs_refresh \/ (~b.refresh /\ Loaded(b))
      BY <1>7, <3>1, <3>2 DEF Current
    <3> QED  BY <1>2, <1>6, <3>1, <3>3 DEF RowsCurrent, Loaded
  <2> QED  BY <2>1, <2>2
<1>9. OnboardingWaits'
  <2>1. app.activated => db.activated
    BY DEF ClientInv, OnboardingWaits
  <2>2. ASSUME ~app.activated
        PROVE  Waiting(b) /\ Tail(queue) \in Seq(OnboardingAction)
    <3>1. Waiting(app) /\ queue \in Seq(OnboardingAction)
      BY <2>2 DEF ClientInv, OnboardingWaits
    <3>2. Head(queue) \in OnboardingAction /\ Tail(queue) \in Seq(OnboardingAction)
      BY <1>2, <3>1, HeadTailProperties
    <3>3. q.do = "CompleteOnboarding"
      BY <1>4, <3>2 DEF OnboardingAction
    <3> QED  BY <1>5, <1>6, <3>1, <3>2, <3>3
  <2>3. phase' # "input"
    BY <1>2
  <2> QED  BY <1>2, <1>5, <1>6, <1>7, <2>1, <2>2, <2>3 DEF OnboardingWaits,
              Waiting
<1>10. Sound(app)'
  BY <1>6, <1>7 DEF Sound, Exclusive
<1>11. (phase \in {"input", "act", "settle", "draw", "gone"} /\ needs_refresh \in BOOLEAN
        /\ queue \in Seq(FittingAction) /\ screen \in ScreenType)'
  BY <1>1, <1>2, <1>3 DEF ClientInv, ClientTypeOK
<1> QED  BY <1>5, <1>8, <1>9, <1>10, <1>11, SoundInv

LEMMA StoppedHandled ==
    ASSUME NEW a, Sound(a)
    PROVE  /\ Handled(a, [a EXCEPT !.running = FALSE])
           /\ [a EXCEPT !.running = FALSE].running = FALSE
           /\ Shown([a EXCEPT !.running = FALSE]) = Shown(a)
           /\ Waiting(a) => Waiting([a EXCEPT !.running = FALSE])
<1> DEFINE b == [a EXCEPT !.running = FALSE]
<1>1. a \in AppType /\ Handled(a, b)
  BY FieldTypes, SetRunning, Values
<1>2. /\ b.running = FALSE
      /\ b.route = a.route /\ b.dm = a.dm /\ b.thread = a.thread
      /\ b.modal = a.modal
      /\ b.menu = a.menu /\ b.confirm = a.confirm /\ b.actions = a.actions
  BY <1>1, Zenon DEF AppType
<1>3. Shown(b) = Shown(a)
  BY <1>2, Zenon DEF Shown
<1>4. Waiting(a) => Waiting(b)
  BY <1>2 DEF Waiting
<1> QED  BY <1>1, <1>2, <1>3, <1>4

\* perform_refresh, read well or not.
LEMMA RefreshInv ==
    ASSUME ClientInv, PerformRefresh
    PROVE  /\ Sound(app') /\ (app'.running => Loaded(app') /\ ~app'.refresh)
           /\ app'.activated => db.activated
           /\ ~app'.activated => ~app.activated /\ Waiting(app')
<1>1. Sound(app) /\ db \in DbType /\ (app.activated => db.activated)
      /\ (~app.activated => Waiting(app))
  BY InvSound DEF ClientInv, OnboardingWaits
<1>2. PICK b : b = app'
  OBVIOUS
<1>3. CASE b = [app EXCEPT !.running = FALSE]
  BY <1>1, <1>2, <1>3, StoppedHandled DEF Handled
<1>4. CASE b \in Refresh(app)
  <2>1. Fetched(app, b) /\ Sound(b) /\ Loaded(b) /\ b.refresh = FALSE
    BY <1>1, <1>4, Refreshed
  <2>2. b.activated = db.activated
    BY <2>1 DEF Fetched
  <2>3. ~b.activated => ~app.activated /\ Waiting(b)
    BY <1>1, <2>1, <2>2 DEF Fetched, Waiting
  <2> QED  BY <1>2, <2>1, <2>2, <2>3
<1> QED  BY <1>2, <1>3, <1>4 DEF PerformRefresh

LEMMA SettleInv == ASSUME ClientInv, Settle PROVE ClientInv'
<1>1. Sound(app) /\ db \in DbType /\ screen \in ScreenType
  BY InvSound DEF ClientInv
<1>2. PerformRefresh /\ phase' = "act" /\ UNCHANGED <<db, queue, needs_refresh, screen>>
  BY DEF Settle
<1>3. PICK b : b = app'
  OBVIOUS
<1>4. /\ Sound(b) /\ (b.running => Loaded(b) /\ ~b.refresh)
      /\ b.activated => db.activated
      /\ ~b.activated => ~app.activated /\ Waiting(b)
  BY <1>2, <1>3, RefreshInv
<1>5. RowsCurrent'
  BY <1>2, <1>3, <1>4 DEF RowsCurrent, Loaded
<1>6. OnboardingWaits'
  BY <1>2, <1>3, <1>4 DEF ClientInv, OnboardingWaits, Waiting
<1>7. Sound(app)'
  BY <1>3, <1>4 DEF Sound, Exclusive
<1>8. (phase \in {"input", "act", "settle", "draw", "gone"} /\ needs_refresh \in BOOLEAN
       /\ queue \in Seq(FittingAction))'
  BY <1>2 DEF ClientInv, ClientTypeOK, ActionsFit
<1> QED  BY <1>1, <1>2, <1>5, <1>6, <1>7, <1>8, SoundInv

LEMMA FinishActionsInv == ASSUME ClientInv, FinishActions PROVE ClientInv'
<1>1. Sound(app) /\ db \in DbType /\ screen \in ScreenType
  BY InvSound DEF ClientInv
<1>2. /\ phase = "act" /\ phase' = "draw"
      /\ IF needs_refresh THEN PerformRefresh ELSE UNCHANGED app
      /\ UNCHANGED <<db, queue, needs_refresh, screen>>
  BY DEF FinishActions
<1>3. PICK b : b = app'
  OBVIOUS
<1>4. /\ Sound(b) /\ (b.running => Loaded(b))
      /\ b.activated => db.activated
      /\ ~b.activated => ~app.activated /\ Waiting(b)
  <2>1. CASE needs_refresh
    BY <1>2, <1>3, <2>1, RefreshInv
  <2>2. CASE ~needs_refresh
    BY <1>1, <1>2, <1>3, <2>2 DEF ClientInv, RowsCurrent, OnboardingWaits
  <2> QED  BY <2>1, <2>2
<1>5. RowsCurrent'
  BY <1>2, <1>3, <1>4 DEF RowsCurrent, Loaded
<1>6. OnboardingWaits'
  BY <1>2, <1>3, <1>4 DEF ClientInv, OnboardingWaits, Waiting
<1>7. Sound(app)'
  BY <1>3, <1>4 DEF Sound, Exclusive
<1>8. (phase \in {"input", "act", "settle", "draw", "gone"} /\ needs_refresh \in BOOLEAN
       /\ queue \in Seq(FittingAction))'
  BY <1>2 DEF ClientInv, ClientTypeOK, ActionsFit
<1> QED  BY <1>1, <1>2, <1>5, <1>6, <1>7, <1>8, SoundInv

LEMMA DrawInv == ASSUME ClientInv, Draw PROVE ClientInv'
<1>1. Sound(app) /\ db \in DbType /\ screen \in ScreenType
  BY InvSound DEF ClientInv
<1>2. /\ phase = "draw" /\ UNCHANGED <<db, app, queue>>
      /\ needs_refresh' = FALSE
      /\ IF app.running THEN phase' = "input" /\ screen' = Drawn(app)
         ELSE phase' = "gone" /\ UNCHANGED screen
  BY DEF Draw
<1>3. screen' \in ScreenType
  BY <1>1, <1>2, DrawnType
<1>4. RowsCurrent'
  BY <1>2 DEF ClientInv, RowsCurrent, Current, Loaded
<1>5. OnboardingWaits'
  BY <1>2, DrawnOnboarding DEF ClientInv, OnboardingWaits, Waiting
<1>6. Sound(app)'
  BY <1>1, <1>2 DEF Sound, Exclusive
<1>7. (phase \in {"input", "act", "settle", "draw", "gone"} /\ needs_refresh \in BOOLEAN
       /\ queue \in Seq(FittingAction))'
  BY <1>2 DEF ClientInv, ActionsFit
<1> QED  BY <1>1, <1>2, <1>3, <1>4, <1>5, <1>6, <1>7, SoundInv

LEMMA ChangeInv == ASSUME ClientInv, Change PROVE ClientInv'
<1>1. Sound(app) /\ db \in DbType /\ screen \in ScreenType
  BY InvSound DEF ClientInv
<1>2. UNCHANGED <<app, phase, queue, needs_refresh, screen>>
  BY DEF Change
<1>3. db' \in DbType /\ db'.activated = db.activated
  <2>1. ASSUME NEW t \in ToSet(db.recent),
               db' \in Moved(t) \cup {[db EXCEPT !.recent = Among(@, Thread \ {t})]}
        PROVE  db' \in DbType /\ db'.activated = db.activated
    <3>1. t \in Thread
      BY <1>1, MembersOfSequence DEF DbType
    <3>2. CASE db' \in Moved(t)
      BY <1>1, <3>1, <3>2, MovedTyped
    <3>3. CASE db' = [db EXCEPT !.recent = Among(@, Thread \ {t})]
      BY <1>1, <3>1, <3>3, MovedTyped
    <3> QED  BY <2>1, <3>2, <3>3
  <2>2. ASSUME NEW t \in db.unused, NEW moved \in Moved(t),
               db' = [moved EXCEPT !.unused = @ \ {t}]
        PROVE  db' \in DbType /\ db'.activated = db.activated
    <3>1. t \in Thread
      BY <1>1 DEF DbType
    <3>2. moved \in DbType /\ moved.activated = db.activated
      BY <1>1, <3>1, MovedTyped
    <3> QED  BY <2>2, <3>2 DEF DbType
  <2>3. ASSUME NEW c \in db.joined, db' = [db EXCEPT !.joined = @ \ {c}]
        PROVE  db' \in DbType /\ db'.activated = db.activated
    BY <1>1, <2>3 DEF DbType
  <2>4. ASSUME NEW d \in db.talks, db' = [db EXCEPT !.talks = @ \ {d}]
        PROVE  db' \in DbType /\ db'.activated = db.activated
    BY <1>1, <2>4 DEF DbType
  <2> QED  BY <2>1, <2>2, <2>3, <2>4 DEF Change
<1>4. RowsCurrent'
  BY <1>2 DEF ClientInv, RowsCurrent, Current, Loaded
<1>5. OnboardingWaits'
  BY <1>2, <1>3 DEF ClientInv, OnboardingWaits, Waiting
<1>6. Sound(app)'
  BY <1>1, <1>2 DEF Sound, Exclusive
<1>7. (phase \in {"input", "act", "settle", "draw", "gone"} /\ needs_refresh \in BOOLEAN
       /\ queue \in Seq(FittingAction) /\ screen \in ScreenType)'
  BY <1>1, <1>2 DEF ClientInv, ClientTypeOK, ActionsFit
<1> QED  BY <1>2, <1>3, <1>4, <1>5, <1>6, <1>7, SoundInv

LEMMA ClientStep == ClientInv /\ [ClientNext]_client_vars => ClientInv'
<1> SUFFICES ASSUME ClientInv, [ClientNext]_client_vars PROVE ClientInv'
  OBVIOUS
<1>1. CASE UNCHANGED client_vars
  <2>1. UNCHANGED <<db, app, phase, queue, needs_refresh, screen>>
    BY <1>1 DEF client_vars
  <2>2. Sound(app)' /\ RowsCurrent' /\ OnboardingWaits'
    BY <2>1, InvSound DEF ClientInv, Sound, Exclusive, RowsCurrent, Current,
       Loaded,
       OnboardingWaits, Waiting
  <2>3. (phase \in {"input", "act", "settle", "draw", "gone"} /\ needs_refresh \in BOOLEAN
         /\ queue \in Seq(FittingAction) /\ screen \in ScreenType
         /\ db \in DbType)'
    BY <2>1 DEF ClientInv, ClientTypeOK, ActionsFit
  <2> QED  BY <2>2, <2>3, SoundInv
<1> QED  BY <1>1, InputInv, TakeActionsInv, ProcessActionInv, SettleInv,
            FinishActionsInv,
            DrawInv, ChangeInv DEF ClientNext
-----------------------------------------------------------------------------
\* Every variable of a session keeps its type, whatever channels, threads and
\* conversations there are and whatever keys, clicks and answers come.
THEOREM ClientTypeCorrect == ClientSpec => []ClientTypeOK
<1>1. ClientInv => ClientTypeOK
  BY DEF ClientInv
<1> QED  BY <1>1, ClientInitially, ClientStep, PTL DEF ClientSpec

\* A selected conversation excludes a channel, its threads and a thread after
\* every key, click, action and refresh (app/lifecycle.rs, app/navigation.rs).
THEOREM SelectionExclusive == ClientSpec => []ConversationExclusive
<1>1. ClientInv => ConversationExclusive
  BY DEF ClientInv
<1> QED  BY <1>1, ClientInitially, ClientStep, PTL DEF ClientSpec

\* No frame is drawn with the title of one place over the rows of another: what
\* a handler leaves without its rows it also asks for again (refresh_requested),
\* and render_once reads them before it draws.
THEOREM PagesShowSelections == ClientSpec => []PageIsSelection
<1>1. ClientInv => PageIsSelection
  BY DEF ClientInv, RowsCurrent, Loaded, PageIsSelection
<1> QED  BY <1>1, ClientInitially, ClientStep, PTL DEF ClientSpec

\* No refresh takes the user off a place that is still in its list
\* (snapshot_with_history_limit, sync_route_from_snapshot, apply_refresh).
THEOREM RefreshesKeepPlaces == ClientSpec => RefreshKeepsPlace
<1>1. ClientInv /\ [ClientNext]_client_vars =>
        [(Settle \/ FinishActions) /\ Listed(Shown(app)) => Shown(app') = Shown(app)]_client_vars
  <2> SUFFICES ASSUME ClientInv, Settle \/ FinishActions, Listed(Shown(app))
               PROVE  Shown(app') = Shown(app)
    OBVIOUS
  <2>1. Sound(app) /\ db \in DbType
    BY InvSound
  <2>2. app.activated /\ db.activated
    <3>1. Shown(app) # None
      <4>1. None \notin db.talks
        BY <2>1, NoneAssumption DEF DbType
      <4>2. None \notin ToSet(ThreadsOf(app.channel))
        BY <2>1, ThreadsTyped, NoneAssumption
      <4> QED  BY <4>1, <4>2 DEF Listed
    <3>2. ASSUME ~app.activated PROVE FALSE
      <4>1. app.dm = None /\ app.thread = None
        BY <3>2 DEF ClientInv, OnboardingWaits, Waiting
      <4> QED  BY <3>1, <4>1 DEF Shown
    <3> QED  BY <3>2 DEF ClientInv, OnboardingWaits
  <2>3. ASSUME PerformRefresh PROVE Shown(app') = Shown(app)
    <3>1. PICK b : b = app'
      OBVIOUS
    <3>2. CASE b \in Refresh(app)
      BY <2>1, <2>2, <3>1, <3>2, PlaceKept DEF Shown
    <3>3. CASE b = [app EXCEPT !.running = FALSE]
      BY <2>1, <3>1, <3>3, StoppedHandled DEF Shown
    <3> QED  BY <2>3, <3>1, <3>2, <3>3 DEF PerformRefresh
  <2>4. ASSUME UNCHANGED app PROVE Shown(app') = Shown(app)
    BY <2>4 DEF Shown
  <2> QED  BY <2>3, <2>4 DEF Settle, FinishActions
<1> QED  BY <1>1, ClientInitially, ClientStep, PTL DEF ClientSpec,
            RefreshKeepsPlace
=============================================================================
