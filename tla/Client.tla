------------------------------- MODULE Client -------------------------------
(* One session's App and its render task: the keys and clicks of a frame      *)
(* are handled against the selection of the moment, the actions they queue    *)
(* run afterwards against the selection found then, a refresh re-reads the    *)
(* database and may move the selection, and only then is the frame drawn.     *)
(* A handler of App (a `&mut self` method) is an operator from the App to the *)
(* App, or to the set of Apps it may leave when the outcome depends on text   *)
(* the model does not keep.                                                   *)
EXTENDS Naturals, Sequences, FiniteSets, SequencesExt

CONSTANTS
    Channel, Thread, Dm,  \* ids of channels, threads and conversations
    None,                 \* no id
    Home,                 \* the channel of a thread
    Order,                \* the channels as load_channels orders them
    Posted,               \* the threads a session may find, as load_threads orders them
    ThreadLimit,          \* threads of a channel that load_threads lists (200)
    MaxInputs,            \* bound: keys and clicks of the session
    MaxChanges            \* bound: changes other accounts make

ASSUME HomeAssumption == Home \in [Thread -> Channel]
ASSUME OrderAssumption == Order \in Seq(Channel) /\ ToSet(Order) = Channel
ASSUME PostedAssumption == Posted \subseteq Seq(Thread)
ASSUME LimitAssumption == ThreadLimit \in Nat \ {0}
ASSUME NoneAssumption == None \notin Channel \cup Thread \cup Dm
ASSUME BoundsAssumption == MaxInputs \in Nat /\ MaxChanges \in Nat
ASSUME IdsAssumption ==
    /\ Channel \cap Thread = {} /\ Channel \cap Dm = {} /\ Thread \cap Dm = {}
    /\ (Channel \cup Thread \cup Dm)
         \cap {"dms", "account", "search", "label", "saved", "notifications"} = {}

Place == Thread \cup Dm
ResultPage == {"search", "label", "saved", "notifications"}
Page == ResultPage \cup {"account"}
Route == Channel \cup {"dms"} \cup Page

VARIABLES
    db,      \* what this account may see: whether it is activated, the channels
             \* joined, the threads not deleted (in load_threads' order), the ids
             \* no thread has had, the conversations with an enabled peer
    app,     \* the App
    phase,   \* where render_once is
    queue,   \* actions taken from the App and not yet processed
    needs_refresh,
    screen,  \* what the last frame drew and a click can hit
    effect,  \* history: what this frame last sent, deleted, saved or reacted
             \* to: where that was shown when it was asked for, where it is done
    inputs, changes  \* bounded counters

client_vars == <<db, app, phase, queue, needs_refresh, screen, effect, inputs, changes>>

(* Actions that do the same to this state share a name: EditComment is        *)
(* DeleteComment, SetChannelArchived is LeaveChannel, CreateChannel is        *)
(* JoinChannel, ArchiveNotifications is MarkNotificationRead, a report or a   *)
(* setting is ListChannels.                                                   *)
ActionName == {"AddComment", "SendDm", "DeleteComment", "DeleteDm", "SetMessageSaved",
    "React", "DeleteThread", "MarkThreadRead", "MarkDmRead", "NextUnread", "OpenDm",
    "JoinChannel", "LeaveChannel", "CreateThread", "OpenSourceTarget", "Search",
    "OpenLabel", "ListSaved", "ListNotifications", "MarkNotificationRead",
    "OpenAccount", "LoadMore", "CompleteOnboarding", "ListChannels"}

(* Those that name no place and act on the selection they find. `shown` is    *)
(* history: the place on the page when one of them was asked for.             *)
Addressed == {"AddComment", "SendDm", "DeleteComment", "DeleteDm", "SetMessageSaved",
    "React", "DeleteThread"}
Action == [do : ActionName, to : Channel \cup Place \cup {None}, shown : Place \cup {None}]

(* Whether process_action refreshes once the action is done.                  *)
RefreshesAfter(name) == name \notin
    {"LoadMore", "Search", "OpenLabel", "OpenAccount", "ListSaved", "ListNotifications"}

----------------------------------------------------------------------------
(* Selections.                                                                *)

(* The thread or conversation the page of the App shows.                      *)
Shown(a) ==
    CASE a.route = "dms" -> a.dm
      [] a.route \in Channel -> a.thread
      [] OTHER -> None

Queue(a, name, to, shown) ==
    [a EXCEPT !.actions = Append(@, [do |-> name, to |-> to,
        shown |-> IF name \in Addressed THEN shown ELSE None])]
Push(a, name, to) == Queue(a, name, to, Shown(a))

ClearChannelSource(a) ==
    [a EXCEPT !.channel = None, !.thread = None, !.threads = <<>>, !.comments = None]
ClearConversationSource(a) == [a EXCEPT !.dm = None, !.messages = None]
ClearActiveSource(a) == ClearConversationSource(ClearChannelSource(a))

SelectConversationBeside(a, d) ==  \* mutant: leaves the channel selected
    Push([a EXCEPT !.dm = d, !.route = "dms", !.pane = "detail", !.refresh = TRUE],
         "MarkDmRead", None)

(* select_channel.                                                            *)
SelectChannel(a, c) ==
    [ClearConversationSource(a) EXCEPT
        !.channel = c, !.thread = None, !.threads = <<>>, !.comments = None,
        !.route = c, !.pane = "list", !.collapsed = FALSE, !.refresh = TRUE]

(* select_thread: it also asks for the thread to be marked read.              *)
SelectThread(a, c, t) ==
    Push([ClearConversationSource(a) EXCEPT
            !.channel = c, !.thread = t, !.route = c, !.pane = "detail",
            !.collapsed = FALSE, !.refresh = TRUE],
         "MarkThreadRead", None)

SelectConversation(a, d) ==
    Push([ClearChannelSource(a) EXCEPT
            !.dm = d, !.route = "dms", !.pane = "detail", !.refresh = TRUE],
         "MarkDmRead", None)

OpenAccountPage(a) ==
    [ClearActiveSource(a) EXCEPT !.route = "account", !.pane = "detail"]

(* set_*_page: an answer shows its page and drops the selection;              *)
(* the label feed keeps the channel and its threads.                          *)
ShowPage(a, page) ==
    LET kept == IF page = "label" THEN [a EXCEPT !.thread = None, !.dm = None]
                                  ELSE ClearActiveSource(a)
    IN  [kept EXCEPT !.route = page, !.pane = "detail"]

(* append_*: more rows of a page set its route and its selection once more.   *)
AppendPage(a, page) == ShowPage(a, page)

(* The chosen result of a search, a label, the saved messages or the          *)
(* notifications; the rows may be older than the database.                    *)
ActivateResult(a, p) ==
    IF p \in Dm THEN SelectConversation(a, p) ELSE SelectThread(a, Home[p], p)

----------------------------------------------------------------------------
(* The composer and its completions.                                          *)

Draft == {"", "text", "command"}

(* update_completions: whether a popup opens depends on the text.             *)
Completed(a) ==
    {[a EXCEPT !.popup = p] : p \in IF a.draft = "" THEN {FALSE} ELSE BOOLEAN}

Compose(a, draft) == [a EXCEPT !.mode = "workspace", !.draft = draft, !.popup = FALSE]

(* run_command_executor, of a palette entry or of a completion.               *)
SwitchChannel(a, c) ==
    [ClearConversationSource(a) EXCEPT
        !.channel = c, !.thread = None, !.threads = <<>>, !.comments = None,
        !.pane = "list", !.route = c, !.collapsed = FALSE, !.refresh = TRUE]
SwitchDm(a, d) ==
    [ClearChannelSource(a) EXCEPT
        !.dm = d, !.messages = None, !.route = "dms", !.pane = "detail", !.refresh = TRUE]
SwitchThread(a, t) ==
    [ClearConversationSource(a) EXCEPT
        !.thread = t, !.comments = None, !.pane = "detail",
        !.collapsed = FALSE, !.refresh = TRUE]

RunExecutor(b, channels, threads, conversations) ==
    LET a == [b EXCEPT !.mode = "workspace"]
    IN  {Push(a, name, None) : name \in {"MarkThreadRead", "NextUnread", "OpenAccount"}}
        \cup Completed(Compose(a, "command"))
        \cup {SwitchChannel(a, c) : c \in channels}
        \cup {SwitchDm(a, d) : d \in conversations}
        \cup {SwitchThread(a, t) : t \in threads}
        \cup {[a EXCEPT !.mode = m] : m \in {"help", "confirm_quit"}}

(* The entries of the palette date from when it was opened.                   *)
RunPalette(a) == RunExecutor(a, Channel, Thread, Dm)

(* accept_autocomplete_*: the entry runs, or its text goes into the buffer.   *)
AcceptCompletion(a) ==
    (IF a.draft = "command"
     THEN RunExecutor(Compose(a, ""), a.channels, ToSet(a.threads), a.conversations)
     ELSE {})
    \cup Completed(a) \cup {[a EXCEPT !.popup = FALSE]}

(* A command line that names an action, `to` being its argument.              *)
CommandActions(a) ==
    {Push(a, name, None) : name \in {"CreateThread", "DeleteThread", "DeleteComment",
        "DeleteDm", "React", "SetMessageSaved", "LeaveChannel", "Search", "LoadMore",
        "ListChannels", "MarkNotificationRead"}}
    \cup {Push(a, "OpenDm", d) : d \in Dm}
    \cup {Push(a, "JoinChannel", c) : c \in Channel}

(* submit_composer: the buffer is emptied, then a command is dispatched or a  *)
(* message queued for a DM or a thread.                                       *)
SubmitComposer(b) ==
    LET a == Compose(b, "")
    IN  CASE b.draft = "" -> {b}
          [] b.draft = "command" ->
               CommandActions(a)
               \cup {a} \cup {[a EXCEPT !.mode = m] : m \in {"help", "confirm_quit"}}
          [] OTHER ->
               {IF a.route = "dms" \/ (a.pane = "detail" /\ a.dm # None)
                THEN Push(a, "SendDm", None) ELSE Push(a, "AddComment", None)}

----------------------------------------------------------------------------
(* Navigation.                                                                *)

FirstThread(a) ==
    IF a.thread # None THEN a.thread
    ELSE IF a.threads = <<>> THEN None ELSE Head(a.threads)

(* The rows of the workspace list, and the effect of moving on one.           *)
WorkspaceRows(a) ==
    {"notifications", "saved", "account", "label"} \cup a.channels
    \cup (IF a.route \in Channel /\ a.route = a.channel /\ ~a.collapsed
          THEN ToSet(a.threads) ELSE {})
    \cup a.conversations

ApplyRow(a, row) ==
    CASE row \in Channel ->
           LET changed == a.channel # row \/ a.route \notin Channel
               at == [ClearConversationSource(a) EXCEPT
                         !.channel = row, !.route = row, !.pane = "rail"]
           IN  IF changed
               THEN [at EXCEPT !.thread = None, !.threads = <<>>, !.comments = None,
                               !.collapsed = FALSE, !.refresh = TRUE]
               ELSE at
      [] row \in Thread ->
           [ClearConversationSource(a) EXCEPT
               !.thread = row, !.comments = None, !.pane = "list", !.collapsed = FALSE,
               !.route = IF a.channel # None THEN a.channel ELSE @, !.refresh = TRUE]
      [] row \in Dm ->
           LET at == [ClearChannelSource(a) EXCEPT
                         !.dm = row, !.route = "dms", !.pane = "rail"]
           IN  IF a.dm # row THEN [at EXCEPT !.messages = None, !.refresh = TRUE] ELSE at
      [] row = "account" -> OpenAccountPage(a)
      [] row = "label" -> Push(ShowPage(a, "label"), "OpenLabel", None)
      [] row = "saved" -> Push(ShowPage(a, "saved"), "ListSaved", None)
      [] row = "notifications" -> Push(ShowPage(a, "notifications"), "ListNotifications", None)

BackFromDetail(a) ==
    [a EXCEPT !.pane = IF a.thread # None /\ a.route \in Channel THEN "list" ELSE "rail"]

NavigateLeft(a) ==
    CASE a.pane = "detail" -> BackFromDetail(a)
      [] a.pane = "list" -> [a EXCEPT !.pane = "rail"]
      [] OTHER -> IF a.route \in Channel THEN [a EXCEPT !.collapsed = TRUE] ELSE a

(* Into the thread list: the selected thread, or the first, is previewed.     *)
EnterThreads(a) ==
    IF FirstThread(a) = None THEN a ELSE [a EXCEPT !.thread = FirstThread(a), !.pane = "list"]

NavigateRight(a) ==
    CASE a.pane = "detail" -> a
      [] a.pane = "list" \/ a.route \in {"label", "saved", "notifications", "account", "dms"} ->
           [a EXCEPT !.pane = "detail"]
      [] OTHER -> IF a.collapsed THEN [a EXCEPT !.collapsed = FALSE] ELSE EnterThreads(a)

ToggleThreads(a) ==
    IF a.route \notin Channel THEN a
    ELSE [a EXCEPT !.collapsed = ~@, !.pane = IF a.collapsed THEN @ ELSE "rail"]

ToggleDetail(a) ==
    CASE a.pane = "detail" -> BackFromDetail(a)
      [] a.route = "dms" -> Push([a EXCEPT !.pane = "detail"], "MarkDmRead", None)
      [] a.route \in {"label", "saved", "notifications", "account"} ->
           [a EXCEPT !.pane = "detail"]
      [] OTHER ->
           IF FirstThread(a) = None THEN a
           ELSE Push([a EXCEPT !.thread = FirstThread(a), !.pane = "detail"],
                     "MarkThreadRead", None)

(* On a focused field or button of the account page.                          *)
ActivateAccountFocus(a) == {a, Push(a, "ListChannels", None)} \cup Completed(Compose(a, "command"))

ActivateSelection(a) ==
    CASE a.route = "search" \/ (a.route \in ResultPage /\ a.pane = "detail") ->
           {a} \cup {ActivateResult(a, p) : p \in Place}
      [] a.route = "account" /\ a.pane = "detail" -> ActivateAccountFocus(a)
      [] a.pane = "detail" -> {Compose(a, "")}
      [] a.pane = "list" -> {Push([a EXCEPT !.pane = "detail"], "MarkThreadRead", None)}
      [] a.route \in {"dms"} \cup Page -> {[a EXCEPT !.pane = "detail"]}
      [] a.collapsed -> {[a EXCEPT !.collapsed = FALSE]}
      [] OTHER -> {IF FirstThread(a) = None THEN ToggleThreads(a) ELSE EnterThreads(a)}

(* move_workspace: onto a neighbour of the current row, whichever it is.      *)
MoveWorkspace(a) ==
    {ApplyRow(a, row) : row \in WorkspaceRows(a)} \cup {[a EXCEPT !.pane = "rail"]}

(* move_selection, page_detail: in the detail pane a list may ask for more.   *)
MoveSelection(a) ==
    IF a.pane # "detail" /\ a.route # "search" THEN MoveWorkspace(a)
    ELSE {a} \cup (IF a.route \in {"label", "saved", "notifications"}
                   THEN {Push(a, "LoadMore", None)} ELSE {})

----------------------------------------------------------------------------
(* handle_key.                                                                *)

CloseOverlays(a) == [a EXCEPT !.menu = None, !.confirm = None]

(* A confirmed deletion of a message shown at p.                              *)
ConfirmDelete(a, p) ==
    Queue(CloseOverlays(a), IF p \in Dm THEN "DeleteDm" ELSE "DeleteComment", None, p)

(* Typing: the buffer becomes text or a command line, or is emptied.          *)
Typing(a) == UNION {Completed([a EXCEPT !.draft = d]) : d \in Draft}

Shortcuts(a) ==
    UNION {Completed(b) : b \in
        {NavigateLeft(a), NavigateRight(a), ToggleThreads(a),
         Push(a, "NextUnread", None), Push(a, "MarkThreadRead", None),
         Compose(a, "command")}
        \cup {[a EXCEPT !.mode = m] : m \in {"palette", "help", "confirm_quit"}}
        \cup MoveSelection(a) \cup ActivateSelection(a)}

EnterKey(a) ==
    IF a.popup
    THEN AcceptCompletion(a) \cup (IF a.draft = "text" THEN SubmitComposer(a) ELSE {})
    ELSE SubmitComposer(a)

TabKey(a) == IF a.popup THEN AcceptCompletion(a) ELSE {ToggleDetail(a)}

EscapeKey(a) == {IF a.popup THEN [a EXCEPT !.popup = FALSE] ELSE Compose(a, "")}

(* The account page captures the keys of its detail pane.                     *)
AccountKey(a) == {a, Compose(a, "")} \cup ActivateAccountFocus(a) \cup Typing(a)

WorkspaceKey(a) ==
    Shortcuts(a)
    \cup (IF a.route = "account" /\ a.pane = "detail" THEN AccountKey(a)
          ELSE Typing(a) \cup EnterKey(a) \cup TabKey(a)
               \cup (IF a.menu = None THEN EscapeKey(a) ELSE {})
               \cup (IF a.popup THEN {a} ELSE MoveSelection(a)))

OnboardingKey(a) ==
    {[a EXCEPT !.draft = d] : d \in {"", "text"}} \cup {Compose(a, "")}
    \cup (IF a.draft # "" THEN {Push(Compose(a, ""), "CompleteOnboarding", None)} ELSE {})

ModeKey(a) ==
    CASE a.mode = "workspace" -> WorkspaceKey(a)
      [] a.mode = "palette" -> RunPalette(a) \cup {a, [a EXCEPT !.mode = "workspace"]}
      [] OTHER -> {a, [a EXCEPT !.mode = "workspace"]}
                  \cup (IF a.mode = "confirm_quit" THEN {[a EXCEPT !.running = FALSE]} ELSE {})

HandleKey(a) ==
    {[a EXCEPT !.running = FALSE]}
    \cup CASE a.confirm # None -> {a, CloseOverlays(a), ConfirmDelete(a, a.confirm)}
           [] a.confirm = None /\ a.modal ->
                {a, [a EXCEPT !.modal = FALSE]}
                \cup (IF a.menu # None THEN {CloseOverlays(a)} ELSE {})
           [] a.confirm = None /\ ~a.modal ->
                (IF a.menu # None THEN {CloseOverlays(a)} ELSE {})
                \cup (IF a.activated THEN ModeKey(a) ELSE OnboardingKey(a))

----------------------------------------------------------------------------
(* handle_mouse: what a click hits is what the last frame drew there, and an  *)
(* overlay covers the page.                                                   *)

ClickModal(a) ==
    {a} \cup {Push([a EXCEPT !.modal = FALSE], "OpenSourceTarget", p) : p \in Place}

ClickWorkspace(a) ==
    MoveWorkspace(a)
    \cup {SelectChannel(a, c) : c \in a.channels}
    \cup {SelectConversation(a, d) : d \in a.conversations}
    \cup {Push(a, "OpenDm", d) : d \in Dm}
    \cup {SelectThread(a, IF t \in ToSet(a.threads) THEN Home[t] ELSE a.channel, t) :
             t \in {u \in screen.threads : u \in ToSet(a.threads) \/ a.channel # None}}

ClickResult(a) ==
    IF screen.page \in ResultPage
    THEN {ActivateResult([a EXCEPT !.pane = "detail"], p) : p \in Place} ELSE {}

ClickPage(a) ==
    LET b == [a EXCEPT !.pane = "detail"]
    IN  {b} \cup ClickResult(a) \cup Completed(a)
        \cup (IF screen.page = "account" THEN ActivateAccountFocus(b) ELSE {})
        \cup (IF screen.page = "notifications" THEN {Push(b, "MarkNotificationRead", None)} ELSE {})
        \cup (IF screen.place = None THEN {}
              ELSE {Queue(b, "React", None, screen.place), Push(b, "OpenLabel", None)}
                   \cup {Push(b, "OpenDm", d) : d \in Dm}
                   \cup Completed(Compose(CloseOverlays(b), "command")))

ClickMenu(a) ==
    {CloseOverlays(a),
     [a EXCEPT !.menu = None, !.confirm = screen.menu],
     Queue(CloseOverlays(a), "SetMessageSaved", None, screen.menu)}
    \cup Completed(Compose(CloseOverlays(a), "command"))

ClickOverlay(a) ==
    {[a EXCEPT !.mode = "workspace"]}
    \cup (IF screen.mode = "palette" THEN RunPalette(a) ELSE {})
    \cup (IF screen.mode = "confirm_quit" THEN {[a EXCEPT !.running = FALSE]} ELSE {})

(* open_comment_menu_at: the right button on a message, or elsewhere.         *)
RightClick(a) ==
    {CloseOverlays(a)}
    \cup (IF screen.place # None
          THEN {[a EXCEPT !.confirm = None, !.menu = screen.place]} ELSE {})

ClickBar(a) == {[a EXCEPT !.mode = "help"]} \cup SubmitComposer(a) \cup TabKey(a)

HandleMouse(a) ==
    IF a.modal THEN ClickModal(a)
    ELSE RightClick(a)
         \cup CASE screen.mode = "onboarding" -> {a}
                [] screen.confirm # None ->
                     {CloseOverlays(a), ConfirmDelete(a, screen.confirm)}
                [] screen.menu # None -> ClickMenu(a)
                [] OTHER ->
                     IF screen.mode # "workspace" THEN ClickOverlay(a)
                     ELSE ClickWorkspace(a) \cup ClickPage(a) \cup ClickBar(a)

----------------------------------------------------------------------------
(* The snapshot and apply_refresh.                                            *)

(* The members of a sequence that are in a set, in their order.               *)
Among(s, S) == FlattenSeq([i \in DOMAIN s |-> IF s[i] \in S THEN <<s[i]>> ELSE <<>>])

FirstFew(s, n) == IF Len(s) <= n THEN s ELSE SubSeq(s, 1, n)

(* The channels joined as load_channels orders them; the threads of one as    *)
(* load_threads does, which leaves out those behind the first 200.            *)
Joined == Among(Order, db.joined)
ThreadsOf(c) == FirstFew(Among(db.recent, {t \in Thread : Home[t] = c}), ThreadLimit)
FirstOf(s) == IF s = <<>> THEN None ELSE Head(s)

SnapshotUnlisted(a) ==  \* mutant: keeps a thread without looking for it in the list
    LET channel == IF a.channel \in db.joined THEN a.channel ELSE FirstOf(Joined)
        threads == IF channel = None THEN <<>> ELSE ThreadsOf(channel)
        thread == IF a.thread # None THEN a.thread ELSE FirstOf(threads)
    IN  [a EXCEPT !.activated = TRUE, !.channels = db.joined, !.threads = threads,
             !.conversations = db.talks, !.channel = channel, !.thread = thread,
             !.dm = None, !.comments = thread, !.messages = None]

(* snapshot_with_history_limit, for the selection of the App.                 *)
Snapshot(a) ==
    LET dm == IF a.dm \in db.talks THEN a.dm ELSE None
        channel == IF dm # None THEN None
                   ELSE IF a.channel \in db.joined THEN a.channel ELSE FirstOf(Joined)
        threads == IF channel = None THEN <<>> ELSE ThreadsOf(channel)
        thread == IF a.thread \in ToSet(threads) THEN a.thread ELSE FirstOf(threads)
    IN  IF db.activated
        THEN [a EXCEPT !.activated = TRUE, !.channels = db.joined, !.threads = threads,
                 !.conversations = db.talks, !.channel = channel, !.thread = thread,
                 !.dm = dm, !.comments = thread, !.messages = dm]
        ELSE [ClearActiveSource(a) EXCEPT
                 !.activated = FALSE, !.channels = {}, !.conversations = {}]

SyncRouteAnywhere(a) ==  \* mutant: follows a channel that is not there
    IF a.dm = None /\ a.route \notin Page THEN [a EXCEPT !.route = a.channel] ELSE a

SyncRoute(a) ==
    CASE a.dm # None ->
           [a EXCEPT !.route = "dms", !.pane = IF @ = "list" THEN "detail" ELSE @]
      [] a.dm = None /\ a.route \notin Page /\ a.channel # None ->
           [a EXCEPT !.route = a.channel]
      [] OTHER -> a

RefreshClearing(a) ==  \* mutant: a conversation is cleared like a result page
    LET fetched == Snapshot(a)
        kept == IF fetched.route \in ResultPage \cup {"dms"}
                THEN ClearActiveSource(fetched) ELSE fetched
    IN  Completed([SyncRoute(kept) EXCEPT !.refresh = FALSE])

Refresh(a) ==
    LET fetched == Snapshot(a)
        started == IF ~a.activated /\ fetched.activated
                   THEN [fetched EXCEPT !.route = "notifications", !.pane = "detail",
                                        !.draft = "", !.popup = FALSE]
                   ELSE fetched
        kept == IF started.route \in {"search", "saved", "notifications"}
                THEN ClearActiveSource(started) ELSE started
    IN  Completed([SyncRoute(kept) EXCEPT !.refresh = FALSE])

(* perform_refresh: a failed read ends the session.                           *)
PerformRefresh == app' \in Refresh(app) \cup {[app EXCEPT !.running = FALSE]}

----------------------------------------------------------------------------
(* process_action, one disjunct per outcome of the feature it goes to.        *)

Banner(a) == [a EXCEPT !.modal = FALSE]  \* a toast replaces the banner

Visible == {t \in ToSet(db.recent) : Home[t] \in db.joined}

(* A thread at another place of the order: pinned threads come first, the     *)
(* others by their activity.  A comment never moves it back.                  *)
Moved(t) ==
    LET others == Among(db.recent, Thread \ {t})
    IN  {[db EXCEPT !.recent = InsertAt(others, i, t)] : i \in 1..Len(others) + 1}
Raised(t) ==
    {d \in Moved(t) : \A i \in DOMAIN db.recent :
        db.recent[i] = t => \E j \in 1..i : d.recent[j] = t}

Done(q, place) == effect' = [do |-> q.do, shown |-> q.shown, on |-> place]

(* Every action may fail: its error only replaces the banner.                 *)
Fail(q) ==
    /\ app' = Banner(app)
    /\ UNCHANGED <<db, effect>>

AddComment(q) ==
    /\ q.do = "AddComment" /\ app.channel # None /\ app.thread \in Visible
    /\ app' = SelectThread(app, app.channel, app.thread)
    /\ db' \in Raised(app.thread)
    /\ Done(q, app.thread)

SendDm(q) ==
    /\ q.do = "SendDm" /\ app.dm # None
    /\ app' = SelectConversation(app, app.dm)
    /\ UNCHANGED db
    /\ Done(q, app.dm)

(* A message found by its index in the selected thread or conversation.       *)
ChangeMessage(q) ==
    /\ q.do \in {"DeleteComment", "DeleteDm", "SetMessageSaved", "React"}
    /\ LET on == CASE q.do = "DeleteComment" -> app.thread
                   [] q.do = "DeleteDm" -> app.dm
                   [] OTHER -> IF app.dm # None THEN app.dm ELSE app.thread
       IN  /\ on # None /\ (on \in Thread => on \in Visible)
           /\ Done(q, on)
    /\ app' = IF q.do = "React" THEN app ELSE Banner(app)
    /\ UNCHANGED db

DeleteThread(q) ==
    /\ q.do = "DeleteThread" /\ app.thread \in Visible
    /\ db' = [db EXCEPT !.recent = Among(@, Thread \ {app.thread})]
    /\ app' = Banner(app)
    /\ Done(q, app.thread)

MarkRead(q) ==
    /\ \/ q.do = "MarkThreadRead" /\ app.thread # None
       \/ q.do = "MarkDmRead" /\ app.dm # None
    /\ UNCHANGED <<db, app, effect>>

NextUnread(q) ==
    /\ q.do = "NextUnread"
    /\ \/ \E t \in Visible : app' = SelectThread(app, Home[t], t)
       \/ \E d \in db.talks : app' = SelectConversation(app, d)
    /\ UNCHANGED <<db, effect>>

OpenDm(q) ==
    /\ q.do = "OpenDm" /\ q.to \in db.talks
    /\ app' = SelectConversation(app, q.to)
    /\ UNCHANGED <<db, effect>>

JoinChannel(q) ==
    /\ q.do = "JoinChannel"
    /\ db' = [db EXCEPT !.joined = @ \cup {q.to}]
    /\ app' = Banner(SelectChannel(app, q.to))
    /\ UNCHANGED effect

LeaveChannel(q) ==
    /\ q.do = "LeaveChannel" /\ app.channel # None
    /\ db' = [db EXCEPT !.joined = @ \ {app.channel}]
    /\ app' = Banner(app)
    /\ UNCHANGED effect

(* The first channel stands in when nothing is selected.                      *)
CreateThread(q) ==
    /\ q.do = "CreateThread"
    /\ LET first == FirstOf(Among(Order, app.channels))
           channel == IF app.channel # None THEN app.channel
                      ELSE IF app.dm = None THEN first ELSE None
       IN  /\ channel \in db.joined
           /\ \E t \in db.unused :
                /\ Home[t] = channel
                /\ \E moved \in Moved(t) : db' = [moved EXCEPT !.unused = @ \ {t}]
                /\ app' = Banner(SelectThread(app, channel, t))
    /\ UNCHANGED effect

(* open_source_target joins the channel of a thread first.                    *)
OpenSourceTarget(q) ==
    /\ q.do = "OpenSourceTarget"
    /\ app' = ActivateResult(app, q.to)
    /\ db' = IF q.to \in Thread /\ Home[q.to] \notin app.channels
             THEN [db EXCEPT !.joined = @ \cup {Home[q.to]}] ELSE db
    /\ UNCHANGED effect

(* The feeds, and the page that is on the screen read again.                  *)
OpenPage(q) ==
    /\ app' = CASE q.do = "Search" -> ShowPage(app, "search")
                [] q.do = "OpenLabel" -> ShowPage(app, "label")
                [] q.do = "ListSaved" -> ShowPage(app, "saved")
                [] q.do = "ListNotifications" -> ShowPage(app, "notifications")
                [] q.do = "MarkNotificationRead" ->
                     Banner(IF app.route = "notifications"
                            THEN ShowPage(app, app.route) ELSE app)
                [] q.do = "OpenAccount" -> OpenAccountPage(app)
                [] q.do = "ListChannels" -> [app EXCEPT !.modal = TRUE]
                [] OTHER -> FALSE
    /\ q.do \in {"Search", "OpenLabel", "ListSaved", "ListNotifications",
                  "MarkNotificationRead", "OpenAccount", "ListChannels"}
    /\ UNCHANGED <<db, effect>>

(* process_load_more: the answer is dropped unless the page asked from is     *)
(* still on the screen with the cursor it had.                                *)
LoadMore(q) ==
    /\ q.do = "LoadMore"
    /\ app' \in {app} \cup {AppendPage(app, page) : page \in ResultPage \cap {app.route}}
    /\ UNCHANGED <<db, effect>>

CompleteOnboarding(q) ==
    /\ q.do = "CompleteOnboarding" /\ ~db.activated
    /\ db' = [db EXCEPT !.activated = TRUE]
    /\ app' = Banner(app)
    /\ UNCHANGED effect

Perform(q) ==
    \/ AddComment(q) \/ SendDm(q) \/ ChangeMessage(q) \/ DeleteThread(q) \/ MarkRead(q)
    \/ NextUnread(q) \/ OpenDm(q) \/ JoinChannel(q) \/ LeaveChannel(q) \/ CreateThread(q)
    \/ OpenSourceTarget(q) \/ OpenPage(q) \/ LoadMore(q) \/ CompleteOnboarding(q) \/ Fail(q)

----------------------------------------------------------------------------
(* The system.                                                                *)

NoEffect == [do |-> "none", shown |-> None, on |-> None]

(* App::new: the first snapshot; an activated account starts on its           *)
(* notifications, with the selection of the snapshot still set.               *)
Empty == [activated |-> FALSE, running |-> TRUE, mode |-> "workspace", pane |-> "list",
    route |-> "dms", collapsed |-> FALSE, channel |-> None, thread |-> None, dm |-> None,
    channels |-> {}, threads |-> <<>>, conversations |-> {}, comments |-> None,
    messages |-> None, draft |-> "", popup |-> FALSE, menu |-> None, confirm |-> None,
    modal |-> FALSE, actions |-> <<>>, refresh |-> FALSE]

(* What a frame leaves for clicks to hit: the messages of a place (of a       *)
(* thread or of a conversation) or the rows of a page, the threads listed,    *)
(* and on top of them the palette, the menu and the dialogs.                  *)
DrawnPlace(a) == IF a.activated THEN Shown(a) ELSE None
DrawnPage(a) == IF a.route \in Page THEN a.route ELSE "none"
DrawnThreads(a) == IF a.route \in Channel /\ ~a.collapsed THEN ToSet(a.threads) ELSE {}
DrawnMode(a) == IF a.activated THEN a.mode ELSE "onboarding"
DrawnMenu(a) == IF a.activated /\ a.confirm = None THEN a.menu ELSE None
DrawnConfirm(a) == IF a.activated THEN a.confirm ELSE None
Drawn(a) ==
    [place |-> DrawnPlace(a), page |-> DrawnPage(a), threads |-> DrawnThreads(a),
     mode |-> DrawnMode(a), menu |-> DrawnMenu(a), confirm |-> DrawnConfirm(a)]

ClientInit ==
    /\ \E activated \in BOOLEAN, recent \in Posted :
         db = [activated |-> activated, joined |-> Channel, recent |-> recent,
               unused |-> Thread \ ToSet(recent), talks |-> Dm]
    /\ app = LET first == SyncRoute(Snapshot(Empty))
             IN  IF db.activated
                 THEN [first EXCEPT !.route = "notifications", !.pane = "detail"]
                 ELSE first
    /\ phase = "draw" /\ queue = <<>> /\ needs_refresh = FALSE
    /\ screen = Drawn(app) /\ effect = NoEffect
    /\ inputs = 0 /\ changes = 0

(* A key or a mouse event of the frame.                                       *)
Input ==
    /\ phase = "input" /\ app.running /\ inputs < MaxInputs
    /\ app' \in HandleKey(app) \cup HandleMouse(app)
    /\ inputs' = inputs + 1
    /\ UNCHANGED <<db, phase, queue, needs_refresh, screen, effect, changes>>

(* The queues are drained; the session stops or its actions are taken. A live *)
(* event, of this account or another, asks for a refresh.                     *)
TakeActions ==
    /\ phase = "input"
    /\ phase' = IF app.running THEN "act" ELSE "gone"
    /\ queue' = app.actions
    /\ app' = [app EXCEPT !.actions = <<>>, !.refresh = FALSE]
    /\ \E live \in BOOLEAN : needs_refresh' = (live \/ app.refresh)
    /\ UNCHANGED <<db, screen, effect, inputs, changes>>

ProcessAction ==
    /\ phase = "act" /\ queue # <<>>
    /\ Perform(Head(queue))
    /\ queue' = Tail(queue)
    /\ phase' = IF RefreshesAfter(Head(queue).do) THEN "settle" ELSE "act"
    /\ UNCHANGED <<needs_refresh, screen, inputs, changes>>

Settle ==
    /\ phase = "settle"
    /\ PerformRefresh
    /\ phase' = "act"
    /\ UNCHANGED <<db, queue, needs_refresh, screen, effect, inputs, changes>>

FinishActions ==
    /\ phase = "act" /\ queue = <<>>
    /\ IF needs_refresh THEN PerformRefresh ELSE UNCHANGED app
    /\ phase' = "draw"
    /\ UNCHANGED <<db, queue, needs_refresh, screen, effect, inputs, changes>>

Draw ==
    /\ phase = "draw"
    /\ IF app.running
       THEN phase' = "input" /\ screen' = Drawn(app)
       ELSE phase' = "gone" /\ UNCHANGED screen
    /\ effect' = NoEffect /\ needs_refresh' = FALSE
    /\ UNCHANGED <<db, app, queue, inputs, changes>>

(* Another account posts, pins a thread, deletes one or starts one; a channel *)
(* is archived; a peer is disabled.                                           *)
Change ==
    /\ phase # "gone" /\ changes < MaxChanges
    /\ \/ \E t \in ToSet(db.recent) :
            db' \in Moved(t) \cup {[db EXCEPT !.recent = Among(@, Thread \ {t})]}
       \/ \E t \in db.unused : \E moved \in Moved(t) :
            db' = [moved EXCEPT !.unused = @ \ {t}]
       \/ \E c \in db.joined : db' = [db EXCEPT !.joined = @ \ {c}]
       \/ \E d \in db.talks : db' = [db EXCEPT !.talks = @ \ {d}]
    /\ changes' = changes + 1
    /\ UNCHANGED <<app, phase, queue, needs_refresh, screen, effect, inputs>>

ClientNext == Input \/ TakeActions \/ ProcessAction \/ Settle \/ FinishActions \/ Draw \/ Change

ClientSpec == ClientInit /\ [][ClientNext]_client_vars

----------------------------------------------------------------------------
(* Properties.                                                                *)

Id == Channel \cup Place \cup {None}
OptionalThread == Thread \cup {None}
OptionalDm == Dm \cup {None}
AppType == [activated : BOOLEAN, running : BOOLEAN,
    mode : {"workspace", "palette", "help", "confirm_quit"},
    pane : {"rail", "list", "detail"}, route : Route, collapsed : BOOLEAN,
    channel : Channel \cup {None}, thread : OptionalThread, dm : OptionalDm,
    channels : SUBSET Channel, threads : Seq(Thread), conversations : SUBSET Dm,
    comments : OptionalThread, messages : OptionalDm, draft : Draft, popup : BOOLEAN,
    menu : Place \cup {None}, confirm : Place \cup {None}, modal : BOOLEAN,
    actions : Seq(Action), refresh : BOOLEAN]

DbType == [activated : BOOLEAN, joined : SUBSET Channel, recent : Seq(Thread),
    unused : SUBSET Thread, talks : SUBSET Dm]

(* Every variable has its type: the database, the App, the actions taken and  *)
(* the phase of the frame.                                                    *)
ClientTypeOK ==
    /\ db \in DbType
    /\ app \in AppType
    /\ phase \in {"input", "act", "settle", "draw", "gone"}
    /\ queue \in Seq(Action)
    /\ needs_refresh \in BOOLEAN

(* A selected conversation excludes a selected channel, its threads and a     *)
(* thread, whatever keys, actions and refreshes did: reactions, saving and    *)
(* muting look for a conversation first (SetMessageSaved, React) and          *)
(* would otherwise reach a place behind the page.                             *)
ConversationExclusive ==
    app.dm # None => app.channel = None /\ app.thread = None /\ app.threads = <<>>

(* When a frame is drawn, the page of a channel is the page of the channel    *)
(* selected (of none once the last one is left), the thread on it is one of   *)
(* that channel's and the comments loaded are that thread's; so for a         *)
(* conversation. No key, queued action or refresh leaves the title of one     *)
(* place over the messages of another.                                        *)
PageIsSelection ==
    phase = "draw" /\ app.running =>
        /\ app.route \in Channel => app.channel \in {app.route, None}
        /\ app.route \in Channel /\ app.thread # None =>
              /\ app.thread \in ToSet(app.threads)
              /\ Home[app.thread] = app.channel
              /\ app.comments = app.thread
        /\ app.route = "dms" => app.messages = app.dm

(* A refresh, asked for by a live event, an action or the page itself, never  *)
(* takes the user off a conversation or thread that can still be seen in its  *)
(* list (the selection filters of the snapshot, sync_route_from_snapshot),    *)
(* whatever was queued, answered or changed by others meanwhile.              *)
Listed(p) ==
    \/ p \in db.talks
    \/ app.channel \in db.joined /\ p \in ToSet(ThreadsOf(app.channel))
RefreshKeepsPlace ==
    [][(Settle \/ FinishActions) /\ Listed(Shown(app)) => Shown(app') = Shown(app)]_client_vars

(* Nor off a thread that can be seen, listed or not: one behind the first     *)
(* ThreadLimit is opened from a search, a notification or the next unread.    *)
RefreshKeepsVisible ==
    [][(Settle \/ FinishActions) /\ Shown(app) \in Visible /\ Home[Shown(app)] = app.channel
           => Shown(app') = Shown(app)]_client_vars

(* The manual, docs/src/content/docs/manual.md:148: "Select a thread or DM,   *)
(* type in the composer, and press Enter to send." What is sent, deleted,     *)
(* saved or reacted to is in the place that was on the page when the user     *)
(* asked for it.                                                              *)
AddressedAsShown == effect # NoEffect => effect.on = effect.shown

=============================================================================
