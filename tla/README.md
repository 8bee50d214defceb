# A verification project for sshoosh

sshoosh is a chat workspace served over SSH. A server process accepts SSH
connections, draws a terminal UI for each of them and keeps everything in one
SQLite/libSQL database, which several server processes and the command line may
share. This directory holds TLA+ models of the parts whose correctness depends on
the order of events, TLC configurations that check them on small instances, and
TLAPS proofs that hold for instances of any size.

Contents: 1 the system, 2 the modules and the code they stand for, 3 the runs,
4 fairness, 5 the proofs, 6 disagreements found, 7 what is left out, 8 the plan.
`PROJECT.json` has the same in a form for tools: every definition with its source
lines, every property with a mutated definition that breaks it, and the hazards.

To check: `tlc -config MCLease.cfg MCLease` (and so on), `tlapm ServerProofs.tla`.
Paths below are relative to `src/src/` unless they say otherwise.

## 1. The system

### Components, their state and operations

**Accounts, keys and tokens** (`features/accounts/state.rs`,
`features/system/state.rs`, `features/shared/permissions.rs`). Tables `accounts`,
`account_username_reservations`, `ssh_keys`, `bootstrap_tokens`, `invites`,
`device_link_tokens`. Operations: create and redeem tokens of three kinds,
complete onboarding, rename, change roles, disable and enable, add, label and
revoke keys. Each runs in one `BEGIN IMMEDIATE` transaction. Hard: long orders of
legal calls by several administrators. Correct when an active owner always remains,
one bootstrap account at most is activated, names and fingerprints never change
hands.

**Messages** (`features/messages/state.rs`, `features/messages/read_state.rs`,
`features/shared/write_ops.rs`, `features/channels/state.rs`,
`features/notifications/state.rs`). Channels with members, threads with comments,
direct conversations with messages; for every account a read row with
`last_read_index` and an `unread_count` that is kept up by +1 and -1; notification
and mention rows. Hard: counters that drift over deletions, re-reads, memberships
that come and go, rows created by several operations. Correct when each counter is
the count it stands for and alerts reach whom they should.

**Database and master lease** (`db/executor.rs`, `db/lease.rs`,
`features/system/runtime.rs`). Several processes share one database. The row
`server_leases.main` names the master; each process keeps a flag `is_master`
that lets user writes through and that its heartbeats refresh. Hard: processes that
stall, crash, lose a commit or its reply; times computed before a transaction waits
for its turn. Correct when two processes never both hold a lease that has not run
out, a deposed master steps down and a dead one is replaced.

**Events and the live feed** (`features/events/db.rs`,
`features/system/runtime.rs`, `app/lifecycle.rs`, `ssh/render_loop.rs`,
`features/system/state.rs`). Every change commits a row of `event_log`. A poller
reads them in batches behind a cursor and broadcasts them; every session's render
task drains its receiver between frames and refreshes a snapshot; hot labels are
cached per account and dropped by the poller. Hard: broadcasts that arrive during a
refresh, receivers overrun by a bounded channel, a cache filled across an await, a
selection that moves between the inputs of a refresh and its answer.

**Admission and authentication** (`ssh/server.rs`, `ssh/session.rs`). An accept
loop with two limiters, each a semaphore and a table by IP; a timeout around the
whole stream and a timer from the handshake on; failure buckets that turn into
penalties. Hard: permits taken and dropped in two steps by many tasks, timers that
race answers from the database.

**Sessions and terminals** (`ssh/session.rs`, `ssh/render_loop.rs`). A channel, a
pty, a shell; raw input goes through a bounded queue to a decoder task and through a
second one to the render task, which also counts itself in `active_connections`.
Hard: full queues in a chain whose ends stop independently, second terminals over
live ones, writes that fail half way through `begin_account_session`.

**Client state** (`app/`, `features/*/actions.rs`, `ssh/actions.rs`). Each session has
an `App`: a route, a selection, a pane, modes and overlays, a draft and the actions its
keys have queued. Hard: an action names no place and takes the selection it finds when
it runs, after later keys of its frame, earlier actions and their refresh. Correct when
the page and the selection agree and a refresh moves neither.

**Storage** (`db/migrations.rs`, `db/executor.rs`, `db/encryption.rs`,
`src/migrations/`). Every process that opens the database brings its schema up to date,
statement by statement outside a transaction, and checks that the content is sealed or
plain as its key wants it. Hard: a process that dies between two statements, two that
start together, a key given or forgotten. Correct when nobody serves on half a schema,
nothing is recorded that was not done and what is written with the key and without it
does not mix.

**The service on its host** (`cli/daemon.rs`). `install`, `uninstall` and `restart` are
lists of writes, removals and requests to systemd or launchd, any of which may fail or
be the last before the command is killed or the machine restarts. Hard: what is left
then, and a backup copied file by file from a database somebody else may have open.
Correct when no unit names what is not there, a backup has what was committed and a
restart that fails half way still leaves a server to be kept up.

**Queries** (feeds and their pages, search, audit export) and **drawing** read state and
change none; `client/` forwards calls.

### How they interact

    client -> Admission -> Terminal --keys--> render task --actions--> ServerState
                                                  ^                        |
                                                  | refresh                | transaction,
                                                  |                        | if is_master
                     poller --broadcast--> receivers                       v
                        ^                                              database
                        +------------- event_log <-------------------------+
    Lease: heartbeats of every process <-> server_leases, and the flag is_master
    Client: the App inside a render task, its actions and refreshes
    Storage: connect, migrate, check the content <-> the database, at every start
    Host: install, uninstall, restart -> manager (systemd, launchd) -> serve

The write transactions of all components are serialised by the database
(`BEGIN IMMEDIATE`, or one statement), so each is one atomic step in every module.
What is not atomic is modelled as steps: everything between two awaits, two locks or
two messages, and the statements of a snapshot, which run outside a transaction.

## 2. Modules and the code they stand for

| Module | Stands for | Proofs | Instance |
|---|---|---|---|
| `Accounts` | the six tables and their operations | `AccountsProofs` | `MCAccounts` |
| `Inbox` | abstract: a set of unread messages per member | | |
| `Conversation` | one direct conversation, implements `Inbox` | `ConversationProofs` | `MCConversation` |
| `Threads` | one thread of a channel with members | `ThreadsProofs` | `MCThreads` |
| `Client` | the App of one session, its actions and refreshes | `SessionProofs` | `MCClient` |
| `Lease` | processes contending for the lease | `ServerProofs` | `MCLease` |
| `LiveFeed` | event log, poller, label cache, render tasks | `LiveFeedProofs` | `MCLiveFeed` |
| `Admission` | connections, limiters, authentication | `AdmissionProofs` | `MCAdmission` |
| `Terminal` | terminals, queues, tasks, counted sessions | `SessionProofs` | `MCTerminal` |
| `Storage` | schema, migrations and encryption of a database | `StorageProofs` | `MCStorage` |
| `Host` | the installed service, its commands and its backup | `ServerProofs` | `MCHost` |

`ServerProofs` (a server as processes and as a service) and `SessionProofs` (a session
as connection and as App) each hold the proofs of two modules, whose names are therefore
kept apart: `HostSpec`, `HostTypeOK`, `ClientSpec`, `ClientTypeOK` and so on.

Names of the code are kept. Definitions that say "Mutant:" are not part of a
specification: each is another form of the definition it precedes, and shows that
some property would notice such a change of the code.

**Accounts.** A table is a function from row ids to rows. One action per operation
(`CreateBootstrapToken`, `RedeemInvite`, `CompleteOnboarding`, `SetUserRole`, ...);
a failed `ensure!` is a step that does not happen. Expiry by date is a refusal that
may happen at any time.

**Conversation** and **Inbox.** A message body is known by whom it mentions.
`SendDm` has everything `send_dm` does in its transaction: the row, the
author's own read row, the other member's counter, and, in `DmCreated`, the alerts
under mutes that the projection of the same name leaves. Deletion,
marking read and unread, muting (and a mute that runs out), disabling, and reading
and archiving notifications are actions of their own.
`Inbox` says what the counters are for: each member has a set of unread messages and
a badge with its size. `UnreadSets` maps the columns to these sets.

**Threads.** The same for a thread, where readers may lack a row (their unread
number is then `comment_count`), rows are created in four ways (commenting, reading,
saving, somebody else's comment), and members join, leave, are added and removed
while rows stay. `UnreadShown` is what the lists show: the counter, or 0 while the
account mutes the thread (`load_threads`, `load_channels`); the counter goes on under the
mute. `leftSinceRead` is a history variable: who left and has not read (or
commented) since. The channel is any but #general.

**Client.** The App is a record, a handler an operator from Apps to Apps. A frame is
`Input` (up to a frame's keys and clicks), `TakeActions` (what they asked for becomes the
queue), `ProcessAction` for one queued action after the other with what it answers to the
App, `Settle` (the refresh after it), `FinishActions` (the one that was put off) and
`Draw`; `Change`, other accounts' work, may change the database between any two. The
outcome of a handler that depends on text is left open. `LoadMore` appends its answer only
to the page it was asked from; `Drawn` is what a frame leaves for clicks to hit, part by
part as the draw functions register it. A channel's list has its first `ThreadLimit`
threads (200 in `load_threads`), in the order of `db.recent`; a pin, a comment or a
deletion moves a thread to another place of it (`Moved`, `Raised`). `effect` is a history
variable: where an action was done, and what the page showed when it was asked for.

**Lease.** A process is `idle`, `waiting` for the write lock with `lease_until`
already computed, or `updating` inside its transaction. Times are kept as what is
left until them. Losing a commit, losing only its reply, crashing in any phase and
stalling (many `Tick`s before the next step) are possible everywhere. `granted` is a
history variable: how long the process may trust the lease it acquired. All clocks
run together: the code compares times of different hosts and assumes as much.

**LiveFeed.** A phase per session follows `render_once` from the drain through the
refresh (inputs, fetch, label lookup and store, apply) to the drawing and the action.
A snapshot is known by its source, by the version its oldest read saw, and by that of
its hot labels. Every change has one event; rows of `event_log` that do not parse are
left out.

**Admission.** The phases of a connection from the accept loop to its end, with
permits taken and dropped in two steps each. The database answers key lookups and
redemptions later, and either way. `authenticated` is what the timers look at.
Client sockets are used over and over.

**Terminal.** A terminal is what one `pty_request` makes. `DecoderStep` and
`RenderStep` are the steps between awaits of the two tasks; each write of a
session's begin, refresh and end may fail. `typed` and `handled` are history
variables. What a key does to its App is left out, except stopping it.

**Storage.** A migration is a list of statements, each known by what it needs to be
absent, what it makes and which data it derives for rows an older release wrote
(`stale` is what they lack). A process goes through the versions in order, asks which
are recorded, runs the others statement by statement and records each; it may die or
fail anywhere. It checks the content against its key when it connects and before it
serves, on counts that are taken for 0 when they fail (`Counted`). Then a server writes
and edits, or a migrator seals. Rows are known by the kinds of text they hold: plain,
sealed, the plain body a server with the key leaves in a new thread (its INSERT seals the
parameter where `name_key` is, not the body: `Written`), and plain notifications, which
`encrypt migrate` leaves as they are (no arm of `encrypt_query_params` is for their
UPDATE: `Sealed`). `unguarded` is a history variable: processes with the key and without
it ran together while one of them wrote, or a count that failed let one in. Databases
start as any of the releases `Released` names.

**Host.** A command is the list of its steps, built from its flags as the code builds it
from the backend; `CommandStep` performs the first, with an action for each kind of
step, and `StepFails` and `Killed` end it early or skip what is best effort. The manager
(external, as the code uses it) keeps up what it was told to and starts it again after a
crash or a reboot. Committed writes are counted, and so is how many of them the main
file holds; the rest is in the WAL, which whoever closes the database last moves.

No module composes all of these: they meet at narrow interfaces, each of which the
module on one side models as any behaviour of the other. Admission hands over
authenticated connections (`Login`); Terminal hands over keys, which in LiveFeed are
any move of the selection and any action; LiveFeed has any commits; Lease has any
writes; a message of Conversation or Threads comes from any active account; Client's
database changes in any way other accounts may change it; Storage ends where a process
serves, and Host knows of that process only whether it runs and on which database.

## 3. Runs

All finish within five minutes on two workers. Deadlock is checked in all but
`terminal`, where the system may stop once its only connection is gone, and `client`,
whose session ends.

| Run | Instance | Distinct states |
|---|---|---|
| accounts | 3 accounts, names and keys, 2 bootstrap tokens, 1 invite, 1 link; symmetric | 229,593 |
| conversation | 2 members, 2 messages, any mentions; symmetric | 207,399 |
| threads | channel creator and 1 other, 2 comments; the other may mute and be disabled | 2,005,984 |
| lease | 1 server, 1 migration, ttl 2 ticks, 4 tokens | 220,400 |
| live_feed | 1 session, 2 sources, batches of 2, channel of 1, 2 events | 717,166 |
| admission | 3 connections of one IP, 2 permits per limiter, 3 and 1 per IP | 146,808 |
| terminal | 1 connection, 2 terminals, queues of 1, 1 key per frame, 2 chunks | 885,697 |
| client | 2 channels, 4 threads, lists of 2, 1 conversation, 3 inputs, 1 change by others | 5,141,214 |
| storage | 2 servers, 1 migrator, no database or one of an older release; symmetric | 4,211,517 |
| host | systemd and launchd, 2 writes | 5,224,736 |

What they show, and why the bounds let the interesting cases happen:

- **accounts**: `ActiveOwnerExists` (no order of demoting, disabling and onboarding
  leaves the workspace without an active owner), `SingleBootstrapActivation`,
  `UsernamesReserved`, `NamesNeverChangeHands`, `KeysNeverChangeHands`,
  `TokensNameOwners` (each account came in on one token, each linked key belongs to who
  asked for the link). Three accounts are what it takes
  for two owners to act on one another while a third onboards; two bootstrap tokens
  for the race of two bootstrap accounts; a third name for a rename after which the
  first is asked for by somebody else.
- **conversation**: `UnreadExact`, `ImplementsInbox`,
  `MuteHoldsNotificationsBack`. A conversation always has two members; two messages
  allow deleting on either side of `last_read_index` and marking unread at the first
  message (index 0, which puts `last_read_index` at -1).
- **threads**: `CommentCountExact`, `UnreadShownIsReal` (whoever stayed since it last
  read is shown exactly what is live and unread, or 0 while it mutes the thread, and its
  counter is exact under the mute; an account that left and returned may be shown too few
  unread comments until it reads, never too many), `StrangersAlertsFrozen`. Either kind of
  channel; two comments have a deletion before and after a read, a leave and a rejoin.
- **lease**: `OneMaster`, `TokensNameNodes`, `DeposedStepsDown`, `Failover`. Two
  processes contend, one of which may be a migration that trusts its flag for a long
  transaction; with a ttl of 2 a lease can be half over when it is committed; four
  tokens allow three takeovers, after which the bound ends the model.
- **live_feed**: `PublishedOnceInOrder`, `NoticedEventsAreFetched`,
  `HotLabelsCurrent`, `SelectionIsShown`, `EventsArePublished`. Capacity 1 and two
  events overrun the receiver; two events of one batch are sent at different times
  and the fill of the cache runs between them.
- **admission**: `PermitsAddUp`, `LimitsRespected`, `UnauthenticatedEnd`,
  `PenaltiesEnd`. The third connection finds the server full, the second
  unauthenticated one its source busy; two failures make a penalty while a third
  connection that was let in before still fails.
- **terminal**: `TypeOK` (with the capacities of the queues), `ConnectionsCounted`,
  `KeysInOrder`, `TerminalsEnd`. With queues of one and a chunk of two events the
  decoder blocks while its reader ends; the second terminal replaces the first in every
  phase of its task.
- **client**: `ClientTypeOK`, `ConversationExclusive`, `PageIsSelection`, `RefreshKeepsPlace`.
  Three inputs open a menu or an overlay, choose in it and go elsewhere before the
  action runs; one change by others removes what is selected, or puts something before
  it; a channel with two threads in its list and one behind it, which a notification or the
  next unread may open and a comment, a pin or a deletion may bring into the list, and a
  channel with one thread, tell a fallback from a move. `RefreshKeepsPlace` is about what
  the list holds; that a refresh leaves a thread behind it is in section 6.
- **storage**: `ServesMigrated`, `FillsRecorded`, `KeysNeverMix`. Two servers start
  together on a database that is not there or lacks the counters and everything later
  (each later release is a stage on its way), while the migrator, with the key or
  without it, seals rows; each dies anywhere. `ServesMigrated` excepts the indexes of
  performance_counters, which `storage_counters` is about. `KeysNeverMix` says nothing
  once the run is `unguarded`, and nothing of the two kinds of plain text the code itself
  leaves beside sealed text.
- **host**: `HostTypeOK`, `UnitPointsAtConfig`, `BackupsHoldCommitted`, `RestartBringsUp`.
  Two writes are one in the main file and one in the WAL. Commands follow one another
  without bound, so an uninstall runs on what a killed install left and an install on
  what an uninstall left.

Where a module has `TypeOK` and no run lists it, its `TypeCorrect` theorem says more.

Two more runs have one property each, quoted from the repository, and TLC finds it
violated: section 6. Eight configurations show others; they are not repeated routinely.

## 4. Fairness

Only the server's own tasks are assumed to run; no client, administrator or network
peer ever has to act.

- Lease: heartbeats repeat for as long as their process runs (a tokio interval), the
  wait for the write lock ends at the latest at the busy timeout, and a commit gets a
  reply or an error: weak fairness for each, per process. `DeposedStepsDown` needs no
  more. `Failover` assumes in its own statement that time passes and that the
  database is not out of reach for good (`InReach`: strong fairness of entering and
  committing the transaction). Without it a standby may lose every race.
- LiveFeed: the poller's interval (500 ms) and every session's tick (100 ms) fire.
- Admission: time passes, the accept loop, handlers and timers run, and
  `run_stream` ends at the latest with its own timeout.
- Terminal: decoder and render task get their turn; every await of theirs
  returns (the frame's tick is 100 ms, and a locked database answers at the latest
  after the busy timeout of 5 s, `db/executor.rs:135`).

## 5. Proofs

Every listed theorem holds for any sets of accounts, processes, sessions and so on
and any bounds. Every invariant and every action property of the passing runs is
stated by a theorem; of each module the type invariant is one too.

- **AccountsProofs.** `ActiveOwnerAlwaysExists` and `OneBootstrapActivation` follow
  from `OwnerInv`: types, both properties, that invites exist only after an
  activation, and that tokens name accounts that exist and came in by one token. The
  first is needed because an invitee could otherwise be the first to be activated, the
  second because a new account must not find a token in its name. One lemma
  (`GuardedChangeKeepsOwner`) has the argument all guarded changes share.
  `UsernamesAlwaysReserved` is inductive with the types; `UsernamesNeverChangeHands`
  follows from it step by step, `KeysStayWithOwner` from the types alone.
  `TokensAlwaysNameOwners` adds `EntryInv` (every account is named by a token, no two
  tokens of a kind name the same one), which turns into the count of one.
- **ConversationProofs.** `UnreadCountsExact` by `UnreadInv` (the counter is exact and
  nobody has read past the last message: else marking read would not cover the next
  one). The lemmas relate the set of live messages after an index before and after
  a send and a deletion. `RefinesInbox` maps every step to a step of `Inbox` or a
  stutter. `MuteIsKept` is an action property: each step leaves a notification that was
  there before, or one for a member without a mute.
- **ThreadsProofs.** `CommentCountIsExact` and `UnreadIsReal` by `CountInv`: the count is
  that of the live comments; no row has read past the last comment or counts more than
  is live after what it has read; it counts exactly that unless its account is in
  `leftSinceRead`; a row without a membership is of such an account (else a comment that
  does not count it would leave it one short); nothing is posted before the thread is
  created. `AppendedCounts` and `DeletedCounts` say what a comment and a deletion do to
  the number of live comments after any index, `OneRowCounted` reduces marking, muting
  and saving to one row. `AlertsAreFrozen` is an action property like `MuteIsKept`.
- **ServerProofs.** `OneMaster` is not inductive. `LockInv` (one open transaction),
  `ClaimInv` (a transaction about to commit a claim found the row missing, its own or
  expired, and the lock keeps it so) and `GrantInv` (the row names a process whose lease has
  not run out, for at least as long as that process thinks) make it so.
  `AtMostOneMaster` assumes `OneProcessPerNode`: two processes started with one
  `SSHOOSH_NODE_ID` would see each other's lease as their own. `FencingTokensSound`
  has no such assumption.
- **LiveFeedProofs.** The invariant joins `FeedInv` (the log, the batch under way and
  the broadcasts fit together), `CacheInv` (labels are never older than the seq
  they are cached under) and `SessionInv` for each phase of a
  frame. From it come `FeedInOrder`, `NoticedIsFetched`, `LabelsAreCurrent` and
  `SelectionShown`. `OthersKeep` reduces a step of one session to that session.
- **AdmissionProofs.** `PermitsAccounted` is inductive with the types; its one lemma
  (`PermitStepAddsUp`) moves a connection among the holders. `LimitsHold` also needs
  `PermitsDue` (what a connection holds in each phase) and `WithinPerIp`.
- **SessionProofs**, the terminal. `SessionsCounted` from `CountsTyped`, `TasksOwned` (a
  terminal has a task only once it has an owner, and no session before) and `ShellsFresh`
  (what a shell request will start has not been started before); `OneMore` and `OneLess`
  have the counting, then there is one lemma per kind of step. `TypeCorrect` and
  `KeysStayInOrder` are inductive as they stand, once it is known that `Keys` and the
  flattening of the queue of chunks distribute over concatenation (`FlattenConcat`,
  `KeysConcat`): each of the steps that moves keys takes a prefix off one queue and appends
  it to the next.
- **SessionProofs**, the App. None of the four properties of Client is inductive. Their
  invariant `ClientInv` adds: the screen is one that was drawn (`ScreenType`), so that a click
  hits threads and places there are; queued actions name what fits them (`ActionsFit`, else
  an answer could select anything); `RowsCurrent`, whenever the App runs its rows are those
  of its selection or a refresh is under way before the next frame is drawn; and
  `OnboardingWaits`, an account not activated has no selection, no menus and nothing queued but
  its onboarding. The argument is one relation, `Handled(a, b)`: handler `b` of App `a` keeps
  it sound, keeps selections exclusive and, if it leaves rows behind, asks for a refresh. It
  is transitive and kept by each of the App's operations, so that a key's or a click's
  whole handler keeps it as its parts do; one lemma per handler, then one per action of a
  frame. A refresh makes all rows current (`SnapshotSelection`, `SnapshotFetched`,
  `RefreshHandled`). `RefreshesKeepPlaces` shows in addition that the snapshot finds the same
  place again if its list has it (`PlaceKept`), whatever the limit of the list.
- **ServerProofs**, the host. `HostInv` is the two properties with the types and `PlanInv`,
  which says three things of what is left of a command. `InOrder`: every step has just
  before it the step that must have succeeded first (`Follows`: an env file before the wrapper
  and the unit, the unit removed before the files it names, the service stopped before the
  copies, a check after a start). `Ready`: what the step about to be done needs holds (its
  files are there or gone, the service is stopped, the database was copied and the copy still
  is the database unless something else disturbed it). `OfRestart`: a restart's list has only
  restart steps and ends by starting the service or checking it. A failed step drops the
  rest, a skipped one drops its head (`OrderTail`), so order is kept however a command ends.
  `RestartsComeBack` is an action property from the same invariant.
- **StorageProofs.** Its first lemmas spell out the plans: whatever columns are there,
  a plan makes what its version stands for and fills what it derives, counters excepted
  (`EveryPlan`). `MigrationInv` then follows a version: once recorded it is `Done`; while
  a process works on it, what is missing is still in the statements to come (`Owing`),
  whatever others run meanwhile (`OnItsWay`); and a process past a version has it
  recorded. `ServersAreMigrated` and `RecordedIsFilled` are its ends; what a version owes
  (`Own`) leaves out the indexes of the counters. `KeysStayApart` needs `ContentInv`:
  unless the run is unguarded, plain and sealed text are `Apart`, the plain body of a new
  thread is only there with sealed text, and the content `Agrees` with the key of each
  process that is past its first check. Servers and migrators are told apart
  (`RolesDistinct`).

The assumptions are the named ASSUMEs of the modules (sets of ids are finite where
they are counted, limits are positive, null is no id), each evaluated by TLC in the
runs.

Induction over data. The library's induction theorems take an operator and cannot be
used, but induction over a set of naturals (`NatSetInduction`, from the well-foundedness of
`<` on `Nat`) and over a set of sequences closed under `Append` (`SeqSetInduction`) can:
the property to prove is written as the set of what has it. `FlattenAppend` obtains the
recursion of `FlattenSeq` from its definition as a fold. Hence filters of sequences are
written with `FlattenSeq` (`Keys`, `Among`).

Model-checked only: the liveness properties, which are out of the prover's reach:
`DeposedStepsDown`, `Failover`, `EventsArePublished`, `UnauthenticatedEnd`, `PenaltiesEnd`
and `TerminalsEnd`.

## 6. Disagreements found

In the routine set:

- **lease_deposed**: "standby node must reject user writes"
  (`src/tests/integration.rs:2424`). Writes look at the flag only: after a stall longer
  than the ttl, a node whose lease was taken over writes until its next heartbeat.
- **storage_counters**: `migrations/20260501000002_performance_counters.sql:4` fills the
  columns it adds. A process that dies after the second ALTER leaves both columns; the
  next start takes them for the whole migration (`db/migrations.rs:92`), records it and
  leaves every older account unread counts of 0, and the database without the five indexes
  of lines 22 to 37. A second process that starts between the ALTER and the UPDATEs does
  the same at once.

Each of these is shown by the configuration named, with `tlc -config <cfg> <module>`:

- `MCAccountsPending.cfg` (`MCAccounts`): "a user who already redeemed a token can
  reconnect and finish choosing a username" (`features/system/state.rs:60`). An invitee
  who is made owner before it has chosen a name is asked for a bootstrap token and
  refused for good.
- `MCThreadsRejoin.cfg` (`MCThreads`): the migration that filled
  `thread_reads.unread_count` counts every live comment after `last_read_index`; comments
  written while an account was away are not added to its row, and stay uncounted after it
  joins again, until it reads or comments.
- `MCThreadsNext.cfg` (`MCThreads`): "jump to unread activity"
  (`app/commands/registry.rs:396`). `next_unread` does not ask whether the channel is
  archived, and offers, at every call, a thread that can be neither opened nor read.
- `MCLiveFeedScreen.cfg` (`MCLiveFeed`): "real-time collaboration over SSH"
  (`src/README.md:21`). The second drain of `render_once` swallows a broadcast that no
  refresh has seen; the change stays off the screen until another event or an action.
- `MCClientAddressed.cfg` (`MCClient`): "Select a thread or DM, type in the composer, and
  press Enter to send" (`docs/src/content/docs/manual.md:148`). After a login the App
  shows the notifications with the first thread of the first channel still selected
  behind them: what is typed and sent there is added to a thread that is not shown. A
  queued action after a switch of thread in the same frame, and a refresh that falls back
  to another thread, lead to the same.

- `MCClientUnlisted.cfg` (`MCClient`): a thread opened from a search, a notification or
  `next_unread` that is not among the 200 of its channel's list
  (`features/shared/loaders.rs:247`) is left at the next refresh, though it can still be
  seen: the snapshot looks for the selection in the list only and falls back to its first
  thread (`features/system/state.rs:640`).
- `MCStorageRestart.cfg` (`MCStorage`): "Source content fields are encrypted when
  encryption is enabled" (`docs/src/content/docs/manual.md:410`). `encrypt_query_params`
  seals the fourth and fifth value of an INSERT into threads (`db/query_encryption.rs:17`),
  which in `create_thread` are title and `name_key`; the body stays plain, and the next
  start with the key refuses the database (`db/encryption.rs:141`). Sealed name keys
  differ for equal names, so that two threads may take one name.
- `MCStorageMigrate.cfg` (`MCStorage`): a server is told to "run `sshoosh encrypt migrate`"
  (`db/encryption.rs:152`). Its UPDATE of notifications is not one that seals
  (`db/query_encryption.rs`), so plain notifications stay plain, and a server with the key
  is refused for good.

Seen while modelling, with nothing in the repository that says otherwise:

- A process that dies between a CREATE or ALTER and the record of its version leaves a
  database no later start gets past ("already exists", "duplicate column").
- The label backfill reads sealed rows without the id they were sealed under: an
  encrypted database older than the labels cannot be brought up to date.
- launchd is asked to bootstrap before it is asked to enable, so an install after an
  uninstall (which disabled the service) fails; `--no-start` has no effect there, as the
  plist has RunAtLoad; `install --force` leaves a running server on its old configuration.
- The stop of an uninstall is best effort, and the purge after it may remove the database
  under a server that still runs; the env file it removes has the only copy of the
  encryption key.
- A checkpoint by another command between the two copies of a restart's backup makes the
  backup incomplete; `BackupsHoldCommitted` excepts it.
- A server without the key beside `encrypt migrate` goes on writing plain rows, and a
  start whose count of sealed or plain rows fails is let in (`unwrap_or(0)`,
  `db/encryption.rs:134` and `148`); `KeysNeverMix` excepts both as `unguarded`.

## 7. Not modelled, and why

- Drawing, wording, layout, parsing of commands and of configuration: pure functions
  or done once at start. What a frame offers to a click is in Client.
- The client facade forwards calls; reactions, saved rows and audit rows are rows
  nothing else depends on; maintenance is single statements.
- Search, feeds and listings are queries.
- The CLI opens the database with `is_master` on and takes no lease (but for
  `encrypt migrate`): its writes are those of Accounts and of the message modules,
  outside the lease.
- Escape sequences split by the network, the queue of wheel events (it is never
  waited for), terminal size; in Client, scrolling, the text of drafts and the focus
  inside the account page.
- `auth_attempts` (it picks the methods offered, which a client may disregard).
- Presence rows, whose time-to-live needs a clock: planned.
- The reads of a snapshot, which are separate statements, are known by their oldest
  version: that parts of a snapshot may be newer than others is not told.
- The cipher: a text is sealed or plain. Nonces and keys that differ are not told apart,
  and webhook jobs are left out, as no check looks at them.
- The keys a list of threads is ordered by (pins, activity): a step that may change them
  moves the thread to any place, a comment never to a later one.
- SQLite itself: a transaction is a step, a statement outside one is a step, and the WAL
  is a number of writes.
- What `install` detects and what dry runs and `status` print.

## 8. Plan

What many sessions depend on at once came first (who may enter, the counters, the
lease, the feed, admission, terminals), then what one session does with it (Client) and
what every start and every operator depends on (Storage, Host). To follow:

1. `Names`: names of channels and threads, and whether unarchiving keeps them unique
   (`ensure_channel_name_available`). Property: a name leads to one open place.
2. `Presence`: rows with a clock, heartbeats, accounts disabled while connected,
   against an abstract "who is online".
3. `Feeds`: keyset pages against rows inserted and deleted between two of them
   (`process_load_more`, `pending_load_more`). Property: no row is skipped or shown
   twice.
4. Settings that two sessions read, change and write back outside a transaction
   (`features/notifications/state.rs:16`).
5. Proofs: that `Threads`, for accounts that stay, implements `Inbox` as `Conversation`
   does; the safety half of the liveness properties.
