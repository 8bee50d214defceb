------------------------------- MODULE Storage -------------------------------
(***************************************************************************)
(* A database and the processes that open it.  `sshoosh serve` and every   *)
(* other command connect, bring the schema up to date and check that the   *)
(* content is sealed or plain as their key wants it; then a server writes  *)
(* under the master lease, and `encrypt migrate` seals what is plain.      *)
(* Several processes may do so at once, and each may die at any step:      *)
(* migrations are not run in a transaction, and the write lock of init is  *)
(* one of the process.                                                     *)
(*                                                                         *)
(* A statement is what it needs and what it leaves: tables, columns and    *)
(* indexes it creates, or data it derives for the rows an older release    *)
(* wrote.                                                                  *)
(***************************************************************************)
EXTENDS Integers, Sequences

CONSTANTS
    Server,      \* processes of `sshoosh serve`
    Migrator,    \* processes of `sshoosh encrypt migrate`
    Released,    \* versions the older releases stopped at; 0 is no database
    NoProcess    \* no holder of the lease

Process == Server \cup Migrator

ASSUME RolesDistinct == Server \cap Migrator = {}
ASSUME LeaseMayBeFree == NoProcess \notin Process

VARIABLES
    objects,     \* tables, columns and indexes of the schema
    recorded,    \* rows of _sshoosh_migrations
    stale,       \* data an older release's rows still lack
    content,     \* the kinds of text the rows hold
    lease,       \* the process that holds the master lease
    proc,        \* where each process is, and whether it has the key
    unguarded    \* history: the checks of the key were passed by

schema == <<objects, recorded, stale>>
vars == <<schema, content, lease, proc, unguarded>>

\* The statements of a migration: CREATE and ALTER, which fail on what is
\* there; those with IF NOT EXISTS; UPDATE and INSERT.
Once(made) == [kind |-> "once", made |-> made, fills |-> {}]
Again(made) == [kind |-> "again", made |-> made, fills |-> {}]
Fill(data) == [kind |-> "fill", made |-> {}, fills |-> {data}]

Versions == <<"initial", "pending_username", "remote_security",
              "saved_messages", "notification_archive",
              "performance_counters", "dm_sidebar_scale",
              "device_link_tokens", "message_labels", "query_performance",
              "username_reservations", "message_labels_backfill">>
Version == {Versions[i] : i \in DOMAIN Versions}

\* What the current initial migration creates and older ones did not.
Folded == {"thread_unread_count", "conversation_unread_count",
           "counter_indexes", "device_link_tokens", "message_labels", "name_key",
           "search_documents", "reservations"}

Counters == {"thread_unread", "conversation_unread"}
Data == Counters \cup {"name_keys", "search_rows", "reservation_rows", "labels"}

Initial == <<Once({"accounts", "thread_reads"}), Once(Folded)>>

PendingUsername == <<Once({"pending_username"})>>

RemoteSecurity ==
    <<Again({"server_leases"}), Once({"node_id"}), Again({"webhook_jobs"})>>

SavedMessages == <<Once({"saved_messages"}), Once({"saved_index"})>>

\* Mutant: a column that is there stands for the whole migration.
NotificationArchiveByColumn(has) ==
    IF "archived_at" \in has THEN << >>
    ELSE <<Once({"archived_at"}), Once({"archived_index"})>>

NotificationArchive(has) ==
    IF "archived_at" \in has THEN <<Again({"archived_index"})>>
    ELSE <<Once({"archived_at"}), Once({"archived_index"})>>

PerformanceCounters(has) ==
    IF {"thread_unread_count", "conversation_unread_count"} \subseteq has
    THEN << >>
    ELSE <<Once({"thread_unread_count"}), Once({"conversation_unread_count"}),
           Fill("thread_unread"), Fill("conversation_unread"),
           Again({"counter_indexes"})>>

\* Mutant: a name_key column that is there is taken to be filled.
QueryPerformanceByColumn(has) ==
    IF "name_key" \in has
    THEN <<Again({"search_documents"}), Fill("search_rows"), Again({"query_indexes"})>>
    ELSE <<Once({"name_key"}), Fill("name_keys"), Again({"search_documents"}),
           Fill("search_rows"), Again({"query_indexes"})>>

QueryPerformance(has) ==
    IF "name_key" \in has
    THEN <<Fill("name_keys"), Again({"search_documents"}), Fill("search_rows"),
           Again({"query_indexes"})>>
    ELSE <<Once({"name_key"}), Fill("name_keys"), Again({"search_documents"}),
           Fill("search_rows"), Again({"query_indexes"})>>

UsernameReservations == <<Again({"reservations"}), Fill("reservation_rows")>>

DmSidebarScale == <<Again({"dm_sidebar_index"})>>
DeviceLinkTokens == <<Again({"device_link_tokens"})>>
MessageLabels == <<Again({"message_labels"})>>

\* Not a migration of its own, but recorded like one.
BackfillMessageLabels == <<Fill("labels")>>

\* What init runs for a version it does not find recorded.
Plan(version, has) ==
    CASE version = "initial" -> Initial
      [] version = "pending_username" -> PendingUsername
      [] version = "remote_security" -> RemoteSecurity
      [] version = "saved_messages" -> SavedMessages
      [] version = "notification_archive" -> NotificationArchive(has)
      [] version = "performance_counters" -> PerformanceCounters(has)
      [] version = "dm_sidebar_scale" -> DmSidebarScale
      [] version = "device_link_tokens" -> DeviceLinkTokens
      [] version = "message_labels" -> MessageLabels
      [] version = "query_performance" -> QueryPerformance(has)
      [] version = "username_reservations" -> UsernameReservations
      [] OTHER -> BackfillMessageLabels

Made(plan) == UNION {plan[i].made : i \in DOMAIN plan}
Fills(plan) == UNION {plan[i].fills : i \in DOMAIN plan}

\* The schema the current release works with.
Schema == UNION {Made(Plan(version, {})) : version \in Version}

\* Text in the titles and bodies of rows: plain, sealed under the key, the body a
\* thread was opened with beside its sealed title, and plain notifications.
Text == {"plain", "sealed", "opening", "alert"}

ASSUME ReleasesKnown == Released \subseteq 0..Len(Versions) - 1

Statement == [kind : {"once", "again", "fill"}, made : SUBSET Schema,
              fills : SUBSET Data]
Off == [phase |-> "off", key |-> FALSE, version |-> 1, plan |-> << >>]
Progress == [phase : {"off", "init", "apply", "open"}, key : BOOLEAN,
             version : 1..Len(Versions), plan : Seq(Statement)]

TypeOK ==
    /\ objects \subseteq Schema
    /\ recorded \subseteq Version
    /\ stale \subseteq Data
    /\ content \subseteq Text
    /\ lease \in Process \cup {NoProcess}
    /\ proc \in [Process -> Progress]
    /\ unguarded \in BOOLEAN

\* What an older release that stopped at version r leaves: its initial
\* migration made none of what the current one folded in.
Left(r) ==
    IF r = 0 THEN {}
    ELSE {"accounts", "thread_reads"}
         \cup UNION {Made(Plan(Versions[i], {})) : i \in 2..r}

\* The rows it leaves: what its servers wrote without the key, or with it, when
\* no name_key came before the body of a thread.
Rows(r) ==
    IF r = 0 THEN {{}} ELSE {{"plain", "alert"}, {"sealed"}}

Init ==
    /\ \E r \in Released :
         /\ objects = Left(r)
         /\ recorded = {Versions[i] : i \in 1..r}
         /\ stale = IF r = 0 THEN {} ELSE Data \ UNION
                      {Fills(Plan(Versions[i], {})) : i \in 2..r}
         /\ content \in Rows(r)
    /\ lease = NoProcess
    /\ proc = [p \in Process |-> Off]
    /\ unguarded = FALSE
-----------------------------------------------------------------------------
Plain == {"plain", "opening", "alert"}

\* What the two counts of validate_encryption find: a count that fails is taken
\* for none.
Counted == {content, content \cap {"sealed"}, content \cap Plain, {}}

\* Mutant: plain rows do not trouble a process with a key.
AcceptsPlain(p, key, counted) == "sealed" \in counted => key

\* validate_encryption; encrypt migrate allows plain text.
Accepts(p, key, counted) ==
    /\ "sealed" \in counted => key
    /\ counted \cap Plain # {} => ~key \/ p \in Migrator

\* The check lets p go on, on counts that are right or not.
Passes(p, key) ==
    /\ \E counted \in Counted : Accepts(p, key, counted)
    /\ unguarded' = (unguarded \/ ~Accepts(p, key, content))

\* The end of a process, by a crash or by itself.  Its lease runs out.
Exit(p) ==
    /\ proc' = [proc EXCEPT ![p] = Off]
    /\ lease' = IF lease = p THEN NoProcess ELSE lease

\* connect_with_config.
Connect(p) ==
    /\ proc[p].phase = "off"
    /\ \E key \in BOOLEAN :
         /\ Passes(p, key)
         /\ proc' = [proc EXCEPT ![p] = [Off EXCEPT !.phase = "init",
                                                   !.key = key]]
    /\ UNCHANGED <<schema, content, lease>>

\* The versions from this one on that init does not find recorded.
Missing(p) ==
    {v \in proc[p].version..Len(Versions) : Versions[v] \notin recorded}

\* Versions already recorded are passed over; the next begins with a look at
\* the schema, if it begins with one.
BeginVersion(p) ==
    /\ proc[p].phase = "init"
    /\ \E v \in Missing(p) :
         /\ \A w \in Missing(p) : v <= w
         /\ proc' = [proc EXCEPT ![p].phase = "apply", ![p].version = v,
                                ![p].plan = Plan(Versions[v], objects)]
    /\ UNCHANGED <<schema, content, lease, unguarded>>

Applying(p) == proc[p].phase = "apply" /\ proc[p].plan # << >>
Current(p) == Head(proc[p].plan)

\* "table already exists", "duplicate column name".
Refused(p) == Current(p).kind = "once" /\ Current(p).made \cap objects # {}

\* A fill may come upon a row it cannot read: a sealed title without the key, or
\* any sealed text in the rows the labels are filled from, which have no column id.
MayNotRead(p) ==
    /\ "sealed" \in content
    /\ \/ Current(p).fills = {"name_keys"} /\ ~proc[p].key
       \/ Current(p).fills = {"labels"}

Execute(p) ==
    /\ Applying(p)
    /\ ~Refused(p)
    /\ objects' = objects \cup Current(p).made
    /\ stale' = stale \ Current(p).fills
    /\ proc' = [proc EXCEPT ![p].plan = Tail(@)]
    /\ UNCHANGED <<recorded, content, lease, unguarded>>

ExecuteFails(p) ==
    /\ Applying(p)
    /\ Refused(p) \/ MayNotRead(p)
    /\ Exit(p)
    /\ UNCHANGED <<schema, content, unguarded>>

Applied(p) == proc[p].phase = "apply" /\ proc[p].plan = << >>

Record(p) ==
    /\ Applied(p)
    /\ Versions[proc[p].version] \notin recorded
    /\ recorded' = recorded \cup {Versions[proc[p].version]}
    /\ proc' = [proc EXCEPT ![p].phase = "init"]
    /\ UNCHANGED <<objects, stale, content, lease, unguarded>>

\* version is the PRIMARY KEY.
RecordFails(p) ==
    /\ Applied(p)
    /\ Versions[proc[p].version] \in recorded
    /\ Exit(p)
    /\ UNCHANGED <<schema, content, unguarded>>

\* The end of init.
Serve(p) ==
    /\ proc[p].phase = "init"
    /\ Missing(p) = {}
    /\ Passes(p, proc[p].key)
    /\ proc' = [proc EXCEPT ![p].phase = "open", ![p].version = 1]
    /\ UNCHANGED <<schema, content, lease>>

Leave(p) ==
    /\ proc[p].phase # "off"
    /\ Exit(p)
    /\ UNCHANGED <<schema, content, unguarded>>

\* try_acquire_or_renew_master, of which the module Lease has the detail.
TakeLease(p) ==
    /\ proc[p].phase = "open"
    /\ lease = NoProcess
    /\ lease' = p
    /\ UNCHANGED <<schema, content, proc, unguarded>>

\* Some process does not have what p writes with, or has what p lacks.
Overlaps(p) ==
    \E q \in Process : proc[q].phase # "off" /\ proc[q].key # proc[p].key

\* encrypt_query_params: with a key a text is sealed, except the body of a new
\* thread, in whose INSERT it takes name_key for the body.
Written(p) ==
    IF proc[p].key THEN {{"sealed"}, {"sealed", "opening"}}
    ELSE {{"plain"}, {"plain", "alert"}}

\* A thread, comment or message of a user, and the notifications of it.
Write(p) ==
    /\ p \in Server
    /\ lease = p
    /\ \E texts \in Written(p) : content' = content \cup texts
    /\ unguarded' = (unguarded \/ Overlaps(p))
    /\ UNCHANGED <<schema, lease, proc>>

Rewritten(p) == IF proc[p].key THEN "sealed" ELSE "plain"

\* edit_thread, rename_thread, edit_comment, edit_dm: the last text of another kind
\* may go.  Notifications stay as they are.
Edit(p) ==
    /\ p \in Server
    /\ lease = p
    /\ content \ {"alert"} # {}
    /\ \E gone \in SUBSET (content \ {Rewritten(p), "alert"}) :
         content' = (content \ gone) \cup {Rewritten(p)}
    /\ unguarded' = (unguarded \/ Overlaps(p))
    /\ UNCHANGED <<schema, lease, proc>>

\* UPDATE notifications is none of the statements encrypt_query_params seals.
Sealed(rows) ==
    (rows \cap {"alert"}) \cup (IF rows \subseteq {"alert"} THEN {} ELSE {"sealed"})

\* encrypt_migrate: one transaction.
Seal(p) ==
    /\ p \in Migrator
    /\ lease = p
    /\ proc[p].key
    /\ content' = Sealed(content)
    /\ unguarded' = (unguarded \/ Overlaps(p))
    /\ UNCHANGED <<schema, lease, proc>>

Next ==
    \E p \in Process :
        \/ Connect(p)
        \/ BeginVersion(p)
        \/ Execute(p)
        \/ ExecuteFails(p)
        \/ Record(p)
        \/ RecordFails(p)
        \/ Serve(p)
        \/ Leave(p)
        \/ TakeLease(p)
        \/ Write(p)
        \/ Edit(p)
        \/ Seal(p)

Spec == Init /\ [][Next]_vars
-----------------------------------------------------------------------------
\* A process past init has the schema of its release under it, and a database
\* that records every migration, whichever release wrote the database, however
\* often a start was cut short and whoever else was starting (migrations.rs, init).
\* The indexes of performance_counters are excepted: see CountersFilled.
ServesMigrated ==
    \A p \in Process :
        proc[p].phase = "open" =>
            Schema \ {"counter_indexes"} \subseteq objects /\ recorded = Version

\* Once the migration that derives name keys, search rows, reservations or
\* labels is recorded, the rows of the older release have them: no start
\* that died between its statements is taken for one that finished.
FillsRecorded ==
    \A version \in recorded :
        Fills(Plan(version, {})) \cap stale \subseteq Counters

\* Likewise for the unread counters and the indexes that come after them
\* (performance_counters).
CountersFilled ==
    "performance_counters" \in recorded =>
        stale \cap Counters = {} /\ "counter_indexes" \in objects

\* What was written with the key and what was written without it never meet,
\* and no process without the key runs on what was written with it, through
\* every start with the key or without it, every edit, migration and crash,
\* unless processes of both kinds ran together while one of them wrote, or a
\* count that failed let one in (validate_encryption, encrypt_migrate).
KeysNeverMix ==
    unguarded \/
        /\ ~({"plain", "sealed"} \subseteq content)
        /\ \A p \in Process :
             proc[p].phase # "off" /\ ~proc[p].key =>
                 content \cap {"sealed", "opening"} = {}

\* src/db/encryption.rs:152, which refuses a server: "plaintext content exists;
\* run `sshoosh encrypt migrate` with SSHOOSH_ENCRYPTION_KEY".  After that a
\* server with the key can start.
MigrationSuffices ==
    [][\A m \in Migrator : Seal(m) => \A p \in Server : Accepts(p, TRUE, content')]_vars

\* A server that is open could be started again with the key it has: what it
\* writes is what its own check lets pass.
RestartAccepted ==
    unguarded \/ \A p \in Process :
        proc[p].phase = "open" => Accepts(p, proc[p].key, content)
=============================================================================
