---------------------------- MODULE StorageProofs ----------------------------
(***************************************************************************)
(* Proofs about Storage: its types, that what serves is migrated, that     *)
(* what is recorded was filled in, and that what is written with the key   *)
(* and without it does not mix, for any number of servers and migrators    *)
(* and databases of any releases.                                          *)
(***************************************************************************)
EXTENDS Storage, SequenceTheorems, TLAPS

USE RolesDistinct, LeaseMayBeFree, ReleasesKnown

-----------------------------------------------------------------------------
(* Plans: what a list of statements makes and fills.                       *)

LEMMA OneStatement ==
    ASSUME NEW a
    PROVE  Made(<<a>>) = a.made /\ Fills(<<a>>) = a.fills
  BY DEF Made, Fills

LEMMA TwoStatements ==
    ASSUME NEW a, NEW b
    PROVE  /\ Made(<<a, b>>) = a.made \cup b.made
           /\ Fills(<<a, b>>) = a.fills \cup b.fills
  BY DEF Made, Fills

LEMMA ThreeStatements ==
    ASSUME NEW a, NEW b, NEW c
    PROVE  /\ Made(<<a, b, c>>) = a.made \cup b.made \cup c.made
           /\ Fills(<<a, b, c>>) = a.fills \cup b.fills \cup c.fills
  BY DEF Made, Fills

LEMMA FourStatements ==
    ASSUME NEW a, NEW b, NEW c, NEW d
    PROVE  /\ Made(<<a, b, c, d>>) = a.made \cup b.made \cup c.made \cup d.made
           /\ Fills(<<a, b, c, d>>)
                = a.fills \cup b.fills \cup c.fills \cup d.fills
  BY DEF Made, Fills

LEMMA FiveStatements ==
    ASSUME NEW a, NEW b, NEW c, NEW d, NEW e
    PROVE  /\ Made(<<a, b, c, d, e>>)
                = a.made \cup b.made \cup c.made \cup d.made \cup e.made
           /\ Fills(<<a, b, c, d, e>>)
                = a.fills \cup b.fills \cup c.fills \cup d.fills \cup e.fills
  BY DEF Made, Fills

LEMMA NoStatement == Made(<< >>) = {} /\ Fills(<< >>) = {}
  BY DEF Made, Fills

\* The statement at the head of a plan and those after it.
LEMMA PlanSplit ==
    ASSUME NEW plan \in Seq(Statement), plan # << >>
    PROVE  /\ Head(plan) \in Statement
           /\ Tail(plan) \in Seq(Statement)
           /\ Made(plan) = Head(plan).made \cup Made(Tail(plan))
           /\ Fills(plan) = Head(plan).fills \cup Fills(Tail(plan))
<1> DEFINE rest == Tail(plan)
<1>1. /\ Len(plan) \in Nat \ {0} /\ DOMAIN plan = 1..Len(plan)
      /\ Head(plan) = plan[1] /\ Head(plan) \in Statement
      /\ rest \in Seq(Statement) /\ Len(rest) = Len(plan) - 1
      /\ DOMAIN rest = 1..Len(rest)
      /\ \A i \in DOMAIN rest : rest[i] = plan[i + 1]
  OBVIOUS
<1>2. \A i \in DOMAIN plan :
        i = 1 \/ (i - 1 \in DOMAIN rest /\ rest[i - 1] = plan[i])
  BY <1>1
<1>3. Made(plan) = Head(plan).made \cup Made(rest)
  <2>1. Made(plan) \subseteq Head(plan).made \cup Made(rest)
    BY <1>1, <1>2 DEF Made
  <2>2. Head(plan).made \cup Made(rest) \subseteq Made(plan)
    BY <1>1 DEF Made
  <2> QED BY <2>1, <2>2
<1>4. Fills(plan) = Head(plan).fills \cup Fills(rest)
  <2>1. Fills(plan) \subseteq Head(plan).fills \cup Fills(rest)
    BY <1>1, <1>2 DEF Fills
  <2>2. Head(plan).fills \cup Fills(rest) \subseteq Fills(plan)
    BY <1>1 DEF Fills
  <2> QED BY <2>1, <2>2
<1> QED BY <1>1, <1>3, <1>4

LEMMA VersionsNumbered ==
    /\ Len(Versions) = 12
    /\ DOMAIN Versions = 1..12
    /\ Version = {"initial", "pending_username", "remote_security",
                  "saved_messages", "notification_archive",
                  "performance_counters", "dm_sidebar_scale",
                  "device_link_tokens", "message_labels", "query_performance",
                  "username_reservations", "message_labels_backfill"}
    /\ \A i \in 1..12 : i = 1 \/ Versions[i] # "initial"
    /\ Versions[1] = "initial"
<1>1. Len(Versions) = 12 /\ DOMAIN Versions = 1..12 /\ Versions[1] = "initial"
  BY DEF Versions
<1>2. \A i \in 1..12 : i = 1 \/ Versions[i] # "initial"
  BY DEF Versions
<1>3. Version = {"initial", "pending_username", "remote_security",
                "saved_messages", "notification_archive",
                "performance_counters", "dm_sidebar_scale",
                "device_link_tokens", "message_labels", "query_performance",
                "username_reservations", "message_labels_backfill"}
  BY <1>1 DEF Version, Versions
<1> QED BY <1>1, <1>2, <1>3

\* A plan for each version, statement by statement.
LEMMA PlansSpelledOut ==
    ASSUME NEW has
    PROVE  /\ Plan("initial", has) = Initial
           /\ Plan("pending_username", has) = PendingUsername
           /\ Plan("remote_security", has) = RemoteSecurity
           /\ Plan("saved_messages", has) = SavedMessages
           /\ Plan("notification_archive", has) = NotificationArchive(has)
           /\ Plan("performance_counters", has) = PerformanceCounters(has)
           /\ Plan("dm_sidebar_scale", has) = DmSidebarScale
           /\ Plan("device_link_tokens", has) = DeviceLinkTokens
           /\ Plan("message_labels", has) = MessageLabels
           /\ Plan("query_performance", has) = QueryPerformance(has)
           /\ Plan("username_reservations", has) = UsernameReservations
           /\ Plan("message_labels_backfill", has) = BackfillMessageLabels
  BY DEF Plan

\* What each version makes and fills on a database that has nothing yet.
Leaves(version, made, fills) ==
    Made(Plan(version, {})) = made /\ Fills(Plan(version, {})) = fills

LEMMA PlanContents ==
    /\ Leaves("initial", {"accounts", "thread_reads"} \cup Folded, {})
    /\ Leaves("pending_username", {"pending_username"}, {})
    /\ Leaves("remote_security",
              {"server_leases", "node_id", "webhook_jobs"}, {})
    /\ Leaves("saved_messages", {"saved_messages", "saved_index"}, {})
    /\ Leaves("notification_archive", {"archived_at", "archived_index"}, {})
    /\ Leaves("performance_counters",
              {"thread_unread_count", "conversation_unread_count",
               "counter_indexes"}, Counters)
    /\ Leaves("dm_sidebar_scale", {"dm_sidebar_index"}, {})
    /\ Leaves("device_link_tokens", {"device_link_tokens"}, {})
    /\ Leaves("message_labels", {"message_labels"}, {})
    /\ Leaves("query_performance",
              {"name_key", "search_documents", "query_indexes"},
              {"name_keys", "search_rows"})
    /\ Leaves("username_reservations", {"reservations"}, {"reservation_rows"})
    /\ Leaves("message_labels_backfill", {}, {"labels"})
<1> USE DEF Leaves, Once, Again, Fill, Counters
<1>1. Leaves("initial", {"accounts", "thread_reads"} \cup Folded, {})
  BY PlansSpelledOut, TwoStatements DEF Initial
<1>2. Leaves("pending_username", {"pending_username"}, {})
  BY PlansSpelledOut, OneStatement DEF PendingUsername
<1>3. Leaves("remote_security",
             {"server_leases", "node_id", "webhook_jobs"}, {})
  BY PlansSpelledOut, ThreeStatements DEF RemoteSecurity
<1>4. Leaves("saved_messages", {"saved_messages", "saved_index"}, {})
  BY PlansSpelledOut, TwoStatements DEF SavedMessages
<1>5. Leaves("notification_archive", {"archived_at", "archived_index"}, {})
  BY PlansSpelledOut, TwoStatements DEF NotificationArchive
<1>6. Leaves("performance_counters",
             {"thread_unread_count", "conversation_unread_count",
              "counter_indexes"}, Counters)
  BY PlansSpelledOut, FiveStatements DEF PerformanceCounters
<1>7. Leaves("dm_sidebar_scale", {"dm_sidebar_index"}, {})
  BY PlansSpelledOut, OneStatement DEF DmSidebarScale
<1>8. Leaves("device_link_tokens", {"device_link_tokens"}, {})
  BY PlansSpelledOut, OneStatement DEF DeviceLinkTokens
<1>9. Leaves("message_labels", {"message_labels"}, {})
  BY PlansSpelledOut, OneStatement DEF MessageLabels
<1>10. Leaves("query_performance",
              {"name_key", "search_documents", "query_indexes"},
              {"name_keys", "search_rows"})
  BY PlansSpelledOut, FiveStatements DEF QueryPerformance
<1>11. Leaves("username_reservations", {"reservations"}, {"reservation_rows"})
  BY PlansSpelledOut, TwoStatements DEF UsernameReservations
<1>12. Leaves("message_labels_backfill", {}, {"labels"})
  BY PlansSpelledOut, OneStatement DEF BackfillMessageLabels
<1> QED BY <1>1, <1>2, <1>3, <1>4, <1>5, <1>6, <1>7, <1>8,
           <1>9, <1>10, <1>11, <1>12

\* What a version that is recorded has made: the older releases' initial
\* migration made nothing of what is folded into the current one, and a start
\* that finds the counters makes no index of them.
Own(version) == IF version = "initial" THEN {"accounts", "thread_reads"}
                ELSE Made(Plan(version, {})) \ {"counter_indexes"}

\* What it has filled, come what may.
Lasting(version) == Fills(Plan(version, {})) \ Counters

\* The schema has what each version makes, folded or not.
LEMMA SchemaMade ==
    /\ \A version \in Version : Made(Plan(version, {})) \subseteq Schema
    /\ Schema \ {"counter_indexes"} \subseteq UNION {Own(version) : version \in Version}
<1>1. \A version \in Version : Made(Plan(version, {})) \subseteq Schema
  BY DEF Schema
<1>2. Folded \ {"counter_indexes"} \subseteq UNION {Own(version) : version \in Version}
  <2>1. /\ {"thread_unread_count", "conversation_unread_count"}
             \subseteq Own("performance_counters")
        /\ {"device_link_tokens"} \subseteq Own("device_link_tokens")
        /\ {"message_labels"} \subseteq Own("message_labels")
        /\ {"name_key", "search_documents"} \subseteq Own("query_performance")
        /\ {"reservations"} \subseteq Own("username_reservations")
    BY PlanContents DEF Own, Leaves
  <2> QED BY <2>1, VersionsNumbered DEF Folded
<1>3. \A version \in Version :
        Made(Plan(version, {})) \ {"counter_indexes"} \subseteq Own(version) \cup Folded
  BY PlanContents DEF Own, Leaves
<1>4. \A version \in Version :
        Made(Plan(version, {})) \ {"counter_indexes"}
            \subseteq UNION {Own(w) : w \in Version}
  BY <1>2, <1>3
<1> QED BY <1>1, <1>4 DEF Schema

\* Whatever a version finds, what it runs makes and fills what it owes.
LEMMA EveryPlan ==
    ASSUME NEW version \in Version, NEW has
    PROVE  /\ Own(version) \subseteq has \cup Made(Plan(version, has))
           /\ Lasting(version) \subseteq Fills(Plan(version, has))
<1> USE DEF Once, Again, Fill, Own, Lasting
<1>1. CASE version = "notification_archive"
  BY <1>1, PlansSpelledOut, PlanContents, OneStatement, TwoStatements
     DEF NotificationArchive, Leaves
<1>2. CASE version = "performance_counters"
  BY <1>2, PlansSpelledOut, PlanContents, NoStatement, FiveStatements
     DEF PerformanceCounters, Leaves
<1>3. CASE version = "query_performance"
  BY <1>3, PlansSpelledOut, PlanContents, FourStatements, FiveStatements
     DEF QueryPerformance, Leaves
<1>4. CASE version = "initial"
  BY <1>4, PlansSpelledOut, PlanContents DEF Leaves
<1>5. CASE version \notin {"notification_archive", "performance_counters",
                          "query_performance", "initial"}
  <2>1. Plan(version, has) = Plan(version, {})
    BY <1>5, VersionsNumbered, PlansSpelledOut
  <2> QED BY <1>5, <2>1
<1> QED BY <1>1, <1>2, <1>3, <1>4, <1>5

LEMMA EveryStatement ==
    /\ Once({"accounts", "thread_reads"}) \in Statement
    /\ Once(Folded) \in Statement
    /\ \A x \in {"pending_username", "node_id", "saved_messages", "saved_index",
              "archived_at", "archived_index", "thread_unread_count",
              "conversation_unread_count", "name_key"} : Once({x}) \in Statement
    /\ \A x \in {"server_leases", "webhook_jobs", "archived_index",
              "dm_sidebar_index", "device_link_tokens", "message_labels",
              "search_documents", "reservations", "counter_indexes",
              "query_indexes"} : Again({x}) \in Statement
    /\ \A data \in Data : Fill(data) \in Statement
<1>1. {"accounts", "thread_reads"} \cup Folded \subseteq Schema
  BY SchemaMade, PlanContents, VersionsNumbered DEF Leaves
<1>2. {"pending_username", "server_leases", "node_id", "webhook_jobs",
       "saved_messages", "saved_index", "archived_at", "archived_index",
       "thread_unread_count", "conversation_unread_count", "dm_sidebar_index",
       "device_link_tokens", "message_labels", "name_key", "search_documents",
       "reservations", "counter_indexes", "query_indexes"} \subseteq Schema
  BY SchemaMade, PlanContents, VersionsNumbered DEF Leaves
<1> QED BY <1>1, <1>2 DEF Once, Again, Fill, Statement

LEMMA ShortPlans ==
    /\ << >> \in Seq(Statement)
    /\ \A a \in Statement : <<a>> \in Seq(Statement)
    /\ \A a, b \in Statement : <<a, b>> \in Seq(Statement)
    /\ \A a, b, c \in Statement : <<a, b, c>> \in Seq(Statement)
    /\ \A a, b, c, d \in Statement : <<a, b, c, d>> \in Seq(Statement)
    /\ \A a, b, c, d, e \in Statement : <<a, b, c, d, e>> \in Seq(Statement)
  OBVIOUS

LEMMA PlanTyped ==
    ASSUME NEW version \in Version, NEW has
    PROVE  Plan(version, has) \in Seq(Statement)
<1>1. CASE version = "initial"
  <2>1. /\ Once({"accounts", "thread_reads"}) \in Statement
        /\ Once(Folded) \in Statement
    BY EveryStatement
  <2>2. Initial \in Seq(Statement)
    BY <2>1, ShortPlans DEF Initial
  <2> QED BY <1>1, <2>2, PlansSpelledOut
<1>2. CASE version = "pending_username"
  BY <1>2, PlansSpelledOut, EveryStatement, ShortPlans DEF PendingUsername
<1>3. CASE version = "remote_security"
  <2>1. /\ Again({"server_leases"}) \in Statement
        /\ Once({"node_id"}) \in Statement
        /\ Again({"webhook_jobs"}) \in Statement
    BY EveryStatement
  <2>2. RemoteSecurity \in Seq(Statement)
    BY <2>1, ShortPlans DEF RemoteSecurity
  <2> QED BY <1>3, <2>2, PlansSpelledOut
<1>4. CASE version = "saved_messages"
  <2>1. /\ Once({"saved_messages"}) \in Statement
        /\ Once({"saved_index"}) \in Statement
    BY EveryStatement
  <2>2. SavedMessages \in Seq(Statement)
    BY <2>1, ShortPlans DEF SavedMessages
  <2> QED BY <1>4, <2>2, PlansSpelledOut
<1>5. CASE version = "notification_archive"
  <2>1. /\ Again({"archived_index"}) \in Statement
        /\ Once({"archived_at"}) \in Statement
        /\ Once({"archived_index"}) \in Statement
    BY EveryStatement
  <2>2. NotificationArchive(has) \in Seq(Statement)
    BY <2>1, ShortPlans DEF NotificationArchive
  <2> QED BY <1>5, <2>2, PlansSpelledOut
<1>6. CASE version = "performance_counters"
  <2>1. /\ Once({"thread_unread_count"}) \in Statement
        /\ Once({"conversation_unread_count"}) \in Statement
        /\ Fill("thread_unread") \in Statement
        /\ Fill("conversation_unread") \in Statement
        /\ Again({"counter_indexes"}) \in Statement
    BY EveryStatement DEF Data, Counters
  <2>2. PerformanceCounters(has) \in Seq(Statement)
    BY <2>1, ShortPlans DEF PerformanceCounters
  <2> QED BY <1>6, <2>2, PlansSpelledOut
<1>7. CASE version = "dm_sidebar_scale"
  BY <1>7, PlansSpelledOut, EveryStatement, ShortPlans DEF DmSidebarScale
<1>8. CASE version = "device_link_tokens"
  BY <1>8, PlansSpelledOut, EveryStatement, ShortPlans DEF DeviceLinkTokens
<1>9. CASE version = "message_labels"
  BY <1>9, PlansSpelledOut, EveryStatement, ShortPlans DEF MessageLabels
<1>10. CASE version = "query_performance"
  <2>1. /\ Once({"name_key"}) \in Statement
        /\ Fill("name_keys") \in Statement
        /\ Again({"search_documents"}) \in Statement
        /\ Fill("search_rows") \in Statement
        /\ Again({"query_indexes"}) \in Statement
    BY EveryStatement DEF Data, Counters
  <2>2. QueryPerformance(has) \in Seq(Statement)
    BY <2>1, ShortPlans DEF QueryPerformance
  <2> QED BY <1>10, <2>2, PlansSpelledOut
<1>11. CASE version = "username_reservations"
  <2>1. /\ Again({"reservations"}) \in Statement
        /\ Fill("reservation_rows") \in Statement
    BY EveryStatement DEF Data
  <2>2. UsernameReservations \in Seq(Statement)
    BY <2>1, ShortPlans DEF UsernameReservations
  <2> QED BY <1>11, <2>2, PlansSpelledOut
<1>12. CASE version = "message_labels_backfill"
  BY <1>12, PlansSpelledOut, EveryStatement, ShortPlans
     DEF BackfillMessageLabels, Data
<1> QED BY <1>1, <1>2, <1>3, <1>4, <1>5, <1>6, <1>7, <1>8,
           <1>9, <1>10, <1>11, <1>12, VersionsNumbered

-----------------------------------------------------------------------------
(* Types.                                                                  *)

LEMMA OffTyped == Off \in Progress
  BY VersionsNumbered DEF Off, Progress

LEMMA ExitTyped ==
    ASSUME TypeOK, NEW p \in Process, Exit(p)
    PROVE  /\ proc' \in [Process -> Progress]
           /\ lease' \in Process \cup {NoProcess}
  BY OffTyped DEF TypeOK, Exit

\* A process whose entry is changed field by field stays one.
LEMMA ProgressTyped ==
    ASSUME NEW x \in Progress
    PROVE  /\ \A phase \in {"off", "init", "apply", "open"} :
                [x EXCEPT !.phase = phase] \in Progress
           /\ \A key \in BOOLEAN :
                [Off EXCEPT !.phase = "init", !.key = key] \in Progress
           /\ \A v \in 1..12, plan \in Seq(Statement) :
                [x EXCEPT !.phase = "apply", !.version = v, !.plan = plan]
                    \in Progress
           /\ \A plan \in Seq(Statement) : [x EXCEPT !.plan = plan] \in Progress
           /\ [x EXCEPT !.phase = "open", !.version = 1] \in Progress
  BY OffTyped, VersionsNumbered DEF Progress, Off

LEMMA InitTyped == Init => TypeOK
<1> SUFFICES ASSUME Init PROVE TypeOK
  OBVIOUS
<1>1. PICK r \in Released :
        /\ objects = Left(r)
        /\ recorded = {Versions[i] : i \in 1..r}
        /\ stale = IF r = 0 THEN {} ELSE Data \ UNION
                     {Fills(Plan(Versions[i], {})) : i \in 2..r}
        /\ content \in Rows(r)
  BY DEF Init
<1>2. r \in 0..11
  BY VersionsNumbered
<1>3. \A i \in 1..r : Versions[i] \in Version
  BY <1>2, VersionsNumbered DEF Version
<1>4. objects \subseteq Schema
  <2>1. {"accounts", "thread_reads"} \subseteq Schema
    BY SchemaMade, PlanContents, VersionsNumbered DEF Leaves
  <2>2. \A i \in 2..r : Made(Plan(Versions[i], {})) \subseteq Schema
    BY <1>2, <1>3, SchemaMade
  <2> QED BY <1>1, <2>1, <2>2 DEF Left
<1>5. recorded \subseteq Version /\ stale \subseteq Data
  BY <1>1, <1>3
<1>6. content \subseteq Text
  BY <1>1 DEF Rows, Text
<1>7. proc \in [Process -> Progress] /\ lease \in Process \cup {NoProcess}
  BY OffTyped DEF Init
<1> QED BY <1>4, <1>5, <1>6, <1>7 DEF TypeOK, Init

LEMMA PassesTyped ==
    ASSUME TypeOK, NEW p \in Process, NEW key \in BOOLEAN, Passes(p, key)
    PROVE  /\ unguarded' \in BOOLEAN
           /\ unguarded => unguarded'
           /\ ~unguarded' => Accepts(p, key, content)
<1>1. Accepts(p, key, content) \in BOOLEAN
  BY DEF Accepts, Plain
<1> QED BY <1>1 DEF Passes, TypeOK

LEMMA StepTyped == TypeOK /\ [Next]_vars => TypeOK'
<1> SUFFICES ASSUME TypeOK, [Next]_vars PROVE TypeOK'
  OBVIOUS
<1>1. CASE UNCHANGED vars
  BY <1>1 DEF TypeOK, vars, schema
<1>2. ASSUME NEW p \in Process, Connect(p) PROVE TypeOK'
  <2>1. PICK key \in BOOLEAN :
          /\ Passes(p, key)
          /\ proc' = [proc EXCEPT ![p] = [Off EXCEPT !.phase = "init",
                                                    !.key = key]]
    BY <1>2 DEF Connect
  <2>2. unguarded' \in BOOLEAN
    BY <2>1, PassesTyped
  <2> QED BY <1>2, <2>1, <2>2, ProgressTyped DEF TypeOK, Connect, schema
<1>3. ASSUME NEW p \in Process, BeginVersion(p) PROVE TypeOK'
  <2>1. PICK v \in Missing(p) :
          proc' = [proc EXCEPT ![p].phase = "apply", ![p].version = v,
                              ![p].plan = Plan(Versions[v], objects)]
    BY <1>3 DEF BeginVersion
  <2>2. v \in 1..12 /\ Versions[v] \in Version
    <3>1. proc[p].version \in 1..12
      BY VersionsNumbered DEF TypeOK, Progress
    <3>2. v \in proc[p].version..12
      BY VersionsNumbered DEF Missing
    <3> QED BY <3>1, <3>2, VersionsNumbered DEF Version
  <2>3. Plan(Versions[v], objects) \in Seq(Statement)
    BY <2>2, PlanTyped
  <2>4. [proc[p] EXCEPT !.phase = "apply", !.version = v,
                        !.plan = Plan(Versions[v], objects)] \in Progress
    BY <2>2, <2>3, ProgressTyped DEF TypeOK
  <2> QED BY <1>3, <2>1, <2>4 DEF TypeOK, BeginVersion, schema
<1>4. ASSUME NEW p \in Process, Execute(p) PROVE TypeOK'
  <2>1. proc[p] \in Progress /\ proc[p].plan \in Seq(Statement)
        /\ proc[p].plan # << >>
    BY <1>4 DEF Execute, Applying, TypeOK, Progress
  <2>2. Current(p) \in Statement /\ Tail(proc[p].plan) \in Seq(Statement)
    BY <2>1, PlanSplit DEF Current
  <2>3. Current(p).made \subseteq Schema
    BY <2>2 DEF Statement
  <2>4. [proc[p] EXCEPT !.plan = Tail(proc[p].plan)] \in Progress
    BY <2>1, <2>2, ProgressTyped
  <2> QED BY <1>4, <2>3, <2>4 DEF TypeOK, Execute
<1>5. ASSUME NEW p \in Process,
             ExecuteFails(p) \/ RecordFails(p) \/ Leave(p)
      PROVE TypeOK'
  BY <1>5, ExitTyped DEF TypeOK, ExecuteFails, RecordFails, Leave, schema
<1>6. ASSUME NEW p \in Process, Record(p) PROVE TypeOK'
  <2>1. Versions[proc[p].version] \in Version
    BY VersionsNumbered DEF TypeOK, Progress, Version
  <2>2. [proc[p] EXCEPT !.phase = "init"] \in Progress
    BY ProgressTyped DEF TypeOK
  <2> QED BY <1>6, <2>1, <2>2 DEF TypeOK, Record
<1>7. ASSUME NEW p \in Process, Serve(p) PROVE TypeOK'
  <2>1. unguarded' \in BOOLEAN
    BY <1>7, PassesTyped DEF Serve, TypeOK, Progress
  <2>2. proc' = [proc EXCEPT ![p] = [proc[p] EXCEPT !.phase = "open", !.version = 1]]
    BY <1>7 DEF Serve
  <2>3. [proc[p] EXCEPT !.phase = "open", !.version = 1] \in Progress
    BY ProgressTyped DEF TypeOK
  <2>4. proc' \in [Process -> Progress]
    BY <2>2, <2>3 DEF TypeOK
  <2>5. UNCHANGED <<objects, recorded, stale, content, lease>>
    BY <1>7 DEF Serve, schema
  <2> QED BY <2>1, <2>4, <2>5 DEF TypeOK
<1>8. ASSUME NEW p \in Process, TakeLease(p) PROVE TypeOK'
  BY <1>8 DEF TypeOK, TakeLease, schema
<1>9. ASSUME NEW p \in Process, Write(p) \/ Edit(p) \/ Seal(p) PROVE TypeOK'
  <2>1. unguarded' = (unguarded \/ Overlaps(p)) /\ UNCHANGED <<schema, lease, proc>>
    BY <1>9 DEF Write, Edit, Seal
  <2>2. unguarded' \in BOOLEAN
    BY <2>1 DEF TypeOK, Overlaps
  <2>3. content' \subseteq Text
    <3>1. CASE Write(p)
      BY <3>1 DEF TypeOK, Write, Written, Text
    <3>2. CASE Edit(p)
      BY <3>2 DEF TypeOK, Edit, Rewritten, Text
    <3>3. CASE Seal(p)
      BY <3>3 DEF TypeOK, Seal, Sealed, Text
    <3> QED BY <1>9, <3>1, <3>2, <3>3
  <2> QED BY <2>1, <2>2, <2>3 DEF TypeOK, schema
<1> QED BY <1>1, <1>2, <1>3, <1>4, <1>5, <1>6, <1>7, <1>8, <1>9 DEF Next

\* Every reachable database and process is well-formed.
THEOREM TypeCorrect == Spec => []TypeOK
BY InitTyped, StepTyped, PTL DEF Spec

-----------------------------------------------------------------------------
(* Migrations.  A version that is recorded has made and filled what it     *)
(* owes; one that is being applied will have once its plan is through.     *)

Done(version) ==
    /\ Own(version) \subseteq objects
    /\ Lasting(version) \cap stale = {}

Owing(version, plan) ==
    /\ Own(version) \subseteq objects \cup Made(plan)
    /\ Lasting(version) \cap stale \subseteq Fills(plan)

OnItsWay(p) ==
    /\ proc[p].phase = "apply" => Owing(Versions[proc[p].version], proc[p].plan)
    /\ proc[p].phase \in {"init", "apply"} =>
         \A i \in 1..proc[p].version - 1 : Versions[i] \in recorded
    /\ proc[p].phase = "open" => recorded = Version

MigrationInv ==
    /\ \A version \in recorded : Done(version)
    /\ \A p \in Process : OnItsWay(p)

\* What has been made, filled and recorded stays so: a step of another
\* process takes nobody off its way.
LEMMA OthersKeepTheirWay ==
    ASSUME TypeOK, TypeOK', objects \subseteq objects', stale' \subseteq stale,
           recorded \subseteq recorded',
           NEW p \in Process, proc'[p] = proc[p], OnItsWay(p)
    PROVE  OnItsWay(p)'
<1>1. recorded = Version => recorded' = Version
  BY DEF TypeOK
<1> QED BY <1>1 DEF OnItsWay, Owing

LEMMA DoneStaysDone ==
    ASSUME objects \subseteq objects', stale' \subseteq stale, NEW version,
           Done(version)
    PROVE  Done(version)'
  BY DEF Done

LEMMA InitMigrates == Init => MigrationInv
<1> SUFFICES ASSUME Init PROVE MigrationInv
  OBVIOUS
<1>1. PICK r \in Released :
        /\ objects = Left(r)
        /\ recorded = {Versions[i] : i \in 1..r}
        /\ stale = IF r = 0 THEN {} ELSE Data \ UNION
                     {Fills(Plan(Versions[i], {})) : i \in 2..r}
  BY DEF Init
<1>2. r \in 0..11
  BY VersionsNumbered
<1>3. ASSUME NEW i \in 1..r PROVE Done(Versions[i])
  <2>1. CASE i = 1
    <3>1. Own(Versions[i]) \subseteq objects
      BY <1>1, <1>2, <2>1, VersionsNumbered DEF Own, Left
    <3>2. Lasting(Versions[i]) = {}
      BY <2>1, VersionsNumbered, PlanContents DEF Lasting, Leaves
    <3> QED BY <3>1, <3>2 DEF Done
  <2>2. CASE i # 1
    <3>1. i \in 2..r /\ Versions[i] # "initial"
      BY <1>2, <2>2, VersionsNumbered
    <3>2. Own(Versions[i]) \subseteq objects
      BY <1>1, <1>2, <3>1 DEF Own, Left
    <3>3. Fills(Plan(Versions[i], {})) \cap stale = {}
      BY <1>1, <1>2, <3>1
    <3> QED BY <3>2, <3>3 DEF Done, Lasting
  <2> QED BY <2>1, <2>2
<1>4. \A p \in Process : OnItsWay(p)
  BY DEF Init, Off, OnItsWay
<1> QED BY <1>1, <1>3, <1>4 DEF MigrationInv

LEMMA StepMigrates ==
    ASSUME TypeOK, TypeOK', MigrationInv, [Next]_vars
    PROVE  MigrationInv'
<1> DEFINE Keeps == UNCHANGED schema
<1>1. CASE UNCHANGED vars
  BY <1>1 DEF MigrationInv, OnItsWay, Owing, Done, vars, schema
<1>2. ASSUME NEW p \in Process, Keeps, OnItsWay(p)',
             \A q \in Process \ {p} : proc'[q] = proc[q]
      PROVE  MigrationInv'
  <2>1. \A version \in recorded' : Done(version)'
    BY <1>2, DoneStaysDone DEF MigrationInv, schema
  <2>2. \A q \in Process : OnItsWay(q)'
    BY <1>2, OthersKeepTheirWay DEF MigrationInv, schema
  <2> QED BY <2>1, <2>2 DEF MigrationInv
<1>3. ASSUME NEW p \in Process, Connect(p) PROVE MigrationInv'
  <2>1. proc'[p].phase = "init" /\ proc'[p].version = 1
    BY <1>3 DEF Connect, TypeOK, Off
  <2>2. OnItsWay(p)'
    BY <2>1 DEF OnItsWay
  <2> QED BY <1>2, <1>3, <2>2 DEF Connect, TypeOK
<1>4. ASSUME NEW p \in Process, BeginVersion(p) PROVE MigrationInv'
  <2>1. PICK v \in Missing(p) :
          /\ \A w \in Missing(p) : v <= w
          /\ proc' = [proc EXCEPT ![p].phase = "apply", ![p].version = v,
                                 ![p].plan = Plan(Versions[v], objects)]
    BY <1>4 DEF BeginVersion
  <2>2. proc[p].version \in 1..12 /\ v \in proc[p].version..12
    BY VersionsNumbered DEF TypeOK, Progress, Missing
  <2>3. /\ proc'[p].phase = "apply" /\ proc'[p].version = v
        /\ proc'[p].plan = Plan(Versions[v], objects)
    BY <2>1 DEF TypeOK, Progress
  <2>4. Owing(Versions[v], Plan(Versions[v], objects))'
    <3>1. Versions[v] \in Version
      BY <2>2, VersionsNumbered DEF Version
    <3>2. objects' = objects
      BY <1>4 DEF BeginVersion, schema
    <3> QED BY <3>1, <3>2, EveryPlan DEF Owing
  <2>5. \A i \in 1..v - 1 : Versions[i] \in recorded
    <3>1. \A i \in 1..proc[p].version - 1 : Versions[i] \in recorded
      BY <1>4 DEF BeginVersion, MigrationInv, OnItsWay
    <3>2. ASSUME NEW i \in proc[p].version..v - 1
          PROVE  Versions[i] \in recorded
      BY <2>1, <2>2, VersionsNumbered DEF Missing
    <3> QED BY <2>2, <3>1, <3>2
  <2>6. OnItsWay(p)'
    BY <1>4, <2>3, <2>4, <2>5 DEF OnItsWay, BeginVersion, schema
  <2> QED BY <1>2, <1>4, <2>1, <2>6 DEF BeginVersion, TypeOK
<1>5. ASSUME NEW p \in Process, Execute(p) PROVE MigrationInv'
  <2> DEFINE plan == proc[p].plan  version == Versions[proc[p].version]
  <2>1. plan \in Seq(Statement) /\ plan # << >> /\ proc[p].phase = "apply"
    BY <1>5 DEF Execute, Applying, TypeOK, Progress
  <2>2. /\ Made(plan) = Head(plan).made \cup Made(Tail(plan))
        /\ Fills(plan) = Head(plan).fills \cup Fills(Tail(plan))
    BY <2>1, PlanSplit
  <2>3. /\ objects' = objects \cup Head(plan).made
        /\ stale' = stale \ Head(plan).fills
        /\ recorded' = recorded
        /\ proc' = [proc EXCEPT ![p].plan = Tail(plan)]
    BY <1>5 DEF Execute, Current
  <2>4. /\ proc'[p].phase = "apply" /\ proc'[p].version = proc[p].version
        /\ proc'[p].plan = Tail(plan)
    BY <2>1, <2>3 DEF TypeOK, Progress
  <2>5. Owing(version, plan) /\ \A i \in 1..proc[p].version - 1 :
                                  Versions[i] \in recorded
    BY <2>1 DEF MigrationInv, OnItsWay
  <2>6. /\ Own(version) \subseteq objects' \cup Made(Tail(plan))
        /\ Lasting(version) \cap stale' \subseteq Fills(Tail(plan))
    BY <2>2, <2>3, <2>5 DEF Owing
  <2>7. OnItsWay(p)'
    BY <2>3, <2>4, <2>5, <2>6 DEF OnItsWay, Owing
  <2>8. \A q \in Process \ {p} : OnItsWay(q)'
    BY <2>3, OthersKeepTheirWay DEF MigrationInv, TypeOK
  <2>9. \A w \in recorded' : Done(w)'
    BY <2>3, DoneStaysDone DEF MigrationInv
  <2> QED BY <2>7, <2>8, <2>9 DEF MigrationInv
<1>6. ASSUME NEW p \in Process,
             ExecuteFails(p) \/ RecordFails(p) \/ Leave(p)
      PROVE MigrationInv'
  <2>1. Exit(p) /\ Keeps
    BY <1>6 DEF ExecuteFails, RecordFails, Leave
  <2>2. OnItsWay(p)'
    BY <2>1 DEF Exit, OnItsWay, Off, TypeOK
  <2> QED BY <1>2, <2>1, <2>2 DEF Exit, TypeOK
<1>7. ASSUME NEW p \in Process, Record(p) PROVE MigrationInv'
  <2> DEFINE version == Versions[proc[p].version]
  <2>1. /\ objects' = objects /\ stale' = stale
        /\ recorded' = recorded \cup {version}
        /\ proc' = [proc EXCEPT ![p].phase = "init"]
        /\ proc[p].phase = "apply" /\ proc[p].plan = << >>
    BY <1>7 DEF Record, Applied
  <2>2. Owing(version, << >>)
    BY <2>1 DEF MigrationInv, OnItsWay
  <2>3. Done(version)
    BY <2>2, NoStatement DEF Owing, Done
  <2>4. \A w \in recorded' : Done(w)'
    BY <2>1, <2>3, DoneStaysDone DEF MigrationInv
  <2>5. proc'[p].phase = "init" /\ proc'[p].version = proc[p].version
    BY <2>1 DEF TypeOK, Progress
  <2>6. \A i \in 1..proc[p].version - 1 : Versions[i] \in recorded
    BY <2>1 DEF MigrationInv, OnItsWay
  <2>7. OnItsWay(p)'
    BY <2>1, <2>5, <2>6 DEF OnItsWay
  <2>8. \A q \in Process \ {p} : OnItsWay(q)'
    BY <2>1, OthersKeepTheirWay DEF MigrationInv, TypeOK
  <2> QED BY <2>4, <2>7, <2>8 DEF MigrationInv
<1>8. ASSUME NEW p \in Process, Serve(p) PROVE MigrationInv'
  <2>1. proc[p].version \in 1..12 /\ proc[p].phase = "init"
    BY <1>8, VersionsNumbered DEF Serve, TypeOK, Progress
  <2>2. \A i \in 1..proc[p].version - 1 : Versions[i] \in recorded
    BY <2>1 DEF MigrationInv, OnItsWay
  <2>3. \A i \in proc[p].version..12 : Versions[i] \in recorded
    BY <1>8, VersionsNumbered DEF Serve, Missing
  <2>4. \A i \in 1..12 : Versions[i] \in recorded
    BY <2>1, <2>2, <2>3
  <2>5. recorded = Version
    BY <2>4, VersionsNumbered DEF TypeOK, Version
  <2>6. proc'[p].phase = "open" /\ recorded' = recorded
    BY <1>8 DEF Serve, TypeOK, Progress, schema
  <2>7. OnItsWay(p)'
    BY <2>5, <2>6 DEF OnItsWay
  <2> QED BY <1>2, <1>8, <2>7 DEF Serve, TypeOK
<1>9. ASSUME NEW p \in Process, TakeLease(p) \/ Write(p) \/ Edit(p) \/ Seal(p)
      PROVE MigrationInv'
  <2>1. Keeps /\ proc' = proc
    BY <1>9 DEF TakeLease, Write, Edit, Seal
  <2> QED BY <2>1 DEF MigrationInv, OnItsWay, Owing, Done, schema
<1> QED BY <1>1, <1>3, <1>4, <1>5, <1>6, <1>7, <1>8, <1>9 DEF Next

LEMMA MigrationInvHolds == Spec => []MigrationInv
<1>1. TypeOK /\ TypeOK' /\ MigrationInv /\ [Next]_vars => MigrationInv'
  BY StepMigrates
<1> QED BY <1>1, InitMigrates, TypeCorrect, PTL DEF Spec

\* However many processes start at once and die, on a database of whichever
\* release, one that is past init has the schema under it and finds every
\* version recorded; only the indexes of the counters may be missing.
THEOREM ServersAreMigrated == Spec => []ServesMigrated
<1>1. TypeOK /\ MigrationInv => ServesMigrated
  BY SchemaMade DEF MigrationInv, OnItsWay, Done, ServesMigrated
<1> QED BY <1>1, TypeCorrect, MigrationInvHolds, PTL

\* A version is only recorded once what it derives is there, the counters
\* excepted.
THEOREM RecordedIsFilled == Spec => []FillsRecorded
<1>1. MigrationInv => FillsRecorded
  BY DEF MigrationInv, Done, Lasting, FillsRecorded
<1> QED BY <1>1, MigrationInvHolds, PTL

-----------------------------------------------------------------------------
(* Content.  While no check of the key was passed by, what a running        *)
(* process holds to be true of the rows stays true.                        *)

Agrees(p) ==
    /\ "sealed" \in content => proc[p].key
    /\ "plain" \in content => ~proc[p].key \/ p \in Migrator

\* A plain body of a new thread comes with its sealed title, and goes with it
\* or before it.
Apart ==
    /\ ~("plain" \in content /\ "sealed" \in content)
    /\ "opening" \in content => "sealed" \in content

ContentInv ==
    /\ lease # NoProcess => proc[lease].phase # "off"
    /\ ~unguarded => Apart /\ \A p \in Process : proc[p].phase # "off" => Agrees(p)

LEMMA InitAgrees == Init => ContentInv
<1> SUFFICES ASSUME Init PROVE ContentInv
  OBVIOUS
<1>1. content \in {{}, {"plain", "alert"}, {"sealed"}}
  BY DEF Init, Rows
<1>2. lease = NoProcess /\ \A p \in Process : proc[p].phase = "off"
  BY DEF Init, Off
<1> QED BY <1>1, <1>2 DEF ContentInv, Apart

\* A step that changes no row, nor the key of a process that keeps running.
LEMMA StepKeepsRows ==
    ASSUME TypeOK, TypeOK', ContentInv, content' = content,
           unguarded => unguarded',
           NEW p \in Process, \A q \in Process \ {p} : proc'[q] = proc[q],
           ~unguarded' => (proc'[p].phase # "off" => Agrees(p)'),
           lease' # NoProcess => proc'[lease'].phase # "off"
    PROVE  ContentInv'
<1>1. \A q \in Process \ {p} : Agrees(q) => Agrees(q)'
  BY DEF Agrees
<1>2. Apart => Apart'
  BY DEF Apart
<1> QED BY <1>1, <1>2 DEF ContentInv

LEMMA StepAgrees ==
    ASSUME TypeOK, TypeOK', ContentInv, [Next]_vars
    PROVE  ContentInv'
<1>1. CASE UNCHANGED vars
  BY <1>1 DEF ContentInv, Apart, Agrees, vars
<1>2. ASSUME NEW p \in Process, Connect(p) PROVE ContentInv'
  <2>1. PICK key \in BOOLEAN :
          /\ Passes(p, key)
          /\ proc' = [proc EXCEPT ![p] = [Off EXCEPT !.phase = "init",
                                                    !.key = key]]
    BY <1>2 DEF Connect
  <2>2. proc'[p].key = key /\ proc'[p].phase = "init"
    BY <2>1 DEF TypeOK, Off
  <2>3. content' = content /\ lease' = lease
    BY <1>2 DEF Connect
  <2>4. /\ unguarded => unguarded'
        /\ ~unguarded' => Accepts(p, key, content)
    BY <2>1, PassesTyped
  <2>5. ~unguarded' => Agrees(p)'
    BY <2>2, <2>3, <2>4 DEF Agrees, Accepts, Plain
  <2>6. \A q \in Process \ {p} : proc'[q] = proc[q]
    BY <2>1 DEF TypeOK
  <2>7. lease' # NoProcess => proc'[lease'].phase # "off"
    BY <2>2, <2>3, <2>6 DEF ContentInv, TypeOK
  <2> QED BY <2>3, <2>4, <2>5, <2>6, <2>7, StepKeepsRows
<1>3. ASSUME NEW p \in Process,
             BeginVersion(p) \/ Execute(p) \/ Record(p) \/ Serve(p)
      PROVE ContentInv'
  <2>1. /\ proc[p].phase # "off"
        /\ proc'[p].phase # "off" /\ proc'[p].key = proc[p].key
        /\ \A q \in Process \ {p} : proc'[q] = proc[q]
        /\ UNCHANGED <<content, lease>>
        /\ unguarded => unguarded'
    <3>1. CASE BeginVersion(p)
      BY <3>1 DEF BeginVersion, TypeOK, Progress
    <3>2. CASE Execute(p)
      BY <3>2 DEF Execute, Applying, TypeOK, Progress
    <3>3. CASE Record(p)
      BY <3>3 DEF Record, Applied, TypeOK, Progress
    <3>4. CASE Serve(p)
      BY <3>4 DEF Serve, Passes, TypeOK, Progress
    <3> QED BY <1>3, <3>1, <3>2, <3>3, <3>4
  <2>2. \A q \in Process : Agrees(q) => Agrees(q)'
    BY <2>1 DEF Agrees
  <2>3. Apart => Apart'
    BY <2>1 DEF Apart
  <2> QED BY <2>1, <2>2, <2>3 DEF ContentInv, TypeOK
<1>4. ASSUME NEW p \in Process,
             ExecuteFails(p) \/ RecordFails(p) \/ Leave(p)
      PROVE ContentInv'
  <2>1. Exit(p) /\ UNCHANGED <<content, unguarded>>
    BY <1>4 DEF ExecuteFails, RecordFails, Leave
  <2>2. /\ proc'[p].phase = "off"
        /\ \A q \in Process \ {p} : proc'[q] = proc[q]
    BY <2>1 DEF Exit, Off, TypeOK
  <2>3. lease' # NoProcess => proc'[lease'].phase # "off"
    BY <2>1, <2>2 DEF Exit, ContentInv, TypeOK
  <2> QED BY <2>1, <2>2, <2>3, StepKeepsRows
<1>5. ASSUME NEW p \in Process, TakeLease(p) PROVE ContentInv'
  BY <1>5 DEF TakeLease, ContentInv, Apart, Agrees
<1>6. ASSUME NEW p \in Process, Write(p) \/ Edit(p) \/ Seal(p), ~unguarded'
      PROVE  Apart' /\ \A q \in Process : proc'[q].phase # "off" => Agrees(q)'
  <2>1. /\ lease = p /\ proc' = proc
        /\ ~unguarded /\ ~Overlaps(p)
    BY <1>6 DEF Write, Edit, Seal
  <2>2. \A q \in Process : proc[q].phase # "off" => proc[q].key = proc[p].key
    BY <2>1 DEF Overlaps
  <2>3. Agrees(p) /\ Apart
    BY <2>1 DEF ContentInv
  <2>4. \A q \in Process : proc[q].phase # "off" => Agrees(q)
    BY <2>1 DEF ContentInv
  <2>5. CASE Write(p) \/ Edit(p)
    <3>1. p \notin Migrator
      BY <2>5 DEF Write, Edit
    <3>2. CASE proc[p].key
      <4>1. "plain" \notin content' /\ ("opening" \in content' => "sealed" \in content')
        BY <2>3, <2>5, <3>1, <3>2 DEF Agrees, Apart, Write, Edit, Written, Rewritten
      <4> QED BY <2>1, <2>2, <3>2, <4>1 DEF Agrees, Apart
    <3>3. CASE ~proc[p].key
      <4>1. "sealed" \notin content' /\ "opening" \notin content'
        BY <2>3, <2>5, <3>3 DEF Agrees, Apart, Write, Edit, Written, Rewritten
      <4> QED BY <2>1, <2>2, <3>3, <4>1 DEF Agrees, Apart
    <3> QED BY <3>2, <3>3
  <2>6. CASE Seal(p)
    <3>1. /\ "plain" \notin content' /\ "opening" \notin content'
          /\ proc[p].key
      BY <2>6 DEF Seal, Sealed
    <3> QED BY <2>1, <2>2, <3>1 DEF Agrees, Apart, TypeOK, Progress
  <2> QED BY <1>6, <2>5, <2>6
<1>7. ASSUME NEW p \in Process, Write(p) \/ Edit(p) \/ Seal(p) PROVE ContentInv'
  <2>1. lease' = lease /\ proc' = proc
    BY <1>7 DEF Write, Edit, Seal
  <2> QED BY <1>6, <1>7, <2>1 DEF ContentInv
<1> QED BY <1>1, <1>2, <1>3, <1>4, <1>5, <1>7 DEF Next

\* While processes with the key and without it never run together as one of
\* them writes, and no failed count lets one in, what they write never meets,
\* through any starts, edits, migrations, takeovers and crashes.
THEOREM KeysStayApart == Spec => []KeysNeverMix
<1>1. TypeOK /\ TypeOK' /\ ContentInv /\ [Next]_vars => ContentInv'
  BY StepAgrees
<1>2. ContentInv => KeysNeverMix
  BY DEF ContentInv, Apart, Agrees, KeysNeverMix
<1> QED BY <1>1, <1>2, InitAgrees, TypeCorrect, PTL DEF Spec

=============================================================================
