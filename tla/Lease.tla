-------------------------------- MODULE Lease --------------------------------
(***************************************************************************)
(* The master lease: processes that share one database, each with a flag   *)
(* that lets its user writes through, and the row of server_leases they    *)
(* contend for from their heartbeats.                                      *)
(*                                                                         *)
(* Times are kept as what is left until them, and TimeUp once past: all    *)
(* clocks run together.  A process stalls for as long as Tick is taken     *)
(* before its next step.                                                   *)
(***************************************************************************)
EXTENDS Integers

CONSTANTS
    Server,      \* processes of `sshoosh serve`
    Migrator,    \* processes of `sshoosh encrypt migrate`
    NodeId,      \* the SSHOOSH_NODE_ID of each process
    Ttl,         \* master_lease_ttl, in ticks
    MaxToken,    \* bound of the model: no takeover beyond this fencing token
    None         \* no row

Process == Server \cup Migrator
Node == {NodeId[p] : p \in Process}
TimeUp == -1

ASSUME EveryProcessHasId == NodeId = [p \in Process |-> NodeId[p]]
ASSUME TtlPositive == Ttl \in Nat \ {0}
ASSUME BoundKnown == MaxToken \in Nat

\* No two processes run with one SSHOOSH_NODE_ID.
OneProcessPerNode == \A p, q \in Process : NodeId[p] = NodeId[q] => p = q

VARIABLES
    server_leases,   \* the committed row 'main', or None
    phase,           \* where each process is in try_acquire_or_renew_master
    serving,         \* processes past ServerRuntime::start
    is_master,       \* Database::is_master of each process
    fencing_token,   \* Database::fencing_token of each process
    lease_until,     \* what is left of the attempt's local lease_until
    cleared,         \* migrators past the ensure!(is_master()) of encrypt_migrate
    last_write,      \* outcome of the latest user write or migration
    granted          \* history: what is left of the lease last acquired

flags == <<is_master, fencing_token>>
vars == <<server_leases, phase, serving, flags, lease_until, cleared,
          last_write, granted>>

Left == TimeUp..Ttl
LeaseRow == [node : Node, token : Nat \ {0}, left : Left]

ASSUME NoneIsNoRow == None \notin LeaseRow

TypeOK ==
    /\ server_leases \in LeaseRow \cup {None}
    /\ phase \in [Process -> {"down", "idle", "waiting", "updating", "unsure"}]
    /\ serving \subseteq Process
    /\ is_master \in [Process -> BOOLEAN]
    /\ fencing_token \in [Process -> Nat]
    /\ lease_until \in [Process -> Left]
    /\ cleared \subseteq Migrator
    /\ last_write \in {"none", "refused", "leased", "unleased"}
    /\ granted \in [Process -> Left]

Init ==
    /\ server_leases = None
    /\ phase = [p \in Process |-> "down"]
    /\ serving = {}
    /\ is_master = [p \in Process |-> FALSE]
    /\ fencing_token = [p \in Process |-> 0]
    /\ lease_until = [p \in Process |-> TimeUp]
    /\ cleared = {}
    /\ last_write = "none"
    /\ granted = [p \in Process |-> TimeUp]
-----------------------------------------------------------------------------
Elapse(left) == IF left = TimeUp THEN TimeUp ELSE left - 1

Tick ==
    /\ server_leases' = IF server_leases = None THEN None
                        ELSE [node |-> server_leases.node,
                              token |-> server_leases.token,
                              left |-> Elapse(server_leases.left)]
    /\ lease_until' = [p \in Process |-> Elapse(lease_until[p])]
    /\ granted' = [p \in Process |-> Elapse(granted[p])]
    /\ UNCHANGED <<phase, serving, flags, cleared, last_write>>

\* BEGIN IMMEDIATE waits while an open transaction may write.
Locked == \E p \in Process : phase[p] = "updating"

SetMasterStatus(p, master, token) ==
    /\ is_master' = [is_master EXCEPT ![p] = master]
    /\ fencing_token' = [fencing_token EXCEPT ![p] = token]

\* lease_until is computed before the transaction is obtained.
Attempt(p) ==
    /\ phase' = [phase EXCEPT ![p] = "waiting"]
    /\ lease_until' = [lease_until EXCEPT ![p] = Ttl]

\* The end of a process, by a crash or by itself.
Exit(p) ==
    /\ phase' = [phase EXCEPT ![p] = "down"]
    /\ serving' = serving \ {p}
    /\ cleared' = cleared \ {p}
    /\ SetMasterStatus(p, FALSE, 0)
    /\ lease_until' = [lease_until EXCEPT ![p] = TimeUp]
    /\ granted' = [granted EXCEPT ![p] = TimeUp]

Start(p) ==
    /\ phase[p] = "down"
    /\ SetMasterStatus(p, FALSE, 0)
    /\ Attempt(p)
    /\ UNCHANGED <<server_leases, serving, cleared, last_write, granted>>

Heartbeat(p) ==
    /\ phase[p] = "idle"
    /\ Attempt(p)
    /\ UNCHANGED <<server_leases, serving, flags, cleared, last_write, granted>>

\* Mutant: the lease is taken over without looking at lease_until.
ExpiredAlways(row) == TRUE

\* Mutant: a lease is never seen to have run out.
ExpiredNever(row) == FALSE

Expired(row) == row.left = TimeUp

\* Inside the transaction: the UPDATE and, before it is committed, the flag.
Acquire(p, token) ==
    /\ SetMasterStatus(p, TRUE, token)
    /\ UNCHANGED granted

InsertLease(p) ==
    /\ server_leases = None
    /\ Acquire(p, 1)

RenewLease(p) ==
    /\ server_leases # None
    /\ server_leases.node = NodeId[p]
    /\ Acquire(p, server_leases.token)

\* Mutant: a takeover keeps the fencing token of the deposed master.
TakeOverSameToken(p) ==
    /\ server_leases # None
    /\ server_leases.node # NodeId[p]
    /\ Expired(server_leases)
    /\ server_leases.token < MaxToken
    /\ Acquire(p, server_leases.token)

TakeOver(p) ==
    /\ server_leases # None
    /\ server_leases.node # NodeId[p]
    /\ Expired(server_leases)
    /\ server_leases.token < MaxToken
    /\ Acquire(p, server_leases.token + 1)

StandBy(p) ==
    /\ server_leases # None
    /\ server_leases.node # NodeId[p]
    /\ ~Expired(server_leases)
    /\ SetMasterStatus(p, FALSE, server_leases.token)
    /\ granted' = [granted EXCEPT ![p] = TimeUp]

Transact(p) ==
    /\ phase[p] = "waiting"
    /\ ~Locked
    /\ InsertLease(p) \/ RenewLease(p) \/ TakeOver(p) \/ StandBy(p)
    /\ phase' = [phase EXCEPT ![p] = "updating"]
    /\ UNCHANGED <<server_leases, serving, lease_until, cleared, last_write>>

\* The row the open transaction of p leaves.
Updated(p) ==
    IF is_master[p]
    THEN [node |-> NodeId[p], token |-> fencing_token[p], left |-> lease_until[p]]
    ELSE server_leases

\* The commit succeeds and the process learns it.
Commit(p) ==
    /\ phase[p] = "updating"
    /\ server_leases' = Updated(p)
    /\ phase' = [phase EXCEPT ![p] = "idle"]
    /\ serving' = serving \cup {p}
    /\ lease_until' = [lease_until EXCEPT ![p] = TimeUp]
    /\ granted' = IF is_master[p] THEN [granted EXCEPT ![p] = lease_until[p]]
                                  ELSE granted
    /\ UNCHANGED <<flags, cleared, last_write>>

\* The commit is lost, or only its reply: the process does not know yet.
LoseCommit(p) ==
    /\ phase[p] = "updating"
    /\ server_leases' \in {server_leases, Updated(p)}
    /\ phase' = [phase EXCEPT ![p] = "unsure"]
    /\ UNCHANGED <<serving, flags, lease_until, cleared, last_write, granted>>

\* Mutant: a heartbeat that fails leaves the flag as it was.
AttemptFailsQuietly(p) ==
    /\ phase[p] \in {"waiting", "unsure"}
    /\ IF p \in serving
       THEN /\ phase' = [phase EXCEPT ![p] = "idle"]
            /\ lease_until' = [lease_until EXCEPT ![p] = TimeUp]
            /\ UNCHANGED <<serving, flags, cleared, granted>>
       ELSE Exit(p)
    /\ UNCHANGED <<server_leases, last_write>>

\* The attempt returns an error, at the latest at the busy timeout: a
\* heartbeat clears the flag and goes on, a starting process exits.
AttemptFails(p) ==
    /\ phase[p] \in {"waiting", "unsure"}
    /\ IF p \in serving
       THEN /\ phase' = [phase EXCEPT ![p] = "idle"]
            /\ SetMasterStatus(p, FALSE, 0)
            /\ lease_until' = [lease_until EXCEPT ![p] = TimeUp]
            /\ granted' = [granted EXCEPT ![p] = TimeUp]
            /\ UNCHANGED <<serving, cleared>>
       ELSE Exit(p)
    /\ UNCHANGED <<server_leases, last_write>>

Crash(p) ==
    /\ phase[p] # "down"
    /\ server_leases' \in IF phase[p] = "updating"
                          THEN {server_leases, Updated(p)} ELSE {server_leases}
    /\ Exit(p)
    /\ UNCHANGED last_write

\* A write is let through by the flag alone.
Outcome(p) ==
    CASE ~is_master[p] -> "refused"
      [] is_master[p] /\ server_leases # None /\ server_leases.node = NodeId[p] -> "leased"
      [] OTHER -> "unleased"

UserWrite(p) ==
    /\ p \in Server \cap serving
    /\ ~Locked
    /\ last_write' = Outcome(p)
    /\ UNCHANGED <<server_leases, phase, serving, flags, lease_until, cleared, granted>>

\* encrypt_migrate: the ensure!, and then the migration in one transaction
\* that bypasses the flag, after which the process is done.
EnsureMaster(p) ==
    /\ p \in (Migrator \cap serving) \ cleared
    /\ is_master[p]
    /\ cleared' = cleared \cup {p}
    /\ UNCHANGED <<server_leases, phase, serving, flags, lease_until, last_write, granted>>

Migrate(p) ==
    /\ p \in cleared
    /\ ~Locked
    /\ last_write' = IF server_leases # None /\ server_leases.node = NodeId[p]
                     THEN "leased" ELSE "unleased"
    /\ Exit(p)
    /\ UNCHANGED server_leases

MigrationRefused(p) ==
    /\ p \in (Migrator \cap serving) \ cleared
    /\ ~is_master[p]
    /\ Exit(p)
    /\ UNCHANGED <<server_leases, last_write>>

Next ==
    \/ Tick
    \/ \E p \in Process :
        \/ Start(p) \/ Heartbeat(p) \/ Transact(p) \/ Commit(p)
        \/ LoseCommit(p) \/ AttemptFails(p) \/ Crash(p)
        \/ UserWrite(p) \/ EnsureMaster(p) \/ Migrate(p) \/ MigrationRefused(p)

Spec == Init /\ [][Next]_vars

\* Heartbeats run for as long as the process does, BEGIN returns at the latest
\* at the busy timeout, and a commit gets a reply or an error.
Answered(p) == Transact(p) \/ AttemptFails(p)
Decided(p) == Commit(p) \/ LoseCommit(p)
Heartbeats == \A p \in Process :
    WF_vars(Heartbeat(p)) /\ WF_vars(Answered(p)) /\ WF_vars(Decided(p))

LiveSpec == Spec /\ Heartbeats

\* Besides, time passes, and an attempt that is repeated for ever is let in, and
\* committed, some time: the database is not out of reach for good.
InReach ==
    /\ WF_vars(Tick)
    /\ \A p \in Process : SF_vars(Transact(p)) /\ SF_vars(Commit(p))
-----------------------------------------------------------------------------
(* Properties *)

Granted(p) == granted[p] # TimeUp

\* As long as the lease a process acquired has not run out, by the time it
\* computed before its transaction, no other process acquires one: at most one
\* process at a time may trust is_master (lease.rs 72-147).
OneMaster == \A p, q \in Process : Granted(p) /\ Granted(q) => p = q

\* A process that has its answer and believes itself master.
Settled(p) == is_master[p] /\ phase[p] \in {"idle", "waiting"}

\* The fencing token tells masters apart: a process that believes itself master
\* has a token of its node's alone, and the row's token only while the row
\* names its node.  So a store that refused old tokens would refuse every
\* deposed master (nothing in the repository does).
TokensNameNodes ==
    \A p \in Process : Settled(p) =>
        /\ server_leases # None
        /\ fencing_token[p] <= server_leases.token
        /\ fencing_token[p] = server_leases.token => server_leases.node = NodeId[p]
        /\ \A q \in Process :
              Settled(q) /\ fencing_token[q] = fencing_token[p] => NodeId[p] = NodeId[q]

Names(p) == server_leases # None /\ server_leases.node = NodeId[p]

\* A process whose node the row no longer names finds out and stops letting
\* writes through, whatever fails meanwhile (runtime.rs 138-155).
DeposedStepsDown ==
    \A p \in Process :
        is_master[p] /\ ~Names(p) ~> ~is_master[p] \/ Names(p)

\* While some server stays up and the database in reach, there is again and
\* again a process that may write and that the row names, until the model's
\* tokens are used up.
Failover ==
    \A p \in Server :
        InReach /\ <>[](phase[p] # "down") =>
            []<>(\/ \E q \in Process : is_master[q] /\ Names(q)
                 \/ server_leases # None /\ server_leases.token = MaxToken)

\* tests/integration.rs:2424: "standby node must reject user writes".
WritesUnderLease == last_write # "unleased"
=============================================================================
