---------------------------- MODULE ServerProofs ----------------------------
(***************************************************************************)
(* The server process: the lease that makes one of many the master, and    *)
(* the service on a host that installs it, starts it and backs it up.      *)
(*                                                                         *)
(* The lease, for any number of processes, any ttl and any number of       *)
(* takeovers.  OneMaster is not inductive: it follows from GrantInv, that  *)
(* the row still names a process whose lease has not run out, for at least *)
(* as long as that process thinks; and a row is only given to another node *)
(* by the commit of a transaction that found it expired, which is          *)
(* ClaimInv.  The write lock keeps the row of an open transaction as it    *)
(* was read.                                                               *)
(*                                                                         *)
(* The host, for either manager and any number of writes.  None of its     *)
(* invariants is inductive: each rests on the order of the steps a command *)
(* has left, which PlanInv states of neighbours in the list, and on what   *)
(* its first step finds done, which is Ready.                              *)
(***************************************************************************)
EXTENDS Lease, Host, SequenceTheorems, TLAPS

\* The write lock is held by one transaction.
LockInv == \A p, q \in Process :
    phase[p] = "updating" /\ phase[q] = "updating" => p = q

\* What an open transaction is about to commit, against the row as it stands.
ClaimInv == \A p \in Process : phase[p] = "updating" /\ is_master[p] =>
    \/ server_leases = None /\ fencing_token[p] = 1
    \/ Names(p) /\ fencing_token[p] = server_leases.token
    \/ /\ server_leases # None /\ ~Names(p) /\ Expired(server_leases)
       /\ fencing_token[p] = server_leases.token + 1

\* The row names the process whose lease has not run out, and lasts as long.
GrantInv == \A p \in Process :
    /\ Granted(p) => is_master[p] /\ Names(p) /\ granted[p] <= server_leases.left
    /\ phase[p] \in {"waiting", "updating", "unsure"} => granted[p] <= lease_until[p]
    /\ phase[p] = "down" => ~Granted(p)

TokenInv == TypeOK /\ LockInv /\ ClaimInv /\ TokensNameNodes
LeaseInv == TypeOK /\ LockInv /\ ClaimInv /\ GrantInv
-----------------------------------------------------------------------------
LEMMA TypeInit == Init => TypeOK
  BY TtlPositive, SMT DEF Init, TypeOK, Left, TimeUp, flags

LEMMA LeaseOf ==
    ASSUME NEW n \in Node, NEW t \in Nat \ {0}, NEW l \in Left
    PROVE  [node |-> n, token |-> t, left |-> l] \in LeaseRow
  BY DEF LeaseRow

LEMMA ElapseLeft == ASSUME NEW l \in Left PROVE Elapse(l) \in Left
  BY TtlPositive, SMT DEF Left, Elapse, TimeUp

LEMMA LeftBounds == Ttl \in Left /\ TimeUp \in Left
  BY TtlPositive, SMT DEF Left, TimeUp

LEMMA AttemptType ==
    ASSUME TypeOK, NEW p \in Process, Attempt(p)
    PROVE  /\ phase' \in [Process -> {"down", "idle", "waiting", "updating", "unsure"}]
           /\ lease_until' \in [Process -> Left]
  BY LeftBounds DEF Attempt, TypeOK

\* The commit of an open transaction writes a row.
LEMMA UpdatedType ==
    ASSUME TypeOK, ClaimInv, NEW p \in Process, phase[p] = "updating"
    PROVE  Updated(p) \in LeaseRow \cup {None}
<1>1. CASE ~is_master[p]
  BY <1>1, SMT DEF TypeOK, Updated
<1>2. CASE is_master[p]
  <2>1. fencing_token[p] \in Nat \ {0}
    <3>1. CASE server_leases = None
      BY <3>1, <1>2, SMT DEF ClaimInv, Names
    <3>2. CASE server_leases # None
      <4>1. server_leases.token \in Nat \ {0}
        BY <3>2, SMT DEF TypeOK, LeaseRow
      <4> QED BY <4>1, <3>2, <1>2, SMT DEF ClaimInv, Names
    <3> QED BY <3>1, <3>2
  <2>2. NodeId[p] \in Node /\ lease_until[p] \in Left
    BY SMT DEF TypeOK, Node
  <2> QED BY <1>2, <2>1, <2>2, LeaseOf, SMT DEF Updated
<1> QED BY <1>1, <1>2

\* The end of a process keeps everything well-formed but the row.
LEMMA ExitType ==
    ASSUME TypeOK, NEW p \in Process, Exit(p)
    PROVE  /\ phase' \in [Process -> {"down", "idle", "waiting", "updating", "unsure"}]
           /\ serving' \subseteq Process
           /\ is_master' \in [Process -> BOOLEAN]
           /\ fencing_token' \in [Process -> Nat]
           /\ lease_until' \in [Process -> Left]
           /\ cleared' \subseteq Migrator
           /\ granted' \in [Process -> Left]
  BY TtlPositive, SMT DEF TypeOK, Exit, SetMasterStatus, Left, TimeUp

LEMMA TypeStep == ASSUME TypeOK, ClaimInv, [Next]_vars PROVE TypeOK'
<1> USE TtlPositive
<1>1. CASE Tick
  <2>1. server_leases' \in LeaseRow \cup {None}
    <3>1. CASE server_leases # None
      <4>1. /\ server_leases.node \in Node /\ server_leases.token \in Nat \ {0}
            /\ Elapse(server_leases.left) \in Left
        BY <3>1, ElapseLeft, SMT DEF TypeOK, LeaseRow
      <4> QED BY <1>1, <3>1, <4>1, LeaseOf, SMT DEF Tick
    <3> QED BY <1>1, <3>1, SMT DEF Tick
  <2>2. lease_until' \in [Process -> Left] /\ granted' \in [Process -> Left]
    BY <1>1, ElapseLeft, SMT DEF Tick, TypeOK
  <2> QED BY <1>1, <2>1, <2>2, SMT DEF Tick, TypeOK, flags
<1>2. ASSUME NEW p \in Process, Start(p) PROVE TypeOK'
  <2>1. is_master' \in [Process -> BOOLEAN] /\ fencing_token' \in [Process -> Nat]
    BY <1>2 DEF Start, SetMasterStatus, TypeOK
  <2> QED BY <1>2, <2>1, AttemptType, SMT DEF Start, TypeOK
<1>3. ASSUME NEW p \in Process, Heartbeat(p) PROVE TypeOK'
  BY <1>3, AttemptType, SMT DEF Heartbeat, TypeOK, flags
<1>4. ASSUME NEW p \in Process, Transact(p) PROVE TypeOK'
  <2>1. /\ is_master' \in [Process -> BOOLEAN] /\ fencing_token' \in [Process -> Nat]
        /\ granted' \in [Process -> Left]
    <3>1. server_leases # None => server_leases.token \in Nat
      BY SMT DEF TypeOK, LeaseRow
    <3>2. CASE InsertLease(p) \/ RenewLease(p) \/ TakeOver(p)
      <4>1. PICK token \in Nat : Acquire(p, token)
        BY <3>1, <3>2, SMT DEF InsertLease, RenewLease, TakeOver
      <4> QED BY <4>1 DEF Acquire, SetMasterStatus, TypeOK
    <3>3. CASE StandBy(p)
      BY <3>1, <3>3, LeftBounds DEF StandBy, SetMasterStatus, TypeOK
    <3> QED BY <1>4, <3>2, <3>3 DEF Transact
  <2>2. phase' \in [Process -> {"down", "idle", "waiting", "updating", "unsure"}]
    BY <1>4 DEF Transact, TypeOK
  <2> QED BY <1>4, <2>1, <2>2, SMT DEF Transact, TypeOK
<1>5. ASSUME NEW p \in Process, Commit(p) PROVE TypeOK'
  <2>1. server_leases' \in LeaseRow \cup {None}
    BY <1>5, UpdatedType DEF Commit
  <2> QED BY <1>5, <2>1, SMT DEF Commit, TypeOK, flags, Left, TimeUp
<1>6. ASSUME NEW p \in Process, LoseCommit(p) PROVE TypeOK'
  <2>1. server_leases' \in LeaseRow \cup {None}
    BY <1>6, UpdatedType DEF LoseCommit, TypeOK
  <2> QED BY <1>6, <2>1, SMT DEF LoseCommit, TypeOK, flags
<1>7. ASSUME NEW p \in Process, AttemptFails(p) PROVE TypeOK'
  <2>1. CASE p \in serving
    <3>1. /\ phase' \in [Process -> {"down", "idle", "waiting", "updating", "unsure"}]
          /\ lease_until' \in [Process -> Left] /\ granted' \in [Process -> Left]
      BY <1>7, <2>1, LeftBounds DEF AttemptFails, TypeOK
    <3>2. is_master' \in [Process -> BOOLEAN] /\ fencing_token' \in [Process -> Nat]
      <4>1. SetMasterStatus(p, FALSE, 0)
        BY <1>7, <2>1, Zenon DEF AttemptFails
      <4> QED BY <4>1 DEF SetMasterStatus, TypeOK
    <3> QED BY <1>7, <2>1, <3>1, <3>2, SMT DEF AttemptFails, TypeOK
  <2>2. CASE p \notin serving
    BY <1>7, <2>2, ExitType, SMT DEF AttemptFails, TypeOK
  <2> QED BY <2>1, <2>2
<1>8. ASSUME NEW p \in Process, Crash(p) PROVE TypeOK'
  <2>1. server_leases' \in LeaseRow \cup {None}
    BY <1>8, UpdatedType, SMT DEF Crash, TypeOK
  <2> QED BY <1>8, <2>1, ExitType, SMT DEF Crash, TypeOK
<1>9. ASSUME NEW p \in Process, UserWrite(p) PROVE TypeOK'
  BY <1>9, SMT DEF UserWrite, Outcome, TypeOK, flags
<1>10. ASSUME NEW p \in Process, EnsureMaster(p) PROVE TypeOK'
  BY <1>10, SMT DEF EnsureMaster, TypeOK, flags
<1>11. ASSUME NEW p \in Process, Migrate(p) PROVE TypeOK'
  BY <1>11, ExitType, SMT DEF Migrate, TypeOK
<1>12. ASSUME NEW p \in Process, MigrationRefused(p) PROVE TypeOK'
  BY <1>12, ExitType, SMT DEF MigrationRefused, TypeOK
<1>13. CASE UNCHANGED vars
  BY <1>13, SMT DEF vars, flags, TypeOK
<1> QED
  BY <1>1, <1>2, <1>3, <1>4, <1>5, <1>6, <1>7, <1>8, <1>9, <1>10, <1>11, <1>12, <1>13 DEF Next
-----------------------------------------------------------------------------
(* How the parts of the invariant that look at one process see a step *)

\* What Exit leaves of the others and of the process that ends.
LEMMA ExitEffect ==
    ASSUME TypeOK, NEW p \in Process, Exit(p)
    PROVE  /\ phase'[p] = "down" /\ ~is_master'[p] /\ granted'[p] = TimeUp
           /\ \A q \in Process \ {p} :
                 /\ phase'[q] = phase[q] /\ is_master'[q] = is_master[q]
                 /\ fencing_token'[q] = fencing_token[q]
                 /\ lease_until'[q] = lease_until[q] /\ granted'[q] = granted[q]
  BY DEF Exit, SetMasterStatus, TypeOK

\* The operations of one process.
StepOf(p) ==
    \/ Start(p) \/ Heartbeat(p) \/ Transact(p) \/ Commit(p) \/ LoseCommit(p)
    \/ AttemptFails(p) \/ Crash(p) \/ UserWrite(p) \/ EnsureMaster(p)
    \/ Migrate(p) \/ MigrationRefused(p)

\* A step of one process leaves the others as they are.
LEMMA OthersKeep ==
    ASSUME TypeOK, NEW p \in Process, StepOf(p), NEW q \in Process \ {p}
    PROVE  /\ phase'[q] = phase[q] /\ is_master'[q] = is_master[q]
           /\ fencing_token'[q] = fencing_token[q]
           /\ lease_until'[q] = lease_until[q] /\ granted'[q] = granted[q]
<1>1. CASE Start(p) \/ Heartbeat(p)
  BY <1>1, SMT DEF Start, Heartbeat, Attempt, SetMasterStatus, flags, TypeOK
<1>2. CASE Transact(p)
  <2>1. CASE StandBy(p)
    BY <1>2, <2>1, SMT DEF Transact, StandBy, SetMasterStatus, TypeOK
  <2>2. CASE InsertLease(p) \/ RenewLease(p) \/ TakeOver(p)
    <3>1. PICK token : Acquire(p, token)
      BY <2>2 DEF InsertLease, RenewLease, TakeOver
    <3> QED BY <1>2, <3>1, SMT DEF Transact, Acquire, SetMasterStatus, TypeOK
  <2> QED BY <1>2, <2>1, <2>2 DEF Transact
<1>3. CASE Commit(p) \/ LoseCommit(p)
  BY <1>3, SMT DEF Commit, LoseCommit, flags, TypeOK
<1>4. CASE Exit(p)
  BY <1>4, ExitEffect
<1>5. CASE AttemptFails(p)
  <2>1. CASE p \in serving
    BY <1>5, <2>1, SMT DEF AttemptFails, SetMasterStatus, TypeOK
  <2> QED BY <1>4, <1>5, <2>1 DEF AttemptFails
<1>6. CASE Crash(p) \/ Migrate(p) \/ MigrationRefused(p)
  BY <1>4, <1>6 DEF Crash, Migrate, MigrationRefused
<1>7. CASE UserWrite(p) \/ EnsureMaster(p)
  BY <1>7 DEF UserWrite, EnsureMaster, flags
<1> QED BY <1>1, <1>2, <1>3, <1>5, <1>6, <1>7 DEF StepOf

\* A process is in an open transaction since its Transact.
LEMMA OpenedBy ==
    ASSUME TypeOK, NEW p \in Process, StepOf(p), phase'[p] = "updating"
    PROVE  Transact(p) \/ UNCHANGED <<phase, flags, server_leases>>
<1>1. ~Exit(p)
  BY ExitEffect
<1>2. ~Start(p) /\ ~Heartbeat(p)
  BY DEF Start, Heartbeat, Attempt, TypeOK
<1>3. ~Commit(p) /\ ~LoseCommit(p)
  BY DEF Commit, LoseCommit, TypeOK
<1>4. ~AttemptFails(p)
  <2>1. AttemptFails(p) => phase' = [phase EXCEPT ![p] = "idle"]
    BY <1>1, Zenon DEF AttemptFails
  <2> QED BY <2>1 DEF TypeOK
<1> QED BY <1>1, <1>2, <1>3, <1>4 DEF StepOf, Crash, Migrate, MigrationRefused, UserWrite, EnsureMaster

\* Only the end of an open transaction changes the row, and only to Updated.
LEMMA RowStep ==
    ASSUME TypeOK, NEW p \in Process, StepOf(p)
    PROVE  \/ server_leases' = server_leases
           \/ phase[p] = "updating" /\ server_leases' = Updated(p)
<1>1. CASE Transact(p)
  BY <1>1 DEF Transact
<1> QED BY <1>1 DEF StepOf, Start, Heartbeat, Commit, LoseCommit, AttemptFails, Crash,
     UserWrite, EnsureMaster, Migrate, MigrationRefused

\* A process is settled since its Commit.
LEMMA SettledBy ==
    ASSUME TypeOK, NEW p \in Process, StepOf(p), is_master'[p],
           phase'[p] \in {"idle", "waiting"}
    PROVE  \/ Commit(p)
           \/ Settled(p) /\ server_leases' = server_leases
              /\ fencing_token'[p] = fencing_token[p]
<1>1. ~Exit(p) /\ ~Start(p)
  BY ExitEffect DEF Start, SetMasterStatus, TypeOK
<1>2. ~Transact(p) /\ ~LoseCommit(p)
  BY SMT DEF Transact, LoseCommit, TypeOK
<1>3. ~AttemptFails(p)
  BY <1>1, SMT DEF AttemptFails, SetMasterStatus, TypeOK
<1>4. CASE Heartbeat(p)
  BY <1>4 DEF Heartbeat, flags, Settled
<1>5. CASE UserWrite(p) \/ EnsureMaster(p)
  BY <1>5 DEF UserWrite, EnsureMaster, flags, Settled
<1> QED BY <1>1, <1>2, <1>3, <1>4, <1>5 DEF StepOf, Crash, Migrate, MigrationRefused
-----------------------------------------------------------------------------
(* The lock, and what an open transaction is about to commit *)

LEMMA LockStep == ASSUME TypeOK, LockInv, [Next]_vars PROVE LockInv'
<1>1. CASE Tick \/ UNCHANGED vars
  BY <1>1 DEF Tick, vars, LockInv
<1>2. ASSUME NEW p \in Process, StepOf(p) PROVE LockInv'
  <2>1. CASE phase'[p] = "updating"
    <3>1. CASE Transact(p)
      BY <1>2, <3>1, OthersKeep DEF Transact, Locked, LockInv
    <3> QED BY <1>2, <2>1, <3>1, OpenedBy DEF LockInv
  <2>2. CASE phase'[p] # "updating"
    BY <1>2, <2>2, OthersKeep DEF LockInv
  <2> QED BY <2>1, <2>2
<1> QED BY <1>1, <1>2 DEF Next, StepOf

\* A Tick keeps the row's node and token, and a lease that has run out.
LEMMA TickRow ==
    ASSUME TypeOK, Tick, server_leases # None
    PROVE  /\ server_leases' # None
           /\ server_leases'.node = server_leases.node
           /\ server_leases'.token = server_leases.token
           /\ server_leases'.left = Elapse(server_leases.left)
<1>1. server_leases' = [node |-> server_leases.node, token |-> server_leases.token,
                        left |-> Elapse(server_leases.left)]
  BY DEF Tick
<1>2. server_leases' \in LeaseRow
  <2>1. /\ server_leases.node \in Node /\ server_leases.token \in Nat \ {0}
        /\ Elapse(server_leases.left) \in Left
    BY ElapseLeft, SMT DEF TypeOK, LeaseRow
  <2> QED BY <1>1, <2>1, LeaseOf
<1> QED BY <1>1, <1>2, NoneIsNoRow, SMT

\* The row an open transaction of a master leaves.
LEMMA UpdatedRow ==
    ASSUME TypeOK, ClaimInv, NEW p \in Process, phase[p] = "updating", is_master[p]
    PROVE  /\ Updated(p) # None
           /\ Updated(p).node = NodeId[p]
           /\ Updated(p).token = fencing_token[p]
           /\ Updated(p).left = lease_until[p]
<1>1. Updated(p) = [node |-> NodeId[p], token |-> fencing_token[p], left |-> lease_until[p]]
  BY DEF Updated
<1>2. Updated(p) \in LeaseRow
  <2>1. CASE Updated(p) # None
    BY <2>1, UpdatedType, SMT
  <2>2. fencing_token[p] \in Nat \ {0}
    BY SMT DEF ClaimInv, Names, TypeOK, LeaseRow
  <2> QED BY <2>1, <2>2, <1>1, LeaseOf, SMT DEF TypeOK, Node
<1> QED BY <1>1, <1>2, NoneIsNoRow, SMT

LEMMA ClaimStep == ASSUME TypeOK, LockInv, ClaimInv, [Next]_vars PROVE ClaimInv'
<1>1. CASE Tick
  <2> SUFFICES ASSUME NEW q \in Process, phase[q] = "updating", is_master[q]
               PROVE  \/ server_leases' = None /\ fencing_token[q] = 1
                      \/ Names(q)' /\ fencing_token[q] = server_leases'.token
                      \/ /\ server_leases' # None /\ ~Names(q)' /\ Expired(server_leases')
                         /\ fencing_token[q] = server_leases'.token + 1
    BY <1>1 DEF ClaimInv, Tick, flags
  <2>1. CASE server_leases = None
    BY <1>1, <2>1 DEF Tick, ClaimInv, Names
  <2>2. CASE server_leases # None
    BY <1>1, <2>2, TickRow, SMT DEF ClaimInv, Names, Expired, Elapse
  <2> QED BY <2>1, <2>2
<1>2. ASSUME NEW p \in Process, StepOf(p) PROVE ClaimInv'
  <2> SUFFICES ASSUME NEW q \in Process, phase'[q] = "updating", is_master'[q]
               PROVE  \/ server_leases' = None /\ fencing_token'[q] = 1
                      \/ Names(q)' /\ fencing_token'[q] = server_leases'.token
                      \/ /\ server_leases' # None /\ ~Names(q)' /\ Expired(server_leases')
                         /\ fencing_token'[q] = server_leases'.token + 1
    BY DEF ClaimInv
  <2>1. CASE q # p
    <3>1. /\ phase[q] = "updating" /\ is_master[q] /\ fencing_token'[q] = fencing_token[q]
      BY <1>2, <2>1, OthersKeep
    <3>2. server_leases' = server_leases
      BY <1>2, <2>1, <3>1, RowStep DEF LockInv
    <3> QED BY <3>1, <3>2 DEF ClaimInv, Names
  <2>2. CASE q = p /\ UNCHANGED <<phase, flags, server_leases>>
    BY <2>2 DEF ClaimInv, Names, flags
  <2>3. CASE q = p /\ Transact(p)
    <3>1. server_leases' = server_leases
      BY <2>3 DEF Transact
    <3>2. CASE StandBy(p)
      BY <2>3, <3>2 DEF StandBy, SetMasterStatus, TypeOK
    <3>3. ASSUME NEW token, Acquire(p, token) PROVE fencing_token'[p] = token
      BY <3>3 DEF Acquire, SetMasterStatus, TypeOK
    <3>4. CASE InsertLease(p)
      BY <2>3, <3>1, <3>3, <3>4 DEF InsertLease
    <3>5. CASE RenewLease(p)
      BY <2>3, <3>1, <3>3, <3>5 DEF RenewLease, Names
    <3>6. CASE TakeOver(p)
      BY <2>3, <3>1, <3>3, <3>6 DEF TakeOver, Names
    <3> QED BY <2>3, <3>2, <3>4, <3>5, <3>6 DEF Transact
  <2> QED BY <1>2, <2>1, <2>2, <2>3, OpenedBy
<1>3. CASE UNCHANGED vars
  BY <1>3 DEF vars, flags, ClaimInv, Names
<1> QED BY <1>1, <1>2, <1>3 DEF Next, StepOf
-----------------------------------------------------------------------------
(* Fencing tokens *)

\* What TokensNameNodes says of one process against the row.
Current(p) ==
    /\ server_leases # None
    /\ fencing_token[p] <= server_leases.token
    /\ fencing_token[p] = server_leases.token => server_leases.node = NodeId[p]

LEMMA CurrentStep ==
    ASSUME TypeOK, LockInv, ClaimInv, TokensNameNodes, NEW p \in Process, StepOf(p),
           NEW q \in Process, Settled(q)'
    PROVE  Current(q)'
<1>1. CASE server_leases' = server_leases
  <2>1. CASE q # p
    BY <1>1, <2>1, OthersKeep DEF Settled, TokensNameNodes, Current
  <2>2. CASE q = p
    <3>1. CASE Commit(p)
      <4>1. is_master[p] /\ phase[p] = "updating" /\ fencing_token' = fencing_token
        BY <2>2, <3>1 DEF Commit, flags, Settled
      <4> QED BY <3>1, <2>2, <4>1, UpdatedRow, SMT DEF Commit, Current, TypeOK
    <3> QED BY <1>1, <2>2, <3>1, SettledBy DEF Settled, TokensNameNodes, Current
  <2> QED BY <2>1, <2>2
<1>2. CASE phase[p] = "updating" /\ server_leases' = Updated(p) /\ server_leases' # server_leases
  <2>1. is_master[p]
    BY <1>2 DEF Updated
  <2>2. /\ server_leases' # None /\ server_leases'.node = NodeId[p]
        /\ server_leases'.token = fencing_token[p]
    BY <1>2, <2>1, UpdatedRow
  <2>3. CASE q = p
    <3>1. fencing_token' = fencing_token
      BY <1>2, <2>3, SettledBy DEF Settled, Commit, flags
    <3> QED BY <2>2, <2>3, <3>1, SMT DEF Current, TypeOK
  <2>4. CASE q # p
    <3>1. Settled(q) /\ fencing_token'[q] = fencing_token[q]
      BY <2>4, OthersKeep DEF Settled
    <3>2. /\ server_leases # None
          /\ fencing_token[q] <= server_leases.token
          /\ fencing_token[q] = server_leases.token => server_leases.node = NodeId[q]
      BY <3>1 DEF TokensNameNodes
    <3>3. CASE Names(p) /\ fencing_token[p] = server_leases.token
      BY <2>2, <3>1, <3>2, <3>3, SMT DEF Current, Names
    <3>4. CASE fencing_token[p] = server_leases.token + 1
      BY <2>2, <3>1, <3>2, <3>4, SMT DEF Current, TypeOK, LeaseRow
    <3> QED BY <1>2, <2>1, <3>2, <3>3, <3>4 DEF ClaimInv
  <2> QED BY <2>3, <2>4
<1> QED BY <1>1, <1>2, RowStep

LEMMA TokenStep ==
    ASSUME TypeOK, LockInv, ClaimInv, TokensNameNodes, [Next]_vars
    PROVE  TokensNameNodes'
<1>1. CASE Tick
  <2>1. UNCHANGED <<phase, flags>>
    BY <1>1 DEF Tick
  <2>2. server_leases # None =>
            server_leases' # None /\ server_leases'.node = server_leases.node
            /\ server_leases'.token = server_leases.token
    BY <1>1, TickRow
  <2> QED BY <2>1, <2>2 DEF flags, TokensNameNodes, Settled
<1>2. ASSUME NEW p \in Process, StepOf(p) PROVE TokensNameNodes'
  <2>1. ASSUME NEW q \in Process, Settled(q)' PROVE Current(q)'
    BY <1>2, <2>1, CurrentStep
  <2>2. ASSUME NEW q \in Process, NEW r \in Process, Settled(q)', Settled(r)',
               fencing_token'[q] = fencing_token'[r]
        PROVE  NodeId[q] = NodeId[r]
    <3>1. CASE Commit(p) /\ (q = p \/ r = p)
      <4>1. is_master[p] /\ phase[p] = "updating" /\ fencing_token' = fencing_token
        BY <2>2, <3>1 DEF Commit, flags, Settled
      <4>2. /\ server_leases'.token = fencing_token'[p]
        BY <3>1, <4>1, UpdatedRow DEF Commit
      <4>3. Current(q)' /\ Current(r)'
        BY <2>1, <2>2
      <4> QED BY <2>2, <3>1, <4>2, <4>3 DEF Current
    <3>2. CASE ~(Commit(p) /\ (q = p \/ r = p))
      <4>1. Settled(q) /\ fencing_token'[q] = fencing_token[q]
        BY <1>2, <2>2, <3>2, OthersKeep, SettledBy DEF Settled
      <4>2. Settled(r) /\ fencing_token'[r] = fencing_token[r]
        BY <1>2, <2>2, <3>2, OthersKeep, SettledBy DEF Settled
      <4> QED BY <2>2, <4>1, <4>2 DEF TokensNameNodes
    <3> QED BY <3>1, <3>2
  <2> QED BY <2>1, <2>2 DEF TokensNameNodes, Current
<1>3. CASE UNCHANGED vars
  BY <1>3 DEF vars, flags, TokensNameNodes, Settled
<1> QED BY <1>1, <1>2, <1>3 DEF Next, StepOf

LEMMA TokenInit == Init => TokenInv
  BY TypeInit DEF Init, TokenInv, LockInv, ClaimInv, TokensNameNodes, Settled

\* Every reachable state is well-formed; that what a commit writes is a row
\* needs ClaimInv (try_acquire_or_renew_master, lease.rs 72-147).
THEOREM TypeCorrect == Spec => []TypeOK
<1>1. TokenInv /\ [Next]_vars => TokenInv'
  BY TypeStep, LockStep, ClaimStep, TokenStep DEF TokenInv
<1> QED BY TokenInit, <1>1, PTL DEF Spec, TokenInv

\* A process that believes itself master has a fencing token that is its
\* node's alone, and the row's only while the row names its node
\* (lease.rs 101-144).
THEOREM FencingTokensSound == Spec => []TokensNameNodes
<1>1. TokenInv /\ [Next]_vars => TokenInv'
  BY TypeStep, LockStep, ClaimStep, TokenStep DEF TokenInv
<1> QED BY TokenInit, <1>1, PTL DEF Spec, TokenInv
-----------------------------------------------------------------------------
(* One master, when every process has a node id of its own *)

\* What GrantInv says of one process.
Holds(p) ==
    /\ Granted(p) => is_master[p] /\ Names(p) /\ granted[p] <= server_leases.left
    /\ phase[p] \in {"waiting", "updating", "unsure"} => granted[p] <= lease_until[p]
    /\ phase[p] = "down" => ~Granted(p)

\* A step of another process leaves the row to its holder.
LEMMA HoldsOthers ==
    ASSUME TypeOK, ClaimInv, GrantInv, OneProcessPerNode, NEW p \in Process, StepOf(p),
           NEW q \in Process, q # p
    PROVE  Holds(q)'
<1>1. /\ phase'[q] = phase[q] /\ is_master'[q] = is_master[q]
      /\ lease_until'[q] = lease_until[q] /\ granted'[q] = granted[q]
  BY OthersKeep
<1>2. CASE server_leases' = server_leases
  BY <1>1, <1>2 DEF GrantInv, Holds, Granted, Names
<1>3. CASE phase[p] = "updating" /\ server_leases' = Updated(p) /\ server_leases' # server_leases
  <2>1. is_master[p]
    BY <1>3 DEF Updated
  <2>2. ASSUME Granted(q) PROVE FALSE
    <3>1. Names(q) /\ granted[q] <= server_leases.left
      BY <2>2 DEF GrantInv
    <3>2. ~Names(p) /\ server_leases # None
      BY <3>1 DEF Names, OneProcessPerNode
    <3>3. Expired(server_leases)
      BY <1>3, <2>1, <3>2 DEF ClaimInv
    <3>4. granted[q] \in Left
      BY DEF TypeOK
    <3> QED BY <2>2, <3>1, <3>3, <3>4, TtlPositive, SMT DEF Granted, Expired, Left, TimeUp
  <2> QED BY <1>1, <2>2 DEF GrantInv, Holds, Granted
<1> QED BY <1>2, <1>3, RowStep

LEMMA HoldsOwn ==
    ASSUME TypeOK, ClaimInv, GrantInv, NEW p \in Process, StepOf(p)
    PROVE  Holds(p)'
<1>1. /\ granted[p] \in Left /\ lease_until[p] \in Left /\ Ttl \in Left /\ TimeUp \in Left
      /\ \A left \in Left : TimeUp <= left /\ left <= Ttl
  BY LeftBounds, TtlPositive, SMT DEF TypeOK, Left, TimeUp
<1>2. CASE Start(p)
  <2>1. granted'[p] = TimeUp
    BY <1>2 DEF Start, GrantInv, Granted
  <2> QED BY <1>2, <2>1, <1>1 DEF Start, Attempt, TypeOK, Holds, Granted
<1>3. CASE Heartbeat(p)
  <2>1. /\ phase[p] = "idle" /\ phase'[p] = "waiting" /\ lease_until'[p] = Ttl
        /\ UNCHANGED <<server_leases, is_master, granted>>
    BY <1>3 DEF Heartbeat, Attempt, TypeOK, flags
  <2>2. granted'[p] <= Ttl
    BY <2>1, <1>1
  <2> QED BY <2>1, <2>2 DEF GrantInv, Holds, Granted, Names
<1>4. CASE Transact(p)
  <2>1. /\ server_leases' = server_leases /\ phase'[p] = "updating"
        /\ lease_until' = lease_until /\ phase[p] = "waiting"
    BY <1>4 DEF Transact, TypeOK
  <2>2. CASE StandBy(p)
    <3>1. granted'[p] = TimeUp
      BY <2>2 DEF StandBy, TypeOK
    <3> QED BY <2>1, <3>1, <1>1 DEF Holds, Granted
  <2>3. ASSUME NEW token, Acquire(p, token) PROVE Holds(p)'
    <3>1. is_master'[p] /\ granted' = granted
      BY <2>3 DEF Acquire, SetMasterStatus, TypeOK
    <3> QED BY <2>1, <3>1 DEF GrantInv, Holds, Granted, Names
  <2> QED BY <1>4, <2>2, <2>3 DEF Transact, InsertLease, RenewLease, TakeOver
<1>5. CASE Commit(p)
  <2>1. /\ phase[p] = "updating" /\ phase'[p] = "idle" /\ is_master' = is_master
        /\ server_leases' = Updated(p)
    BY <1>5 DEF Commit, flags, TypeOK
  <2>2. CASE is_master[p]
    <3>1. granted'[p] = lease_until[p]
      BY <1>5, <2>2 DEF Commit, TypeOK
    <3>2. Names(p)' /\ server_leases'.left = lease_until[p]
      BY <2>1, <2>2, UpdatedRow DEF Names
    <3>3. lease_until[p] <= lease_until[p]
      BY SMT DEF TypeOK, Left, TimeUp
    <3> QED BY <2>1, <2>2, <3>1, <3>2, <3>3 DEF Holds, Granted
  <2>3. CASE ~is_master[p]
    BY <1>5, <2>1, <2>3 DEF Commit, GrantInv, Holds, Granted
  <2> QED BY <2>2, <2>3
<1>6. CASE LoseCommit(p)
  <2>1. /\ phase[p] = "updating" /\ phase'[p] = "unsure"
        /\ UNCHANGED <<is_master, granted, lease_until>>
    BY <1>6 DEF LoseCommit, flags, TypeOK
  <2>2. CASE server_leases' = server_leases
    BY <2>1, <2>2 DEF GrantInv, Holds, Granted, Names
  <2>3. CASE server_leases' = Updated(p) /\ is_master[p]
    BY <2>1, <2>3, UpdatedRow DEF GrantInv, Holds, Granted, Names
  <2> QED BY <1>6, <2>2, <2>3 DEF LoseCommit, Updated
<1>7. CASE Exit(p)
  BY <1>7, ExitEffect DEF Holds, Granted
<1>8. CASE AttemptFails(p)
  <2>1. CASE p \in serving
    <3>1. granted'[p] = TimeUp /\ phase'[p] = "idle"
      BY <1>8, <2>1, SMT DEF AttemptFails, TypeOK
    <3> QED BY <3>1 DEF Holds, Granted
  <2> QED BY <1>7, <1>8, <2>1 DEF AttemptFails
<1>9. CASE UserWrite(p) \/ EnsureMaster(p)
  BY <1>9 DEF UserWrite, EnsureMaster, flags, GrantInv, Holds, Granted, Names
<1> QED BY <1>2, <1>3, <1>4, <1>5, <1>6, <1>7, <1>8, <1>9
     DEF StepOf, Crash, Migrate, MigrationRefused

LEMMA GrantStep ==
    ASSUME TypeOK, ClaimInv, GrantInv, OneProcessPerNode, [Next]_vars
    PROVE  GrantInv'
<1>1. CASE Tick
  <2> SUFFICES ASSUME NEW q \in Process PROVE Holds(q)'
    BY DEF GrantInv, Holds
  <2>1. /\ phase' = phase /\ is_master' = is_master
        /\ granted'[q] = Elapse(granted[q]) /\ lease_until'[q] = Elapse(lease_until[q])
    BY <1>1 DEF Tick, flags
  <2>2. /\ granted[q] \in Left /\ lease_until[q] \in Left
        /\ server_leases # None => server_leases.left \in Left
    BY SMT DEF TypeOK, LeaseRow
  <2>3. \A l, m \in Left : l <= m => Elapse(l) <= Elapse(m)
    BY TtlPositive, SMT DEF Left, Elapse, TimeUp
  <2>4. Granted(q)' => Granted(q)
    BY <2>1 DEF Granted, Elapse
  <2> QED BY <1>1, <2>1, <2>2, <2>3, <2>4, TickRow DEF GrantInv, Holds, Names
<1>2. ASSUME NEW p \in Process, StepOf(p) PROVE GrantInv'
  BY <1>2, HoldsOwn, HoldsOthers DEF GrantInv, Holds
<1>3. CASE UNCHANGED vars
  BY <1>3 DEF vars, flags, GrantInv, Granted, Names
<1> QED BY <1>1, <1>2, <1>3 DEF Next, StepOf

LEMMA LeaseInit == Init => LeaseInv
  BY TypeInit, LeftBounds, SMT DEF Init, LeaseInv, LockInv, ClaimInv, GrantInv, Granted

\* As long as the lease that a process acquired has not run out, no other
\* process acquires one, whatever stalls, crashes and lost commits there are,
\* if every process has a node id of its own (lease.rs 72-147).
THEOREM AtMostOneMaster == ASSUME OneProcessPerNode PROVE Spec => []OneMaster
<1>1. LeaseInv /\ [Next]_vars => LeaseInv'
  BY TypeStep, LockStep, ClaimStep, GrantStep DEF LeaseInv
<1>2. LeaseInv => OneMaster
  BY DEF LeaseInv, GrantInv, OneMaster, Names, OneProcessPerNode
<1> QED BY LeaseInit, <1>1, <1>2, PTL DEF Spec
-----------------------------------------------------------------------------
(* The service on its host.                                                *)

\* What must have been done just before a step of a command, if it is done at
\* all, and must have succeeded.
Precedes(s, do) == s.must /\ s.do \in do

Asks == {"start", "restart", "bootstrap", "kickstart"}
Keeps(s) ==
    \/ s.do \in {"is-active", "print"}
    \/ s.do = "enable" /\ s.must /\ backend # "systemd"

Follows(s, t) ==
    /\ t.do = "wrapper" => Precedes(s, {"env"})
    /\ t.do = "unit" =>
         Precedes(s, IF backend = "launchd" THEN {"wrapper"} ELSE {"env"})
    /\ t.do = "remove-wrapper" => Precedes(s, {"remove-unit"})
    /\ t.do = "remove-env" => Precedes(s, {"remove-unit", "remove-wrapper"})
    /\ t.do = "copy-main" => Precedes(s, {"stop", "bootout"})
    /\ t.do = "copy-sidecars" => Precedes(s, {"copy-main"})
    /\ Keeps(t) => Precedes(s, Asks)

\* A step that needs nothing done before it.
Opens(s) ==
    /\ s.do \notin {"wrapper", "unit", "remove-wrapper", "remove-env",
                    "copy-main", "copy-sidecars"}
    /\ ~Keeps(s)

InOrder(steps) ==
    \A i \in 1..Len(steps) - 1 : Follows(steps[i], steps[i + 1])

Stopped == ~manager.wants /\ server = "off"

\* What holds when a step is about to be done.
Ready(s) ==
    /\ s.do = "wrapper" => files["env"] # "absent"
    /\ s.do = "unit" => /\ files["env"] # "absent"
                        /\ backend = "launchd" => files["wrapper"] # "absent"
    /\ s.do \in {"remove-wrapper", "remove-env"} => files["unit"] = "absent"
    /\ s.do = "copy-main" => Stopped
    /\ s.do = "copy-sidecars" =>
         /\ Stopped
         /\ backup.phase = "main"
         /\ ~backup.disturbed => backup.holds = main /\ backup.floor <= written
    /\ Keeps(s) => manager.wants

RestartSteps ==
    Asks \cup {"stop", "bootout", "is-active", "print", "copy-main",
               "copy-sidecars"}
         \cup IF backend = "systemd" THEN {} ELSE {"enable"}
Ends == {"is-active", "print", "start", "kickstart"}

OfRestart(steps) ==
    /\ steps # << >>
    /\ \A i \in DOMAIN steps : steps[i].do \in RestartSteps
    /\ steps[Len(steps)].do \in Ends

PlanInv ==
    /\ InOrder(cmd.todo)
    /\ cmd.todo # << >> => Ready(Head(cmd.todo))
    /\ cmd.kind = "restart" => OfRestart(cmd.todo)

HostInv == HostTypeOK /\ PlanInv /\ UnitPointsAtConfig /\ BackupsHoldCommitted
-----------------------------------------------------------------------------
(* Lists of steps.                                                         *)
LEMMA OrderTail ==
    ASSUME NEW s \in Seq(Step), s # << >>, InOrder(s)
    PROVE  /\ Head(s) \in Step
           /\ Tail(s) \in Seq(Step)
           /\ InOrder(Tail(s))
           /\ Tail(s) # << >> => /\ Head(Tail(s)) \in Step
                                 /\ Follows(Head(s), Head(Tail(s)))
<1>1. /\ Tail(s) \in Seq(Step) /\ Len(Tail(s)) = Len(s) - 1
      /\ \A i \in 1..Len(Tail(s)) : Tail(s)[i] = s[i + 1]
  BY HeadTailProperties, SMT
<1>2. Len(s) \in Nat /\ Len(s) >= 1 /\ Head(s) = s[1] /\ s[1] \in Step
  BY SMT
<1>3. InOrder(Tail(s))
  <2>1. SUFFICES ASSUME NEW i \in 1..Len(Tail(s)) - 1
                 PROVE  Follows(Tail(s)[i], Tail(s)[i + 1])
    BY DEF InOrder
  <2>2. /\ i + 1 \in 1..Len(s) - 1 /\ i \in 1..Len(Tail(s))
        /\ i + 1 \in 1..Len(Tail(s))
    BY <1>1, <1>2, SMT
  <2>3. Tail(s)[i] = s[i + 1] /\ Tail(s)[i + 1] = s[i + 1 + 1]
    BY <1>1, <2>2
  <2>4. QED
    BY <2>2, <2>3 DEF InOrder
<1>4. ASSUME Tail(s) # << >>
      PROVE  Head(Tail(s)) \in Step /\ Follows(Head(s), Head(Tail(s)))
  <2>1. Head(Tail(s)) = s[2] /\ Head(Tail(s)) \in Step /\ 1 \in 1..Len(s) - 1
    BY <1>1, <1>2, <1>4, SMT
  <2>2. Follows(s[1], s[1 + 1])
    BY <2>1 DEF InOrder
  <2>3. QED
    BY <1>2, <2>1, <2>2
<1>5. QED
  BY <1>1, <1>2, <1>3, <1>4

LEMMA OrderOne == ASSUME NEW s \in Step PROVE <<s>> \in Seq(Step) /\ InOrder(<<s>>)
  BY SMT DEF InOrder

LEMMA OrderJoin ==
    ASSUME NEW s \in Seq(Step), NEW t \in Seq(Step), InOrder(s), InOrder(t),
           s # << >>, t # << >> => Follows(s[Len(s)], t[1])
    PROVE  s \o t \in Seq(Step) /\ InOrder(s \o t)
<1>1. /\ s \o t \in Seq(Step) /\ Len(s \o t) = Len(s) + Len(t)
      /\ \A i \in 1..Len(s) + Len(t) :
            (s \o t)[i] = IF i <= Len(s) THEN s[i] ELSE t[i - Len(s)]
  BY ConcatProperties
<1>2. Len(s) \in Nat /\ Len(t) \in Nat /\ Len(s) >= 1
  BY SMT
<1>3. SUFFICES ASSUME NEW i \in 1..Len(s) + Len(t) - 1
               PROVE  Follows((s \o t)[i], (s \o t)[i + 1])
  BY <1>1 DEF InOrder
<1>4. i \in 1..Len(s) + Len(t) /\ i + 1 \in 1..Len(s) + Len(t)
  BY <1>2, SMT
<1>5. CASE i < Len(s)
  <2>1. (s \o t)[i] = s[i] /\ (s \o t)[i + 1] = s[i + 1] /\ i \in 1..Len(s) - 1
    BY <1>1, <1>2, <1>4, <1>5, SMT
  <2>2. QED
    BY <2>1 DEF InOrder
<1>6. CASE i = Len(s)
  <2>1. (s \o t)[i] = s[Len(s)] /\ (s \o t)[i + 1] = t[1] /\ t # << >>
    BY <1>1, <1>2, <1>3, <1>4, <1>6, SMT
  <2>2. QED
    BY <2>1
<1>7. CASE i > Len(s)
  <2>1. /\ (s \o t)[i] = t[i - Len(s)] /\ (s \o t)[i + 1] = t[(i - Len(s)) + 1]
        /\ i - Len(s) \in 1..Len(t) - 1
    BY <1>1, <1>2, <1>4, <1>7, SMT
  <2>2. QED
    BY <2>1 DEF InOrder
<1>8. QED
  BY <1>2, <1>5, <1>6, <1>7, SMT

LEMMA OrderTwo ==
    ASSUME NEW a \in Step, NEW b \in Step, Follows(a, b)
    PROVE  <<a, b>> \in Seq(Step) /\ InOrder(<<a, b>>)
<1> DEFINE s == <<a, b>>
<1>1. /\ s \in Seq(Step) /\ 1..Len(s) - 1 = {1}
      /\ s[1] = a /\ s[2] = b
  BY SMT
<1>. HIDE DEF s
<1>2. ASSUME NEW i \in {1} PROVE Follows(s[i], s[i + 1])
  BY <1>1, SMT
<1>3. InOrder(s)
  BY <1>1, <1>2, Zenon DEF InOrder
<1>4. QED
  BY <1>1, <1>3 DEF s

LEMMA OrderThree ==
    ASSUME NEW a \in Step, NEW b \in Step, NEW c \in Step, Follows(a, b),
           Follows(b, c)
    PROVE  <<a, b, c>> \in Seq(Step) /\ InOrder(<<a, b, c>>)
<1> DEFINE s == <<a, b, c>>
<1>1. /\ s \in Seq(Step) /\ 1..Len(s) - 1 = {1, 2}
      /\ s[1] = a /\ s[2] = b /\ s[3] = c
  BY SMT
<1>. HIDE DEF s
<1>2. ASSUME NEW i \in {1, 2} PROVE Follows(s[i], s[i + 1])
  BY <1>1, SMT
<1>3. InOrder(s)
  BY <1>1, <1>2, Zenon DEF InOrder
<1>4. QED
  BY <1>1, <1>3 DEF s

LEMMA OrderFour ==
    ASSUME NEW a \in Step, NEW b \in Step, NEW c \in Step, NEW d \in Step,
           Follows(a, b), Follows(b, c), Follows(c, d)
    PROVE  <<a, b, c, d>> \in Seq(Step) /\ InOrder(<<a, b, c, d>>)
<1> DEFINE s == <<a, b, c, d>>
<1>1. /\ s \in Seq(Step) /\ 1..Len(s) - 1 = {1, 2, 3}
      /\ s[1] = a /\ s[2] = b /\ s[3] = c /\ s[4] = d
  BY SMT
<1>. HIDE DEF s
<1>2. ASSUME NEW i \in {1, 2, 3} PROVE Follows(s[i], s[i + 1])
  BY <1>1, SMT
<1>3. InOrder(s)
  BY <1>1, <1>2, Zenon DEF InOrder
<1>4. QED
  BY <1>1, <1>3 DEF s

LEMMA OrderFive ==
    ASSUME NEW a \in Step, NEW b \in Step, NEW c \in Step, NEW d \in Step,
           NEW e \in Step, Follows(a, b), Follows(b, c), Follows(c, d),
           Follows(d, e)
    PROVE  <<a, b, c, d, e>> \in Seq(Step) /\ InOrder(<<a, b, c, d, e>>)
<1> DEFINE s == <<a, b, c, d, e>>
<1>1. /\ s \in Seq(Step) /\ 1..Len(s) - 1 = {1, 2, 3, 4}
      /\ s[1] = a /\ s[2] = b /\ s[3] = c /\ s[4] = d /\ s[5] = e
  BY SMT
<1>. HIDE DEF s
<1>2. ASSUME NEW i \in {1, 2, 3, 4} PROVE Follows(s[i], s[i + 1])
  BY <1>1, SMT
<1>3. InOrder(s)
  BY <1>1, <1>2, Zenon DEF InOrder
<1>4. QED
  BY <1>1, <1>3 DEF s

LEMMA OrderSix ==
    ASSUME NEW a \in Step, NEW b \in Step, NEW c \in Step, NEW d \in Step,
           NEW e \in Step, NEW f \in Step, Follows(a, b), Follows(b, c),
           Follows(c, d), Follows(d, e), Follows(e, f)
    PROVE  <<a, b, c, d, e, f>> \in Seq(Step) /\ InOrder(<<a, b, c, d, e, f>>)
<1> DEFINE s == <<a, b, c, d, e, f>>
<1>1. /\ s \in Seq(Step) /\ 1..Len(s) - 1 = {1, 2, 3, 4, 5}
      /\ s[1] = a /\ s[2] = b /\ s[3] = c /\ s[4] = d /\ s[5] = e /\ s[6] = f
  BY SMT
<1>. HIDE DEF s
<1>2. ASSUME NEW i \in {1, 2, 3, 4, 5} PROVE Follows(s[i], s[i + 1])
  BY <1>1, SMT
<1>3. InOrder(s)
  BY <1>1, <1>2, Zenon DEF InOrder
<1>4. QED
  BY <1>1, <1>3 DEF s

LEMMA ConcatHead ==
    ASSUME NEW s \in Seq(Step), NEW t \in Seq(Step), s # << >>
    PROVE  s \o t # << >> /\ Head(s \o t) = s[1]
  BY SMT

\* A step that may come first may follow any other, and needs nothing.
LEMMA OpensAnywhere ==
    ASSUME NEW s, NEW t, Opens(t) PROVE Follows(s, t) /\ Ready(t)
  BY DEF Opens, Follows, Ready

LEMMA StepsTyped ==
    /\ \A do \in {"account", "state-dir", "daemon-reload", "enable", "start",
                  "stop", "restart", "is-active", "bootstrap", "bootout",
                  "kickstart", "print", "remove-unit", "remove-wrapper",
                  "remove-env", "purge", "copy-main", "copy-sidecars"} :
          Must(do) \in Step
    /\ \A do \in {"stop", "disable", "bootout", "daemon-reload", "userdel",
                  "start", "bootstrap", "enable", "kickstart"} : Try(do) \in Step
    /\ \A f \in {"env", "wrapper", "unit"}, force \in BOOLEAN :
          WriteTo(f, force) \in Step
  BY SMT DEF Must, Try, WriteTo, Step

\* What a flag adds to a plan comes after the rest and needs nothing.
LEMMA OrderWhen ==
    ASSUME NEW s \in Seq(Step), InOrder(s), s # << >>, NEW flag \in BOOLEAN,
           NEW t \in Step, Follows(s[Len(s)], t)
    PROVE  /\ s \o When(flag, <<t>>) \in Seq(Step)
           /\ InOrder(s \o When(flag, <<t>>))
           /\ s \o When(flag, <<t>>) # << >>
           /\ Head(s \o When(flag, <<t>>)) = Head(s)
           /\ LET last == (s \o When(flag, <<t>>))[Len(s \o When(flag, <<t>>))]
              IN  last \in {s[Len(s)], t}
<1>1. CASE flag
  <2>1. When(flag, <<t>>) = <<t>>
    BY <1>1 DEF When
  <2>2. /\ s \o <<t>> # << >> /\ Head(s \o <<t>>) = Head(s)
        /\ (s \o <<t>>)[Len(s \o <<t>>)] = t
    BY SMT
  <2>3. QED
    <3>1. Follows(s[Len(s)], <<t>>[1]) /\ <<t>> # << >>
      BY SMT
    <3>2. s \o <<t>> \in Seq(Step) /\ InOrder(s \o <<t>>)
      BY <3>1, OrderOne, OrderJoin
    <3>3. QED
      BY <2>1, <2>2, <3>2
<1>2. CASE ~flag
  <2>1. When(flag, <<t>>) = << >> /\ s \o << >> = s
    BY <1>2, SMT DEF When
  <2>2. QED
    BY <2>1
<1>3. QED
  BY <1>1, <1>2

IsPlan(s) == s \in Seq(Step) /\ InOrder(s) /\ s # << >> /\ Opens(Head(s))

LEMMA PlanWhen ==
    ASSUME NEW s, IsPlan(s), NEW flag \in BOOLEAN, NEW t \in Step,
           Follows(s[Len(s)], t)
    PROVE  IsPlan(s \o When(flag, <<t>>))
  BY OrderWhen DEF IsPlan

LEMMA InstallPlan ==
    ASSUME HostTypeOK, NEW force \in BOOLEAN, NEW start \in BOOLEAN,
           NEW enable \in BOOLEAN
    PROVE  IsPlan(Install(force, start, enable))
<1>1. backend \in {"systemd", "launchd"}
  BY BackendsKnown DEF HostTypeOK
<1>2. CASE backend = "systemd"
  <2> DEFINE a == <<Must("account"), Must("state-dir"), WriteTo("env", force),
                    WriteTo("unit", force), Must("daemon-reload")>>
  <2>1. /\ Follows(Must("account"), Must("state-dir"))
        /\ Follows(Must("state-dir"), WriteTo("env", force))
        /\ Follows(WriteTo("env", force), WriteTo("unit", force))
        /\ Follows(WriteTo("unit", force), Must("daemon-reload"))
        /\ Opens(Must("account")) /\ Opens(Must("enable")) /\ Opens(Must("start"))
    BY <1>2, SMT DEF Follows, Opens, Precedes, Keeps, Asks, Must, WriteTo
  <2>2. IsPlan(a)
    <3>1. a # << >> /\ Head(a) = Must("account")
      BY SMT
    <3>2. QED
      BY <2>1, <3>1, OrderFive, StepsTyped DEF IsPlan
  <2>3. IsPlan(a \o When(enable, <<Must("enable")>>))
    BY <2>1, <2>2, PlanWhen, OpensAnywhere, StepsTyped
  <2>4. IsPlan((a \o When(enable, <<Must("enable")>>))
                 \o When(start, <<Must("start")>>))
    BY <2>1, <2>3, PlanWhen, OpensAnywhere, StepsTyped
  <2>8. QED
    BY <1>2, <2>4 DEF Install
<1>3. CASE backend = "launchd"
  <2> DEFINE a == <<Must("account"), Must("state-dir"), WriteTo("env", force),
                    WriteTo("wrapper", force), WriteTo("unit", force),
                    Must("bootstrap")>>
  <2>1. /\ Follows(Must("account"), Must("state-dir"))
        /\ Follows(Must("state-dir"), WriteTo("env", force))
        /\ Follows(WriteTo("env", force), WriteTo("wrapper", force))
        /\ Follows(WriteTo("wrapper", force), WriteTo("unit", force))
        /\ Follows(WriteTo("unit", force), Must("bootstrap"))
        /\ Follows(Must("bootstrap"), Must("enable"))
        /\ Opens(Must("account")) /\ Opens(Must("kickstart"))
    BY <1>3, SMT DEF Follows, Opens, Precedes, Keeps, Asks, Must, WriteTo
  <2>2. a # << >> /\ Head(a) = Must("account") /\ a[Len(a)] = Must("bootstrap")
    BY SMT
  <2>3. IsPlan(a)
    BY <2>1, <2>2, OrderSix, StepsTyped DEF IsPlan
  <2>4. IsPlan(a \o When(enable, <<Must("enable")>>))
    BY <2>1, <2>2, <2>3, PlanWhen, StepsTyped
  <2>5. IsPlan((a \o When(enable, <<Must("enable")>>))
                 \o When(start, <<Must("kickstart")>>))
    BY <2>1, <2>4, PlanWhen, OpensAnywhere, StepsTyped
  <2>6. QED
    BY <1>3, <2>5 DEF Install
<1>4. QED
  BY <1>1, <1>2, <1>3

LEMMA UninstallPlan ==
    ASSUME HostTypeOK, NEW purge \in BOOLEAN, NEW remove_user \in BOOLEAN
    PROVE  IsPlan(Uninstall(purge, remove_user))
<1> DEFINE a == IF backend = "systemd"
                THEN <<Try("stop"), Try("disable"), Must("remove-unit"),
                       Must("remove-env"), Try("daemon-reload")>>
                ELSE <<Try("bootout"), Try("disable"), Must("remove-unit"),
                       Must("remove-wrapper"), Must("remove-env")>>
<1>1. /\ Follows(Try("stop"), Try("disable"))
      /\ Follows(Try("bootout"), Try("disable"))
      /\ Follows(Try("disable"), Must("remove-unit"))
      /\ Follows(Must("remove-unit"), Must("remove-env"))
      /\ Follows(Must("remove-unit"), Must("remove-wrapper"))
      /\ Follows(Must("remove-wrapper"), Must("remove-env"))
      /\ Follows(Must("remove-env"), Try("daemon-reload"))
      /\ Opens(Try("stop")) /\ Opens(Try("bootout"))
      /\ Opens(Must("purge")) /\ Opens(Try("userdel"))
  BY SMT DEF Follows, Opens, Precedes, Keeps, Asks, Must, Try
<1>2. IsPlan(a)
  <2>1. CASE backend = "systemd"
    <3>1. a # << >> /\ Head(a) = Try("stop")
      BY <2>1, SMT
    <3>2. QED
      BY <1>1, <2>1, <3>1, OrderFive, StepsTyped DEF IsPlan
  <2>2. CASE backend # "systemd"
    <3>1. a # << >> /\ Head(a) = Try("bootout")
      BY <2>2, SMT
    <3>2. QED
      BY <1>1, <2>2, <3>1, OrderFive, StepsTyped DEF IsPlan
  <2>3. QED
    BY <2>1, <2>2
<1>3. IsPlan(a \o When(purge, <<Must("purge")>>))
  BY <1>1, <1>2, PlanWhen, OpensAnywhere, StepsTyped
<1>4. IsPlan((a \o When(purge, <<Must("purge")>>))
               \o When(remove_user, <<Try("userdel")>>))
  BY <1>1, <1>3, PlanWhen, OpensAnywhere, StepsTyped
<1>5. QED
  BY <1>4 DEF Uninstall

LEMMA RestartOne ==
    ASSUME NEW a \in Step, a.do \in RestartSteps, a.do \in Ends
    PROVE  OfRestart(<<a>>)
<1> DEFINE s == <<a>>
<1>1. /\ s # << >> /\ DOMAIN s = {1} /\ Len(s) = 1
      /\ s[1] = a
  BY SMT
<1>. HIDE DEF s
<1>2. OfRestart(s)
  BY <1>1 DEF OfRestart
<1>3. QED
  BY <1>2 DEF s

LEMMA RestartTwo ==
    ASSUME NEW a \in Step, NEW b \in Step, a.do \in RestartSteps,
           b.do \in RestartSteps, b.do \in Ends
    PROVE  OfRestart(<<a, b>>)
<1> DEFINE s == <<a, b>>
<1>1. /\ s # << >> /\ DOMAIN s = {1, 2} /\ Len(s) = 2
      /\ s[1] = a /\ s[2] = b
  BY SMT
<1>. HIDE DEF s
<1>2. OfRestart(s)
  BY <1>1 DEF OfRestart
<1>3. QED
  BY <1>2 DEF s

LEMMA RestartThree ==
    ASSUME NEW a \in Step, NEW b \in Step, NEW c \in Step,
           a.do \in RestartSteps, b.do \in RestartSteps,
           c.do \in RestartSteps, c.do \in Ends
    PROVE  OfRestart(<<a, b, c>>)
<1> DEFINE s == <<a, b, c>>
<1>1. /\ s # << >> /\ DOMAIN s = {1, 2, 3} /\ Len(s) = 3
      /\ s[1] = a /\ s[2] = b /\ s[3] = c
  BY SMT
<1>. HIDE DEF s
<1>2. OfRestart(s)
  BY <1>1 DEF OfRestart
<1>3. QED
  BY <1>2 DEF s

LEMMA RestartFour ==
    ASSUME NEW a \in Step, NEW b \in Step, NEW c \in Step, NEW d \in Step,
           a.do \in RestartSteps, b.do \in RestartSteps,
           c.do \in RestartSteps, d.do \in RestartSteps, d.do \in Ends
    PROVE  OfRestart(<<a, b, c, d>>)
<1> DEFINE s == <<a, b, c, d>>
<1>1. /\ s # << >> /\ DOMAIN s = {1, 2, 3, 4} /\ Len(s) = 4
      /\ s[1] = a /\ s[2] = b /\ s[3] = c /\ s[4] = d
  BY SMT
<1>. HIDE DEF s
<1>2. OfRestart(s)
  BY <1>1 DEF OfRestart
<1>3. QED
  BY <1>2 DEF s

LEMMA Only == ASSUME NEW m, NEW n \in Nat, m = n - 1, m = 0 PROVE n = 1
  BY SMT

LEMMA RestartTail ==
    ASSUME NEW s \in Seq(Step), OfRestart(s)
    PROVE  /\ Tail(s) # << >> => OfRestart(Tail(s))
           /\ Tail(s) = << >> => Head(s).do \in Ends
           /\ Head(s).do \in RestartSteps
<1>1. /\ Tail(s) \in Seq(Step) /\ Len(Tail(s)) = Len(s) - 1
      /\ \A i \in 1..Len(Tail(s)) : Tail(s)[i] = s[i + 1]
  BY HeadTailProperties, SMT DEF OfRestart
<1>2. /\ Len(s) \in Nat /\ Len(s) >= 1 /\ Head(s) = s[1] /\ 1 \in DOMAIN s
      /\ DOMAIN s = 1..Len(s) /\ DOMAIN Tail(s) = 1..Len(Tail(s))
  BY <1>1, SMT DEF OfRestart
<1>3. ASSUME Tail(s) # << >> PROVE OfRestart(Tail(s))
  <2>1. ASSUME NEW i \in DOMAIN Tail(s) PROVE Tail(s)[i].do \in RestartSteps
    <3>1. i + 1 \in DOMAIN s /\ Tail(s)[i] = s[i + 1]
      BY <1>1, <1>2, <2>1, SMT
    <3>2. QED
      BY <3>1 DEF OfRestart
  <2>2. Tail(s)[Len(Tail(s))] = s[Len(s)]
    BY <1>1, <1>2, <1>3, SMT
  <2>3. QED
    BY <1>3, <2>1, <2>2 DEF OfRestart
<1>4. ASSUME Tail(s) = << >> PROVE Head(s).do \in Ends
  <2>1. Len(<< >>) = 0
    BY SMT
  <2>2. Len(s) = 1
    <3>1. Len(Tail(s)) = 0
      BY <1>4, <2>1, Zenon
    <3>. HIDE DEF OfRestart
    <3>2. QED
      BY <1>1, <1>2, <3>1, Only
  <2>3. QED
    BY <1>2, <2>2 DEF OfRestart
<1>5. QED
  BY <1>2, <1>3, <1>4 DEF OfRestart

\* The step that stops the server and the two that copy, before the rest.
LEMMA RestartJoin ==
    ASSUME NEW a \in Step, NEW b \in Step, NEW c \in Step,
           a.do \in RestartSteps, b.do \in RestartSteps, c.do \in RestartSteps,
           NEW t \in Seq(Step), OfRestart(t)
    PROVE  OfRestart(<<a, b, c>> \o t)
<1> DEFINE s == <<a, b, c>>
<1>1. /\ s \in Seq(Step) /\ Len(s) = 3 /\ s[1] = a /\ s[2] = b /\ s[3] = c
  BY SMT
<1>. HIDE DEF s
<1>2. /\ s \o t \in Seq(Step) /\ Len(s \o t) = 3 + Len(t)
      /\ \A i \in 1..3 + Len(t) :
            (s \o t)[i] = IF i <= 3 THEN s[i] ELSE t[i - 3]
  <2>1. /\ s \o t \in Seq(Step) /\ Len(s \o t) = Len(s) + Len(t)
        /\ \A i \in 1..Len(s) + Len(t) :
              (s \o t)[i] = IF i <= Len(s) THEN s[i] ELSE t[i - Len(s)]
    BY <1>1, ConcatProperties
  <2>2. QED
    BY <1>1, <2>1
<1>3. Len(t) \in Nat /\ Len(t) >= 1 /\ DOMAIN t = 1..Len(t)
  BY SMT DEF OfRestart
<1>4. DOMAIN (s \o t) = 1..3 + Len(t) /\ s \o t # << >>
  BY <1>1, <1>2, <1>3, SMT
<1>5. ASSUME NEW i \in 1..3 + Len(t) PROVE (s \o t)[i].do \in RestartSteps
  <2>1. CASE i <= 3
    <3>1. (s \o t)[i] = s[i]
      BY <1>2, <2>1
    <3>2. i \in {1, 2, 3}
      BY <1>3, <2>1, SMT
    <3>3. s[i].do \in RestartSteps
      BY <1>1, <3>2
    <3>4. QED
      BY <3>1, <3>3, SMT
  <2>2. CASE i > 3
    <3>1. (s \o t)[i] = t[i - 3] /\ i - 3 \in DOMAIN t
      BY <1>2, <1>3, <2>2, SMT
    <3>2. QED
      BY <3>1 DEF OfRestart
  <2>3. i <= 3 \/ i > 3
    BY <1>3, SMT
  <2>4. QED
    BY <2>1, <2>2, <2>3
<1>6. (s \o t)[Len(s \o t)] = t[Len(t)]
  BY <1>2, <1>3, SMT
<1>7. OfRestart(s \o t)
  BY <1>4, <1>5, <1>6 DEF OfRestart
<1>8. QED
  BY <1>7 DEF s

LEMMA RestartFollows ==
    /\ Follows(Must("restart"), Must("is-active"))
    /\ Follows(Must("kickstart"), Must("print"))
    /\ Follows(Must("start"), Must("is-active"))
    /\ Follows(Must("bootstrap"), Must("enable"))
    /\ Follows(Must("enable"), Must("kickstart"))
    /\ Follows(Must("stop"), Must("copy-main"))
    /\ Follows(Must("bootout"), Must("copy-main"))
    /\ Follows(Must("copy-main"), Must("copy-sidecars"))
    /\ Follows(Must("copy-sidecars"), Must("start"))
    /\ Follows(Must("copy-sidecars"), Must("bootstrap"))
    /\ Follows(Try("bootstrap"), Try("enable"))
    /\ Follows(Try("enable"), Try("kickstart"))
    /\ \A do \in Asks \cup {"stop", "bootout"} :
          Opens(Must(do)) /\ Opens(Try(do))
  BY SMT DEF Follows, Opens, Precedes, Keeps, Asks, Must, Try

LEMMA RestartDoes ==
    /\ \A do \in RestartSteps : Must(do).do = do /\ Try(do).do = do
    /\ Ends \subseteq RestartSteps /\ Asks \subseteq RestartSteps
    /\ {"is-active", "print"} \subseteq Ends
    /\ {"stop", "bootout", "copy-main", "copy-sidecars",
        "start", "kickstart", "bootstrap", "restart"} \subseteq RestartSteps
    /\ backend # "systemd" => "enable" \in RestartSteps
    /\ {"start", "kickstart"} \subseteq Ends
    /\ {"start", "kickstart", "bootstrap", "restart"} \subseteq Asks
  BY SMT DEF RestartSteps, Ends, Asks, Must, Try

LEMMA RestartPlan == IsPlan(Restart) /\ OfRestart(Restart)
<1>1. CASE backend = "systemd"
  <2>1. Restart = <<Must("restart"), Must("is-active")>>
    BY <1>1 DEF Restart
  <2>2. /\ <<Must("restart"), Must("is-active")>> # << >>
        /\ Head(<<Must("restart"), Must("is-active")>>) = Must("restart")
    BY SMT
  <2>3. QED
    BY <2>1, <2>2, OrderTwo, RestartTwo, RestartFollows, RestartDoes,
       StepsTyped DEF IsPlan
<1>2. CASE backend # "systemd"
  <2>1. Restart = <<Must("kickstart"), Must("print")>>
    BY <1>2 DEF Restart
  <2>2. /\ <<Must("kickstart"), Must("print")>> # << >>
        /\ Head(<<Must("kickstart"), Must("print")>>) = Must("kickstart")
    BY SMT
  <2>3. QED
    BY <2>1, <2>2, OrderTwo, RestartTwo, RestartFollows, RestartDoes,
       StepsTyped DEF IsPlan
<1>3. QED
  BY <1>1, <1>2

LEMMA StartAgainPlan ==
    /\ IsPlan(StartAgain) /\ OfRestart(StartAgain)
    /\ Follows(Must("copy-sidecars"), StartAgain[1])
<1>1. CASE backend = "systemd"
  <2>1. StartAgain = <<Must("start"), Must("is-active")>>
    BY <1>1 DEF StartAgain
  <2>2. /\ <<Must("start"), Must("is-active")>> # << >>
        /\ Head(<<Must("start"), Must("is-active")>>) = Must("start")
        /\ <<Must("start"), Must("is-active")>>[1] = Must("start")
    BY SMT
  <2>3. QED
    BY <2>1, <2>2, OrderTwo, RestartTwo, RestartFollows, RestartDoes,
       StepsTyped DEF IsPlan
<1>2. CASE backend # "systemd"
  <2> DEFINE s == <<Must("bootstrap"), Must("enable"), Must("kickstart"),
                    Must("print")>>
  <2>1. StartAgain = s
    BY <1>2 DEF StartAgain
  <2>2. s # << >> /\ Head(s) = Must("bootstrap") /\ s[1] = Must("bootstrap")
    BY SMT
  <2>3. s \in Seq(Step) /\ InOrder(s)
    BY OrderFour, RestartFollows, StepsTyped
  <2>4. OfRestart(s)
    <3>1. /\ Must("bootstrap").do \in RestartSteps
          /\ Must("enable").do \in RestartSteps
          /\ Must("kickstart").do \in RestartSteps
          /\ Must("print").do \in RestartSteps /\ Must("print").do \in Ends
      BY <1>2, RestartDoes
    <3>2. QED
      BY <3>1, RestartFour, StepsTyped
  <2>5. QED
    BY <2>1, <2>2, <2>3, <2>4, RestartFollows, RestartDoes DEF IsPlan
<1>3. QED
  BY <1>1, <1>2

LEMMA RestartWithBackupPlan ==
    IsPlan(RestartWithBackup) /\ OfRestart(RestartWithBackup)
<1> DEFINE first == Must(IF backend = "systemd" THEN "stop" ELSE "bootout")
           s == <<first, Must("copy-main"), Must("copy-sidecars")>>
<1>1. /\ first \in Step /\ first.do \in RestartSteps /\ Opens(first)
      /\ Follows(first, Must("copy-main"))
  BY RestartFollows, RestartDoes, StepsTyped
<1>2. /\ s \in Seq(Step) /\ InOrder(s)
  BY <1>1, OrderThree, RestartFollows, StepsTyped
<1>3. s # << >> /\ s[Len(s)] = Must("copy-sidecars") /\ s[1] = first
  BY SMT
<1>4. s \o StartAgain \in Seq(Step) /\ InOrder(s \o StartAgain)
  BY <1>2, <1>3, OrderJoin, StartAgainPlan DEF IsPlan
<1>5. OfRestart(s \o StartAgain)
  BY <1>1, RestartJoin, RestartDoes, StartAgainPlan, StepsTyped DEF IsPlan
<1>6. s \o StartAgain # << >> /\ Head(s \o StartAgain) = first
  <2>1. ASSUME NEW t \in Seq(Step) PROVE s \o t # << >> /\ Head(s \o t) = s[1]
    <3>. HIDE DEF s
    <3>1. QED
      BY <1>2, <1>3, ConcatHead
  <2>2. StartAgain \in Seq(Step)
    BY StartAgainPlan DEF IsPlan
  <2>3. QED
    BY <1>3, <2>1, <2>2
<1>7. QED
  BY <1>1, <1>4, <1>5, <1>6 DEF IsPlan, RestartWithBackup

LEMMA AfterCopyPlan == IsPlan(AfterCopyFails) /\ OfRestart(AfterCopyFails)
<1>1. CASE backend = "systemd"
  <2>1. AfterCopyFails = <<Try("start")>>
    BY <1>1 DEF AfterCopyFails
  <2>2. <<Try("start")>> # << >> /\ Head(<<Try("start")>>) = Try("start")
    BY SMT
  <2>3. QED
    BY <2>1, <2>2, OrderOne, RestartOne, RestartFollows, RestartDoes,
       StepsTyped DEF IsPlan
<1>2. CASE backend # "systemd"
  <2> DEFINE s == <<Try("bootstrap"), Try("enable"), Try("kickstart")>>
  <2>1. AfterCopyFails = s
    BY <1>2 DEF AfterCopyFails
  <2>2. s # << >> /\ Head(s) = Try("bootstrap")
    BY SMT
  <2>3. s \in Seq(Step) /\ InOrder(s)
    BY OrderThree, RestartFollows, StepsTyped
  <2>4. OfRestart(s)
    <3>1. /\ Try("bootstrap").do \in RestartSteps
          /\ Try("enable").do \in RestartSteps
          /\ Try("kickstart").do \in RestartSteps
          /\ Try("kickstart").do \in Ends
      BY <1>2, RestartDoes
    <3>2. QED
      BY <3>1, RestartThree, StepsTyped
  <2>5. QED
    BY <2>1, <2>2, <2>3, <2>4, RestartFollows, RestartDoes DEF IsPlan
<1>3. QED
  BY <1>1, <1>2
-----------------------------------------------------------------------------
(* What a step of the system does to the plan under way.                   *)
Commands == [kind : {"none", "killed", "install", "uninstall", "restart"},
             todo : Seq(Step)]

LEMMA BackendKeeps ==
    ASSUME backend' = backend
    PROVE  /\ \A s, t : Follows(s, t)' <=> Follows(s, t)
           /\ \A s : InOrder(s)' <=> InOrder(s)
           /\ \A s : Keeps(s)' <=> Keeps(s)
           /\ \A s : Opens(s)' <=> Opens(s)
           /\ \A s : OfRestart(s)' <=> OfRestart(s)
<1>1. \A s : Keeps(s)' <=> Keeps(s)
  BY DEF Keeps
<1>2. \A s, t : Follows(s, t)' <=> Follows(s, t)
  BY <1>1 DEF Follows
<1>3. \A s : InOrder(s)' <=> InOrder(s)
  BY <1>2 DEF InOrder
<1>4. \A s : OfRestart(s)' <=> OfRestart(s)
  BY DEF OfRestart, RestartSteps
<1>5. QED
  BY <1>1, <1>2, <1>3, <1>4 DEF Opens

LEMMA OtherStep ==
    ASSUME PlanInv, cmd' = cmd, backend' = backend,
           \A s \in Step : Ready(s) => Ready(s)', HostTypeOK
    PROVE  PlanInv'
<1>1. cmd.todo # << >> => Head(cmd.todo) \in Step
  BY OrderTail DEF HostTypeOK, PlanInv
<1>2. QED
  BY <1>1, BackendKeeps DEF PlanInv

LEMMA HeadDone ==
    ASSUME HostTypeOK, PlanInv, cmd.todo # << >>, Done
    PROVE  /\ Head(cmd.todo) \in Step
           /\ cmd' \in Commands
           /\ InOrder(cmd'.todo)
           /\ cmd'.todo # << >> => /\ Head(cmd'.todo) \in Step
                                   /\ Follows(Head(cmd.todo), Head(cmd'.todo))
           /\ cmd'.kind = "restart" => OfRestart(cmd'.todo)
<1>1. cmd \in Commands /\ InOrder(cmd.todo) /\ cmd.todo \in Seq(Step)
  BY DEF HostTypeOK, PlanInv, Commands
<1>2. cmd' = IF Tail(cmd.todo) = << >> THEN NoCommand
             ELSE [cmd EXCEPT !.todo = Tail(cmd.todo)]
  BY DEF Done, Continue
<1>3. CASE Tail(cmd.todo) = << >>
  <2>1. cmd' = NoCommand
    BY <1>2, <1>3
  <2>2. /\ NoCommand \in Commands /\ InOrder(<< >>) /\ NoCommand.todo = << >>
        /\ NoCommand.kind = "none"
    BY SMT DEF NoCommand, Commands, InOrder
  <2>3. QED
    BY <1>1, <2>1, <2>2, OrderTail
<1>4. CASE Tail(cmd.todo) # << >>
  <2>1. cmd' = [cmd EXCEPT !.todo = Tail(cmd.todo)]
    BY <1>2, <1>4
  <2>2. Tail(cmd.todo) \in Seq(Step)
    BY <1>1, OrderTail
  <2>3. cmd' \in Commands /\ cmd'.todo = Tail(cmd.todo) /\ cmd'.kind = cmd.kind
    BY <1>1, <2>1, <2>2 DEF Commands
  <2>4. QED
    BY <1>1, <1>4, <2>3, OrderTail, RestartTail DEF PlanInv
<1>5. QED
  BY <1>3, <1>4

\* The step of a command is done, and with it what the next one needs.
LEMMA NextStep ==
    ASSUME HostTypeOK, PlanInv, cmd.todo # << >>, Done, backend' = backend,
           \A t \in Step : Follows(Head(cmd.todo), t) => Ready(t)'
    PROVE  PlanInv'
  BY HeadDone, BackendKeeps DEF PlanInv

Leads == Asks \cup {"env", "wrapper", "remove-unit", "remove-wrapper", "stop",
                    "bootout", "copy-main"}

\* A step that fails at best effort, or that no other waits for.
LEMMA NeutralStep ==
    ASSUME HostTypeOK, PlanInv, cmd.todo # << >>, Done, backend' = backend,
           ~Head(cmd.todo).must \/ Head(cmd.todo).do \notin Leads
    PROVE  PlanInv'
<1>1. ASSUME NEW t \in Step, Follows(Head(cmd.todo), t) PROVE Opens(t)
  <2>1. \A do \in SUBSET Leads : ~Precedes(Head(cmd.todo), do)
    BY DEF Precedes
  <2>2. /\ {"env"} \subseteq Leads /\ {"wrapper"} \subseteq Leads
        /\ {"remove-unit"} \subseteq Leads /\ {"stop", "bootout"} \subseteq Leads
        /\ {"remove-unit", "remove-wrapper"} \subseteq Leads
        /\ {"copy-main"} \subseteq Leads /\ Asks \subseteq Leads
    BY DEF Leads
  <2>3. QED
    BY <1>1, <2>1, <2>2, Zenon DEF Follows, Opens
<1>2. \A t \in Step : Opens(t) => Ready(t)'
  BY BackendKeeps, OpensAnywhere DEF Opens, Ready
<1>3. QED
  BY <1>1, <1>2, NextStep

LEMMA EndStep ==
    ASSUME cmd'.todo = << >>, cmd'.kind # "restart" PROVE PlanInv'
  BY SMT DEF PlanInv, InOrder

LEMMA BeginPlan ==
    ASSUME HostTypeOK, NEW kind \in {"install", "uninstall", "restart"},
           NEW steps, Begin(kind, steps),
           IsPlan(steps), kind = "restart" => OfRestart(steps)
    PROVE  HostTypeOK' /\ PlanInv'
<1>1. cmd' = [kind |-> kind, todo |-> steps] /\ steps \in Seq(Step)
  BY DEF Begin, IsPlan
<1>2. cmd' \in Commands /\ cmd'.todo = steps /\ cmd'.kind = kind
  BY <1>1 DEF Commands
<1>3. UNCHANGED <<backend, files, account, manager, server, other, written,
                  main, backup>>
  BY DEF Begin, installation, file
<1>4. HostTypeOK'
  BY <1>2, <1>3 DEF HostTypeOK, Commands
<1>5. Ready(Head(steps))'
  BY <1>3, BackendKeeps DEF IsPlan, Opens, Ready
<1>6. QED
  BY <1>2, <1>3, <1>4, <1>5, BackendKeeps DEF PlanInv, IsPlan
-----------------------------------------------------------------------------
(* Each action keeps the invariant.                                        *)
LEMMA NothingPlanned ==
    /\ NoCommand \in Commands
    /\ NoCommand.todo = << >> /\ InOrder(<< >>) /\ NoCommand.kind = "none"
  BY SMT DEF NoCommand, Commands, InOrder

LEMMA HostInitInv == HostInit => HostInv
<1>1. SUFFICES ASSUME HostInit PROVE HostInv
  OBVIOUS
<1>2. HostTypeOK
  <2>1. 0 \in 0..MaxWrites /\ 0 \in 0..0
    BY WritesBounded, SMT
  <2>2. NoBackup \in [phase : {"none", "main", "done"}, holds : Nat,
                      floor : Nat, disturbed : BOOLEAN]
    BY SMT DEF NoBackup
  <2>3. /\ files \in [{"env", "wrapper", "unit"} -> File]
        /\ manager \in [loaded : BOOLEAN, enabled : BOOLEAN, wants : BOOLEAN]
    BY <1>1 DEF HostInit, File
  <2>4. cmd \in Commands
    BY <1>1, NothingPlanned DEF HostInit
  <2>5. QED
    BY <1>1, <2>1, <2>2, <2>3, <2>4 DEF HostInit, HostTypeOK, Commands
<1>3. PlanInv
  BY <1>1, NothingPlanned DEF HostInit, PlanInv
<1>4. UnitPointsAtConfig /\ BackupsHoldCommitted
  <2>1. NoBackup.phase # "done"
    BY SMT DEF NoBackup
  <2>2. QED
    BY <1>1, <2>1 DEF HostInit, UnitPointsAtConfig, BackupsHoldCommitted
<1>5. QED
  BY <1>2, <1>3, <1>4 DEF HostInv

\* A plan begins, and nothing else changes.
LEMMA BeginKeeps ==
    ASSUME HostInv, NEW kind \in {"install", "uninstall", "restart"}, NEW steps,
           Begin(kind, steps), IsPlan(steps),
           kind = "restart" => OfRestart(steps)
    PROVE  HostInv'
<1>1. HostTypeOK' /\ PlanInv'
  BY BeginPlan DEF HostInv
<1>2. files' = files /\ backend' = backend /\ backup' = backup
  BY DEF Begin, installation
<1>3. QED
  BY <1>1, <1>2
     DEF HostInv, UnitPointsAtConfig, BackupsHoldCommitted, Installed

LEMMA BeginStep ==
    ASSUME HostInv, BeginInstall \/ BeginUninstall \/ BeginRestart
    PROVE  HostInv'
<1>1. CASE BeginInstall
  <2>1. PICK force \in BOOLEAN, start \in BOOLEAN, enable \in BOOLEAN :
               Begin("install", Install(force, start, enable))
    BY <1>1 DEF BeginInstall
  <2>2. IsPlan(Install(force, start, enable))
    BY InstallPlan DEF HostInv
  <2>3. QED
    BY <2>1, <2>2, BeginKeeps
<1>2. CASE BeginUninstall
  <2>1. PICK purge \in BOOLEAN, remove_user \in BOOLEAN :
               Begin("uninstall", Uninstall(purge, remove_user))
    BY <1>2 DEF BeginUninstall
  <2>2. IsPlan(Uninstall(purge, remove_user))
    BY UninstallPlan DEF HostInv
  <2>3. QED
    BY <2>1, <2>2, BeginKeeps
<1>3. CASE BeginRestart
  <2>1. PICK plan \in BackupPlan : Begin("restart", plan)
    BY <1>3 DEF BeginRestart
  <2>2. plan \in {Restart, RestartWithBackup}
    BY DEF BackupPlan
  <2>3. IsPlan(plan) /\ OfRestart(plan)
    BY <2>2, RestartPlan, RestartWithBackupPlan
  <2>4. QED
    BY <2>1, <2>3, BeginKeeps
<1>4. QED
  BY <1>1, <1>2, <1>3

\* What Done leaves to show of a step that keeps to its own part of the host.
LEMMA DoneType ==
    ASSUME HostInv, cmd.todo # << >>, Done
    PROVE  cmd' \in Commands
  BY HeadDone DEF HostInv

LEMMA PlainStep ==
    ASSUME HostInv, EnsureAccount \/ EnsureStateDir \/ UserDel
    PROVE  HostInv'
<1>1. /\ cmd.todo # << >> /\ Done
      /\ Head(cmd.todo).do \in {"account", "state-dir", "userdel"}
      /\ account' \in BOOLEAN
      /\ UNCHANGED <<backend, files, manager, server, other, written, main, backup>>
  BY DEF EnsureAccount, EnsureStateDir, UserDel, Doing, installation, file,
         HostInv, HostTypeOK
<1>2. Head(cmd.todo).do \notin Leads
  BY <1>1, SMT DEF Leads, Asks
<1>3. HostTypeOK'
  BY <1>1, DoneType DEF HostInv, HostTypeOK, Commands
<1>4. PlanInv'
  BY <1>1, <1>2, NeutralStep DEF HostInv
<1>5. QED
  BY <1>1, <1>3, <1>4
     DEF HostInv, UnitPointsAtConfig, BackupsHoldCommitted, Installed

LEMMA WriteFileStep ==
    ASSUME HostInv, NEW f \in DOMAIN files, WriteFile(f)
    PROVE  HostInv'
<1>1. /\ cmd.todo # << >> /\ Done /\ Head(cmd.todo).do = f
      /\ UNCHANGED <<backend, account, manager, server, other, written, main, backup>>
  BY DEF WriteFile, Doing, file
<1>2. f \in {"env", "wrapper", "unit"} /\ files \in [{"env", "wrapper", "unit"} -> File]
  BY DEF HostInv, HostTypeOK
<1>3. PICK content \in File \ {"absent"} : files' = [files EXCEPT ![f] = content]
  <2>1. PICK content \in Rendered(f) : files' = [files EXCEPT ![f] = content]
    BY DEF WriteFile
  <2>2. Rendered(f) \subseteq File \ {"absent"}
    BY SMT DEF Rendered, File
  <2>3. QED
    BY <2>1, <2>2
<1>4. HostTypeOK'
  <2>1. files' \in [{"env", "wrapper", "unit"} -> File]
    BY <1>2, <1>3
  <2>2. QED
    BY <1>1, <2>1, DoneType DEF HostInv, HostTypeOK, Commands
<1>5. Ready(Head(cmd.todo)) /\ HostTypeOK /\ PlanInv
  BY <1>1 DEF HostInv, PlanInv
<1>6. PlanInv'
  <2>1. CASE f = "unit"
    <3>1. Head(cmd.todo).do \notin Leads
      BY <1>1, <2>1, SMT DEF Leads, Asks
    <3>2. QED
      BY <1>1, <1>5, <3>1, NeutralStep
  <2>2. CASE f # "unit"
    <3>1. ASSUME NEW t \in Step, Follows(Head(cmd.todo), t) PROVE Ready(t)'
      BY <1>1, <1>2, <1>3, <1>5, <2>2, <3>1, SMT
         DEF Follows, Precedes, Ready, Keeps, Asks
    <3>2. QED
      BY <1>1, <1>5, <3>1, NextStep
  <2>3. QED
    BY <2>1, <2>2
<1>7. UnitPointsAtConfig'
  <2>1. f = "unit" => /\ files["env"] # "absent"
                      /\ backend = "launchd" => files["wrapper"] # "absent"
    BY <1>1, <1>5 DEF Ready
  <2>2. QED
    BY <1>1, <1>2, <1>3, <2>1, SMT DEF HostInv, UnitPointsAtConfig, Installed
<1>8. BackupsHoldCommitted'
  BY <1>1 DEF HostInv, BackupsHoldCommitted
<1>9. QED
  BY <1>4, <1>6, <1>7, <1>8 DEF HostInv

LEMMA RemoveFileStep ==
    ASSUME HostInv, NEW f \in DOMAIN files, RemoveFile(f)
    PROVE  HostInv'
<1>1. /\ cmd.todo # << >> /\ Done /\ Head(cmd.todo).do = Removal[f]
      /\ files' = [files EXCEPT ![f] = "absent"]
      /\ UNCHANGED <<backend, account, manager, server, other, written, main, backup>>
  BY DEF RemoveFile, Doing, file
<1>2. f \in {"env", "wrapper", "unit"} /\ files \in [{"env", "wrapper", "unit"} -> File]
  BY DEF HostInv, HostTypeOK
<1>3. /\ f = "unit" => Head(cmd.todo).do = "remove-unit"
      /\ f = "env" => Head(cmd.todo).do = "remove-env"
      /\ f = "wrapper" => Head(cmd.todo).do = "remove-wrapper"
  BY <1>1, <1>2 DEF Removal
<1>4. HostTypeOK'
  <2>1. files' \in [{"env", "wrapper", "unit"} -> File]
    BY <1>1, <1>2 DEF File
  <2>2. QED
    BY <1>1, <2>1, DoneType DEF HostInv, HostTypeOK, Commands
<1>5. Ready(Head(cmd.todo)) /\ HostTypeOK /\ PlanInv
  BY <1>1 DEF HostInv, PlanInv
<1>6. f # "unit" => files["unit"] = "absent"
  BY <1>2, <1>3, <1>5 DEF Ready
<1>7. files'["unit"] = "absent"
  BY <1>1, <1>2, <1>6
<1>8. PlanInv'
  <2>1. ASSUME NEW t \in Step, Follows(Head(cmd.todo), t) PROVE Ready(t)'
    BY <1>1, <1>2, <1>3, <1>7, <2>1, SMT DEF Follows, Precedes, Ready, Keeps, Asks
  <2>2. QED
    BY <1>1, <1>5, <2>1, NextStep
<1>9. QED
  BY <1>1, <1>4, <1>7, <1>8
     DEF HostInv, UnitPointsAtConfig, BackupsHoldCommitted

LEMMA PurgeStep == ASSUME HostInv, Purge PROVE HostInv'
<1>1. /\ cmd.todo # << >> /\ Done /\ Head(cmd.todo).do = "purge"
      /\ UNCHANGED <<backend, files, account, manager, backup>>
  BY DEF Purge, Doing, installation
<1>2. HostTypeOK'
  <2>1. written' = 0 /\ main' = 0 /\ other' = FALSE /\ server' \in {"off", "lost"}
    BY DEF Purge
  <2>2. written' \in 0..MaxWrites /\ main' \in 0..written'
    BY <2>1, WritesBounded, SMT
  <2>3. QED
    BY <1>1, <2>1, <2>2, DoneType DEF HostInv, HostTypeOK, Commands
<1>3. Head(cmd.todo).do \notin Leads
  BY <1>1, SMT DEF Leads, Asks
<1>4. PlanInv'
  BY <1>1, <1>3, NeutralStep DEF HostInv
<1>5. QED
  BY <1>1, <1>2, <1>4
     DEF HostInv, UnitPointsAtConfig, BackupsHoldCommitted, Installed

\* What systemd and launchd do when they are asked to.
Manager == [loaded : BOOLEAN, enabled : BOOLEAN, wants : BOOLEAN]

LEMMA ToldType ==
    ASSUME NEW m \in Manager, NEW v \in BOOLEAN, NEW w \in BOOLEAN
    PROVE  /\ [m EXCEPT !.loaded = v] \in Manager
           /\ [m EXCEPT !.enabled = v] \in Manager
           /\ [m EXCEPT !.wants = v] \in Manager
           /\ [m EXCEPT !.loaded = v, !.wants = w] \in Manager
<1>1. [m EXCEPT !.loaded = v] \in Manager
  BY SMT DEF Manager
<1>2. [m EXCEPT !.enabled = v] \in Manager
  BY SMT DEF Manager
<1>3. [m EXCEPT !.wants = v] \in Manager
  BY SMT DEF Manager
<1>4. [m EXCEPT !.loaded = v, !.wants = w] \in Manager
  BY Zenon DEF Manager
<1>5. QED
  BY <1>1, <1>2, <1>3, <1>4

Managed ==
    /\ cmd.todo # << >> /\ Done
    /\ manager' \in Manager
    /\ server' \in {server, "off"}
    /\ Head(cmd.todo).do \in Asks => manager'.wants
    /\ Head(cmd.todo).do \in {"stop", "bootout"} =>
         ~manager'.wants /\ server' = "off"
    /\ Head(cmd.todo).do \in {"is-active", "enable", "print"} =>
         manager'.wants = manager.wants
    /\ Head(cmd.todo).do \in Asks \cup {"daemon-reload", "enable", "disable",
         "stop", "is-active", "bootout", "print"}
    /\ UNCHANGED <<backend, files, account, other, written, main, backup>>

LEMMA TellEffect ==
    ASSUME NEW do, NEW accepted, NEW told \in Manager, NEW kill \in BOOLEAN,
           Tell(do, accepted, told, kill),
           do \in Asks => told.wants,
           do \in {"stop", "bootout"} => ~told.wants /\ kill,
           do \in {"is-active", "enable", "print"} =>
             told.wants = manager.wants,
           do \in Asks \cup {"daemon-reload", "enable", "disable", "stop",
             "is-active", "bootout", "print"}
    PROVE  Managed
<1>1. /\ cmd.todo # << >> /\ Done /\ manager' = told
      /\ Head(cmd.todo).do = do
      /\ server' = IF kill THEN "off" ELSE server
      /\ UNCHANGED <<backend, files, account, other, written, main, backup>>
  BY DEF Tell, Doing, Kill, file
<1>2. server' \in {server, "off"} /\ (kill => server' = "off")
  BY <1>1
<1>3. QED
  BY <1>1, <1>2 DEF Managed

LEMMA ManageEffect == ASSUME HostInv, Manage PROVE Managed
<1>1. manager \in Manager
  BY DEF HostInv, HostTypeOK, Manager
<1>2. CASE Tell("daemon-reload", TRUE,
              [manager EXCEPT !.loaded =
                             files["unit"] # "absent" \/ manager.wants], FALSE)
  <2> DEFINE told == [manager EXCEPT !.loaded =
                             files["unit"] # "absent" \/ manager.wants]
  <2>1. told \in Manager
    BY <1>1, ToldType
  <2>2. /\ "daemon-reload" \in Asks => told.wants
        /\ "daemon-reload" \in {"stop", "bootout"} => ~told.wants
        /\ "daemon-reload" \in {"is-active", "enable", "print"} => told.wants = manager.wants
        /\ "daemon-reload" \in Asks \cup {"daemon-reload", "enable", "disable", "stop",
             "is-active", "bootout", "print"}
    BY <1>1, SMT DEF Manager, Asks
  <2>3. QED
    BY <1>2, <2>1, <2>2, TellEffect
<1>3. CASE Tell("enable", files["unit"] # "absent",
              [manager EXCEPT !.enabled = TRUE], FALSE)
  <2> DEFINE told == [manager EXCEPT !.enabled = TRUE]
  <2>1. told \in Manager
    BY <1>1, ToldType
  <2>2. /\ "enable" \in Asks => told.wants
        /\ "enable" \in {"stop", "bootout"} => ~told.wants
        /\ "enable" \in {"is-active", "enable", "print"} => told.wants = manager.wants
        /\ "enable" \in Asks \cup {"daemon-reload", "enable", "disable", "stop",
             "is-active", "bootout", "print"}
    BY <1>1, SMT DEF Manager, Asks
  <2>3. QED
    BY <1>3, <2>1, <2>2, TellEffect
<1>4. CASE Tell("disable", TRUE,
              [manager EXCEPT !.enabled = FALSE], FALSE)
  <2> DEFINE told == [manager EXCEPT !.enabled = FALSE]
  <2>1. told \in Manager
    BY <1>1, ToldType
  <2>2. /\ "disable" \in Asks => told.wants
        /\ "disable" \in {"stop", "bootout"} => ~told.wants
        /\ "disable" \in {"is-active", "enable", "print"} => told.wants = manager.wants
        /\ "disable" \in Asks \cup {"daemon-reload", "enable", "disable", "stop",
             "is-active", "bootout", "print"}
    BY <1>1, SMT DEF Manager, Asks
  <2>3. QED
    BY <1>4, <2>1, <2>2, TellEffect
<1>5. CASE Tell("start", manager.loaded,
              [manager EXCEPT !.wants = TRUE], FALSE)
  <2> DEFINE told == [manager EXCEPT !.wants = TRUE]
  <2>1. told \in Manager
    BY <1>1, ToldType
  <2>2. /\ "start" \in Asks => told.wants
        /\ "start" \in {"stop", "bootout"} => ~told.wants
        /\ "start" \in {"is-active", "enable", "print"} => told.wants = manager.wants
        /\ "start" \in Asks \cup {"daemon-reload", "enable", "disable", "stop",
             "is-active", "bootout", "print"}
    BY <1>1, SMT DEF Manager, Asks
  <2>3. QED
    BY <1>5, <2>1, <2>2, TellEffect
<1>6. CASE Tell("stop", manager.loaded,
              [manager EXCEPT !.wants = FALSE], TRUE)
  <2> DEFINE told == [manager EXCEPT !.wants = FALSE]
  <2>1. told \in Manager
    BY <1>1, ToldType
  <2>2. /\ "stop" \in Asks => told.wants
        /\ "stop" \in {"stop", "bootout"} => ~told.wants
        /\ "stop" \in {"is-active", "enable", "print"} => told.wants = manager.wants
        /\ "stop" \in Asks \cup {"daemon-reload", "enable", "disable", "stop",
             "is-active", "bootout", "print"}
    BY <1>1, SMT DEF Manager, Asks
  <2>3. QED
    BY <1>6, <2>1, <2>2, TellEffect
<1>7. CASE Tell("restart", manager.loaded,
              [manager EXCEPT !.wants = TRUE], TRUE)
  <2> DEFINE told == [manager EXCEPT !.wants = TRUE]
  <2>1. told \in Manager
    BY <1>1, ToldType
  <2>2. /\ "restart" \in Asks => told.wants
        /\ "restart" \in {"stop", "bootout"} => ~told.wants
        /\ "restart" \in {"is-active", "enable", "print"} => told.wants = manager.wants
        /\ "restart" \in Asks \cup {"daemon-reload", "enable", "disable", "stop",
             "is-active", "bootout", "print"}
    BY <1>1, SMT DEF Manager, Asks
  <2>3. QED
    BY <1>7, <2>1, <2>2, TellEffect
<1>8. CASE Tell("is-active", manager.wants,
              manager, FALSE)
  <2> DEFINE told == manager
  <2>1. told \in Manager
    BY <1>1, ToldType
  <2>2. /\ "is-active" \in Asks => told.wants
        /\ "is-active" \in {"stop", "bootout"} => ~told.wants
        /\ "is-active" \in {"is-active", "enable", "print"} => told.wants = manager.wants
        /\ "is-active" \in Asks \cup {"daemon-reload", "enable", "disable", "stop",
             "is-active", "bootout", "print"}
    BY <1>1, SMT DEF Manager, Asks
  <2>3. QED
    BY <1>8, <2>1, <2>2, TellEffect
<1>9. CASE Tell("bootstrap", files["unit"] # "absent" /\ ~manager.loaded /\ manager.enabled,
              [manager EXCEPT !.loaded = TRUE, !.wants = TRUE], FALSE)
  <2> DEFINE told == [manager EXCEPT !.loaded = TRUE, !.wants = TRUE]
  <2>1. told \in Manager
    BY <1>1, ToldType
  <2>2. /\ "bootstrap" \in Asks => told.wants
        /\ "bootstrap" \in {"stop", "bootout"} => ~told.wants
        /\ "bootstrap" \in {"is-active", "enable", "print"} => told.wants = manager.wants
        /\ "bootstrap" \in Asks \cup {"daemon-reload", "enable", "disable", "stop",
             "is-active", "bootout", "print"}
    BY <1>1, SMT DEF Manager, Asks
  <2>3. QED
    BY <1>9, <2>1, <2>2, TellEffect
<1>10. CASE Tell("bootout", manager.loaded,
              [manager EXCEPT !.loaded = FALSE, !.wants = FALSE], TRUE)
  <2> DEFINE told == [manager EXCEPT !.loaded = FALSE, !.wants = FALSE]
  <2>1. told \in Manager
    BY <1>1, ToldType
  <2>2. /\ "bootout" \in Asks => told.wants
        /\ "bootout" \in {"stop", "bootout"} => ~told.wants
        /\ "bootout" \in {"is-active", "enable", "print"} => told.wants = manager.wants
        /\ "bootout" \in Asks \cup {"daemon-reload", "enable", "disable", "stop",
             "is-active", "bootout", "print"}
    BY <1>1, SMT DEF Manager, Asks
  <2>3. QED
    BY <1>10, <2>1, <2>2, TellEffect
<1>11. CASE Tell("kickstart", manager.loaded,
              [manager EXCEPT !.wants = TRUE], TRUE)
  <2> DEFINE told == [manager EXCEPT !.wants = TRUE]
  <2>1. told \in Manager
    BY <1>1, ToldType
  <2>2. /\ "kickstart" \in Asks => told.wants
        /\ "kickstart" \in {"stop", "bootout"} => ~told.wants
        /\ "kickstart" \in {"is-active", "enable", "print"} => told.wants = manager.wants
        /\ "kickstart" \in Asks \cup {"daemon-reload", "enable", "disable", "stop",
             "is-active", "bootout", "print"}
    BY <1>1, SMT DEF Manager, Asks
  <2>3. QED
    BY <1>11, <2>1, <2>2, TellEffect
<1>12. CASE Tell("print", manager.loaded,
              manager, FALSE)
  <2> DEFINE told == manager
  <2>1. told \in Manager
    BY <1>1, ToldType
  <2>2. /\ "print" \in Asks => told.wants
        /\ "print" \in {"stop", "bootout"} => ~told.wants
        /\ "print" \in {"is-active", "enable", "print"} => told.wants = manager.wants
        /\ "print" \in Asks \cup {"daemon-reload", "enable", "disable", "stop",
             "is-active", "bootout", "print"}
    BY <1>1, SMT DEF Manager, Asks
  <2>3. QED
    BY <1>12, <2>1, <2>2, TellEffect
<1>13. QED
  BY <1>2, <1>3, <1>4, <1>5, <1>6, <1>7, <1>8, <1>9, <1>10, <1>11, <1>12 DEF Manage

LEMMA ManageStep == ASSUME HostInv, Manage PROVE HostInv'
<1> DEFINE do == Head(cmd.todo).do
<1>1. HostTypeOK'
  BY ManageEffect, DoneType DEF HostInv, HostTypeOK, Commands, Managed, Manager
<1>2. PlanInv'
  <2>1. CASE do \in Asks \cup {"stop", "bootout"}
    <3>1. ASSUME NEW t \in Step, Follows(Head(cmd.todo), t) PROVE Ready(t)'
      <4>1. CASE do \in Asks
        BY <3>1, <4>1, ManageEffect, SMT
           DEF Follows, Precedes, Ready, Keeps, Asks, Managed
      <4>2. CASE do \in {"stop", "bootout"}
        BY <3>1, <4>2, ManageEffect, SMT
           DEF Follows, Precedes, Ready, Keeps, Asks, Managed, Stopped
      <4>3. QED
        BY <2>1, <4>1, <4>2
    <3>2. QED
      BY <3>1, ManageEffect, NextStep DEF HostInv, Managed
  <2>2. CASE do \notin Asks \cup {"stop", "bootout"}
    <3>1. do \notin Leads
      BY <2>2, ManageEffect, SMT DEF Leads, Asks, Managed
    <3>2. QED
      BY <3>1, ManageEffect, NeutralStep DEF HostInv, Managed
  <2>3. QED
    BY <2>1, <2>2
<1>3. QED
  BY <1>1, <1>2, ManageEffect
     DEF HostInv, UnitPointsAtConfig, BackupsHoldCommitted, Installed, Managed

LEMMA CopyMainStep == ASSUME HostInv, CopyMain PROVE HostInv'
<1>1. /\ cmd.todo # << >> /\ Done /\ Head(cmd.todo).do = "copy-main"
      /\ backup' = [phase |-> "main", holds |-> main, floor |-> written,
                    disturbed |-> FALSE]
      /\ UNCHANGED <<backend, files, account, manager, server, other, written, main>>
  BY DEF CopyMain, Doing, installation, file
<1>2. backup' \in [phase : {"none", "main", "done"}, holds : Nat, floor : Nat,
                   disturbed : BOOLEAN]
  <2>1. main \in Nat /\ written \in Nat
    BY WritesBounded, SMT DEF HostInv, HostTypeOK
  <2>2. QED
    BY <1>1, <2>1, SMT
<1>3. HostTypeOK'
  BY <1>1, <1>2, DoneType DEF HostInv, HostTypeOK, Commands
<1>4. PlanInv'
  <2>1. Stopped /\ written \in Nat
    BY <1>1, WritesBounded, SMT DEF HostInv, HostTypeOK, PlanInv, Ready
  <2>2. ASSUME NEW t \in Step, Follows(Head(cmd.todo), t) PROVE Ready(t)'
    BY <1>1, <2>1, <2>2, SMT DEF Follows, Precedes, Ready, Keeps, Asks, Stopped
  <2>3. QED
    BY <1>1, <2>2, NextStep DEF HostInv
<1>5. QED
  BY <1>1, <1>3, <1>4, SMT
     DEF HostInv, UnitPointsAtConfig, BackupsHoldCommitted, Installed

\* The server is down, so what is not in the main file is in the WAL.
LEMMA CopySidecarsStep == ASSUME HostInv, CopySidecars PROVE HostInv'
<1> DEFINE held == IF main < written THEN written ELSE backup.holds
<1>1. /\ cmd.todo # << >> /\ Done /\ Head(cmd.todo).do = "copy-sidecars"
      /\ backup' = [backup EXCEPT !.phase = "done", !.holds = held]
      /\ UNCHANGED <<backend, files, account, manager, server, other, written, main>>
  BY DEF CopySidecars, Doing, installation, file
<1>2. /\ backup \in [phase : {"none", "main", "done"}, holds : Nat, floor : Nat,
                     disturbed : BOOLEAN]
      /\ main \in Nat /\ written \in Nat /\ main <= written
  BY WritesBounded, SMT DEF HostInv, HostTypeOK
<1>3. held \in Nat /\ "done" \in {"none", "main", "done"}
  BY <1>2
<1>4. /\ backup' \in [phase : {"none", "main", "done"}, holds : Nat, floor : Nat,
                      disturbed : BOOLEAN]
      /\ backup'.holds = held /\ backup'.floor = backup.floor
      /\ backup'.disturbed = backup.disturbed
  <2>. HIDE DEF held
  <2>1. backup' = [[backup EXCEPT !.phase = "done"] EXCEPT !.holds = held]
    BY <1>1, <1>2, Zenon
  <2>2. PICK first : first = [backup EXCEPT !.phase = "done"]
    OBVIOUS
  <2>3. /\ first \in [phase : {"none", "main", "done"}, holds : Nat, floor : Nat,
                      disturbed : BOOLEAN]
        /\ first.floor = backup.floor /\ first.disturbed = backup.disturbed
    BY <1>2, <2>2
  <2>4. backup' = [first EXCEPT !.holds = held]
    BY <2>1, <2>2
  <2>5. QED
    BY <1>3, <2>3, <2>4
<1>5. HostTypeOK'
  BY <1>1, <1>4, DoneType DEF HostInv, HostTypeOK, Commands
<1>6. Head(cmd.todo).do \notin Leads
  BY <1>1, SMT DEF Leads, Asks
<1>7. PlanInv'
  BY <1>1, <1>6, NeutralStep DEF HostInv
<1>8. BackupsHoldCommitted'
  <2>1. ~backup.disturbed => backup.holds = main /\ backup.floor <= written
    BY <1>1 DEF HostInv, PlanInv, Ready
  <2>2. ~backup.disturbed => held >= backup.floor
    BY <1>2, <2>1, SMT
  <2>3. QED
    BY <1>4, <2>2 DEF BackupsHoldCommitted
<1>9. QED
  BY <1>1, <1>5, <1>7, <1>8
     DEF HostInv, UnitPointsAtConfig, Installed

LEMMA KilledStep == ASSUME HostInv, Killed PROVE HostInv'
<1>1. /\ cmd' = [NoCommand EXCEPT !.kind = "killed"]
      /\ UNCHANGED <<backend, files, account, manager, server, other, written,
                     main, backup>>
  BY DEF Killed, installation, file
<1>2. cmd' \in Commands /\ cmd'.todo = << >> /\ cmd'.kind = "killed"
  BY <1>1, NothingPlanned, SMT DEF Commands
<1>3. PlanInv'
  BY <1>2, EndStep, SMT
<1>4. QED
  BY <1>1, <1>2, <1>3
     DEF HostInv, HostTypeOK, Commands, UnitPointsAtConfig,
         BackupsHoldCommitted, Installed

LEMMA StepFailsStep == ASSUME HostInv, StepFails PROVE HostInv'
<1>1. /\ cmd.todo # << >> /\ backup' \in {backup, NoBackup}
      /\ UNCHANGED <<backend, account, manager, server, other, written, main>>
  BY DEF StepFails, file
<1>2. files \in [{"env", "wrapper", "unit"} -> File]
  BY DEF HostInv, HostTypeOK
<1>3. /\ files' \in [{"env", "wrapper", "unit"} -> File]
      /\ \A f \in {"env", "wrapper", "unit"} :
            \/ files'[f] = files[f]
            \/ files'[f] # "absent" /\ Doing(f)
  <2>1. CASE files' = files
    BY <1>2, <2>1
  <2>2. CASE files' # files
    <3>1. PICK f \in DOMAIN files :
            /\ Doing(f)
            /\ \E content \in {"partial"} \cup Rendered(f) :
                  files' = [files EXCEPT ![f] = content]
      BY <2>2 DEF StepFails
    <3>2. PICK content \in {"partial"} \cup Rendered(f) :
            files' = [files EXCEPT ![f] = content]
      BY <3>1
    <3>3. content \in File \ {"absent"}
      BY SMT DEF Rendered, File
    <3>4. QED
      BY <1>2, <3>1, <3>2, <3>3
  <2>3. QED
    BY <2>1, <2>2
<1>4. cmd' \in Commands /\ PlanInv'
  <2>1. CASE Copying /\ Continue(AfterCopyFails)
    <3>1. PICK steps : steps = AfterCopyFails
      OBVIOUS
    <3>2. IsPlan(steps) /\ OfRestart(steps) /\ Continue(steps)
      BY <2>1, <3>1, AfterCopyPlan
    <3>3. /\ cmd' = [cmd EXCEPT !.todo = steps] /\ cmd \in Commands
          /\ steps \in Seq(Step)
      BY <3>2 DEF Continue, IsPlan, HostInv, HostTypeOK, Commands
    <3>4. cmd' \in Commands /\ cmd'.todo = steps /\ cmd'.kind = cmd.kind
      BY <3>3 DEF Commands
    <3>5. Ready(Head(steps))'
      BY <1>1, <3>2, BackendKeeps DEF IsPlan, Opens, Ready
    <3>6. QED
      BY <1>1, <3>2, <3>4, <3>5, BackendKeeps DEF PlanInv, IsPlan
  <2>2. CASE cmd' = NoCommand
    <3>1. NoCommand.kind # "restart"
      BY NothingPlanned
    <3>2. QED
      BY <2>2, <3>1, NothingPlanned, EndStep
  <2>3. CASE ~Head(cmd.todo).must /\ Done
    BY <1>1, <2>3, NeutralStep, DoneType DEF HostInv
  <2>4. QED
    BY <2>1, <2>2, <2>3 DEF StepFails
<1>5. backup' \in [phase : {"none", "main", "done"}, holds : Nat, floor : Nat,
                   disturbed : BOOLEAN]
  <2>1. NoBackup \in [phase : {"none", "main", "done"}, holds : Nat,
                      floor : Nat, disturbed : BOOLEAN]
    BY SMT DEF NoBackup
  <2>2. QED
    BY <1>1, <2>1 DEF HostInv, HostTypeOK
<1>6. HostTypeOK'
  BY <1>1, <1>3, <1>4, <1>5 DEF HostInv, HostTypeOK, Commands
<1>7. UnitPointsAtConfig'
  <2>1. \A f \in {"env", "wrapper", "unit"} :
           files[f] # "absent" => files'[f] # "absent"
    BY <1>3
  <2>2. Doing("unit") => /\ files["env"] # "absent"
                         /\ backend = "launchd" => files["wrapper"] # "absent"
    BY DEF HostInv, PlanInv, Doing, Ready
  <2>3. CASE files["unit"] = "absent"
    <3>1. files'["unit"] # "absent" => Doing("unit")
      BY <1>3, <2>3
    <3>2. QED
      BY <1>1, <2>1, <2>2, <3>1 DEF UnitPointsAtConfig, Installed
  <2>4. CASE files["unit"] # "absent"
    BY <1>1, <2>1, <2>4 DEF HostInv, UnitPointsAtConfig, Installed
  <2>5. QED
    BY <2>3, <2>4
<1>8. BackupsHoldCommitted'
  BY <1>1, SMT DEF HostInv, BackupsHoldCommitted, NoBackup
<1>9. QED
  BY <1>4, <1>6, <1>7, <1>8 DEF HostInv

\* The manager wants the server down while a restart copies its database.
LEMMA ServerStep ==
    ASSUME HostInv, Spawn \/ ServerDies \/ RunCommand PROVE HostInv'
<1>1. /\ UNCHANGED <<backend, files, account, manager, cmd, written, main, backup>>
      /\ Stopped => server' = "off"
  BY DEF Spawn, ServerDies, RunCommand, installation, file, Stopped
<1>2. /\ server' \in {"off", "local", "remote", "lost"} /\ other' \in BOOLEAN
  <2>1. Database \in {"local", "remote"}
    BY DEF Database
  <2>2. QED
    BY <2>1 DEF Spawn, ServerDies, RunCommand, HostInv, HostTypeOK
<1>3. HostTypeOK'
  BY <1>1, <1>2 DEF HostInv, HostTypeOK
<1>4. ASSUME NEW s \in Step, Ready(s) PROVE Ready(s)'
  BY <1>1, <1>4 DEF Ready, Keeps, Stopped
<1>5. PlanInv'
  BY <1>1, <1>4, OtherStep DEF HostInv
<1>6. QED
  BY <1>1, <1>3, <1>5
     DEF HostInv, UnitPointsAtConfig, BackupsHoldCommitted, Installed

LEMMA WriteStep == ASSUME HostInv, Write PROVE HostInv'
<1>1. /\ UNCHANGED <<backend, files, account, manager, cmd, server, other, main, backup>>
      /\ written' = written + 1 /\ written < MaxWrites
  BY DEF Write, installation
<1>2. written \in Nat /\ written' \in 0..MaxWrites /\ main \in 0..written'
  BY <1>1, WritesBounded, SMT DEF HostInv, HostTypeOK
<1>3. HostTypeOK'
  BY <1>1, <1>2 DEF HostInv, HostTypeOK
<1>4. backup.floor \in Nat
  BY DEF HostInv, HostTypeOK
<1>5. backup.floor <= written => backup.floor <= written'
  BY <1>1, <1>2, <1>4, SMT
<1>6. ASSUME NEW s \in Step, Ready(s) PROVE Ready(s)'
  BY <1>1, <1>5, <1>6 DEF Ready, Keeps, Stopped
<1>7. PlanInv'
  BY <1>1, <1>6, OtherStep DEF HostInv
<1>8. QED
  BY <1>1, <1>3, <1>7
     DEF HostInv, UnitPointsAtConfig, BackupsHoldCommitted, Installed

\* Only another command moves the WAL while the server is down.
LEMMA CheckpointStep == ASSUME HostInv, Checkpoint PROVE HostInv'
<1>1. /\ UNCHANGED <<backend, files, account, manager, cmd, server, other, written>>
      /\ main' = written
  BY DEF Checkpoint, installation
<1>2. backup \in [phase : {"none", "main", "done"}, holds : Nat, floor : Nat,
                  disturbed : BOOLEAN]
  BY DEF HostInv, HostTypeOK
<1>3. \/ server = "local" /\ backup' = backup
      \/ backup.phase # "main" /\ backup' = backup
      \/ backup' = [backup EXCEPT !.disturbed = TRUE]
  BY DEF Checkpoint
<1>4. /\ backup' \in [phase : {"none", "main", "done"}, holds : Nat, floor : Nat,
                      disturbed : BOOLEAN]
      /\ backup'.phase = backup.phase /\ backup'.holds = backup.holds
      /\ backup'.floor = backup.floor
      /\ backup' = backup \/ backup'.disturbed
  BY <1>2, <1>3
<1>5. written \in 0..MaxWrites /\ written \in 0..written
  BY WritesBounded, SMT DEF HostInv, HostTypeOK
<1>6. HostTypeOK'
  BY <1>1, <1>4, <1>5 DEF HostInv, HostTypeOK
<1>7. ASSUME NEW s \in Step, Ready(s) PROVE Ready(s)'
  <2>1. CASE s.do = "copy-sidecars"
    <3>1. Stopped /\ backup.phase = "main"
      BY <1>7, <2>1 DEF Ready
    <3>2. backup'.disturbed
      BY <1>2, <1>3, <3>1 DEF Stopped
    <3>3. QED
      BY <1>1, <1>4, <2>1, <3>1, <3>2 DEF Ready, Keeps, Stopped
  <2>2. CASE s.do # "copy-sidecars"
    BY <1>1, <1>7, <2>2 DEF Ready, Keeps, Stopped
  <2>3. QED
    BY <2>1, <2>2
<1>8. PlanInv'
  BY <1>1, <1>7, OtherStep DEF HostInv
<1>9. QED
  BY <1>1, <1>4, <1>6, <1>8
     DEF HostInv, UnitPointsAtConfig, BackupsHoldCommitted, Installed

LEMMA RebootStep == ASSUME HostInv, Reboot PROVE HostInv'
<1>1. /\ cmd' = [NoCommand EXCEPT !.kind = "killed"]
      /\ server' = "off" /\ other' = FALSE /\ backup' \in {backup, NoBackup}
      /\ UNCHANGED <<backend, files, account, written, main>>
  BY DEF Reboot, file
<1>2. cmd' \in Commands /\ cmd'.todo = << >> /\ cmd'.kind = "killed"
  BY <1>1, NothingPlanned, SMT DEF Commands
<1>3. manager' \in Manager
  BY DEF Reboot, Manager, HostInv, HostTypeOK
<1>4. /\ backup' \in [phase : {"none", "main", "done"}, holds : Nat, floor : Nat,
                      disturbed : BOOLEAN]
      /\ BackupsHoldCommitted'
  <2>1. /\ NoBackup \in [phase : {"none", "main", "done"}, holds : Nat,
                         floor : Nat, disturbed : BOOLEAN]
        /\ NoBackup.phase # "done"
    BY SMT DEF NoBackup
  <2>2. QED
    BY <1>1, <2>1 DEF HostInv, HostTypeOK, BackupsHoldCommitted
<1>5. PlanInv'
  BY <1>2, EndStep, SMT
<1>6. HostTypeOK'
  BY <1>1, <1>2, <1>3, <1>4 DEF HostInv, HostTypeOK, Commands, Manager
<1>7. QED
  BY <1>1, <1>4, <1>5, <1>6 DEF HostInv, UnitPointsAtConfig, Installed

LEMMA CommandStepKeeps == ASSUME HostInv, CommandStep PROVE HostInv'
<1>1. ASSUME NEW f \in DOMAIN files, WriteFile(f) \/ RemoveFile(f) PROVE HostInv'
  BY <1>1, WriteFileStep, RemoveFileStep
<1>2. QED
  BY <1>1, PlainStep, PurgeStep, ManageStep, CopyMainStep, CopySidecarsStep,
     StepFailsStep, KilledStep DEF CommandStep

LEMMA HostStutters == ASSUME HostInv, UNCHANGED host_vars PROVE HostInv'
<1>1. UNCHANGED <<backend, files, account, manager, cmd, server, other, written,
                  main, backup>>
  BY DEF host_vars, installation, file
<1>2. HostTypeOK'
  BY <1>1 DEF HostInv, HostTypeOK
<1>3. ASSUME NEW s \in Step, Ready(s) PROVE Ready(s)'
  BY <1>1, <1>3 DEF Ready, Keeps, Stopped
<1>4. PlanInv'
  BY <1>1, <1>3, OtherStep DEF HostInv
<1>5. QED
  BY <1>1, <1>2, <1>4
     DEF HostInv, UnitPointsAtConfig, BackupsHoldCommitted, Installed

LEMMA HostInvStep == ASSUME HostInv, [HostNext]_host_vars PROVE HostInv'
  BY BeginStep, CommandStepKeeps, ServerStep, WriteStep, CheckpointStep,
     RebootStep, HostStutters DEF HostNext

LEMMA HostInvHolds == HostSpec => []HostInv
<1>1. HostInit => HostInv
  BY HostInitInv
<1>2. HostInv /\ [HostNext]_host_vars => HostInv'
  BY HostInvStep
<1>3. QED
  BY <1>1, <1>2, PTL DEF HostSpec

\* Every reachable host is well-formed: files, what the manager was told, the
\* steps left of a command, and never more writes in the main file than were
\* committed.
THEOREM HostTypeCorrect == HostSpec => []HostTypeOK
<1>1. HostInv => HostTypeOK
  BY DEF HostInv
<1>2. QED
  BY <1>1, HostInvHolds, PTL

\* Wherever an install or an uninstall stopped, a unit that is there names an
\* env file and a wrapper that are there.
THEOREM UnitNeverDangles == HostSpec => []UnitPointsAtConfig
<1>1. HostInv => UnitPointsAtConfig
  BY DEF HostInv
<1>2. QED
  BY <1>1, HostInvHolds, PTL

\* For any number of writes, the copy of a stopped server's database has what
\* was committed before it, unless another command moved the WAL under it.
THEOREM BackupsAreWhole == HostSpec => []BackupsHoldCommitted
<1>1. HostInv => BackupsHoldCommitted
  BY DEF HostInv
<1>2. QED
  BY <1>1, HostInvHolds, PTL

\* How a command that is at its last step leaves the manager.
LEMMA LastStep ==
    ASSUME HostInv, cmd.kind = "restart", cmd.todo # << >>, Done,
           cmd'.kind = "none"
    PROVE  Head(cmd.todo).do \in {"start", "kickstart", "is-active", "print"}
<1>1. cmd \in Commands /\ cmd.todo \in Seq(Step) /\ OfRestart(cmd.todo)
  BY DEF HostInv, HostTypeOK, PlanInv, Commands
<1>2. Tail(cmd.todo) = << >>
  <2>1. CASE Tail(cmd.todo) # << >>
    <3>1. cmd'.kind = cmd.kind
      BY <1>1, <2>1 DEF Done, Continue, Commands
    <3>2. QED
      BY <3>1, SMT
  <2>2. QED
    BY <2>1
<1>3. QED
  BY <1>1, <1>2, RestartTail DEF Ends

LEMMA FailedStep ==
    ASSUME HostInv, StepFails, cmd.kind = "restart", cmd'.kind = "none"
    PROVE  \/ manager'.wants
           \/ Head(cmd.todo).do \in {"stop", "bootout", "start", "restart",
                                     "bootstrap", "kickstart"}
<1>1. /\ cmd.todo # << >> /\ manager' = manager /\ Head(cmd.todo) \in Step
      /\ Ready(Head(cmd.todo)) /\ Head(cmd.todo).do \in RestartSteps
      /\ cmd \in Commands
  BY OrderTail, RestartTail DEF StepFails, HostInv, HostTypeOK, PlanInv, Commands
<1>2. CASE Copying /\ Continue(AfterCopyFails)
  <2>1. cmd' = [cmd EXCEPT !.todo = AfterCopyFails]
    BY <1>2, AfterCopyPlan DEF Continue, IsPlan
  <2>2. cmd'.kind = cmd.kind
    BY <1>1, <2>1 DEF Commands
  <2>3. QED
    BY <2>2, SMT
<1>3. CASE ~Copying /\ Head(cmd.todo).must
  <2>1. Head(cmd.todo).do \notin {"copy-main", "copy-sidecars"}
    BY <1>1, <1>3 DEF Copying, Doing
  <2>2. Keeps(Head(cmd.todo)) => manager.wants
    BY <1>1 DEF Ready
  <2>3. QED
    BY <1>1, <1>3, <2>1, <2>2 DEF RestartSteps, Asks, Keeps
<1>4. CASE ~Head(cmd.todo).must /\ Done
  <2>1. Head(cmd.todo).do \in {"is-active", "print"} => manager.wants
    BY <1>1 DEF Ready, Keeps
  <2>2. QED
    BY <1>1, <1>4, <2>1, LastStep
<1>5. QED
  BY <1>2, <1>3, <1>4 DEF StepFails

LEMMA RestartStep ==
    ASSUME HostInv, [HostNext]_host_vars, cmd.kind = "restart",
           cmd'.kind = "none"
    PROVE  \/ manager'.wants
           \/ Head(cmd.todo).do \in {"stop", "bootout", "start", "restart",
                                     "bootstrap", "kickstart"}
<1>1. CASE StepFails
  BY <1>1, FailedStep
<1>2. CASE Manage
  <2>1. Head(cmd.todo).do \in {"is-active", "print"} => manager'.wants
    BY <1>2, ManageEffect DEF Managed, HostInv, PlanInv, Ready, Keeps
  <2>2. QED
    BY <1>2, <2>1, ManageEffect, LastStep DEF Managed
<1>3. CASE \/ EnsureAccount \/ EnsureStateDir \/ Purge \/ UserDel
           \/ CopyMain \/ CopySidecars
           \/ \E f \in DOMAIN files : WriteFile(f) \/ RemoveFile(f)
  <2>1. /\ cmd.todo # << >> /\ Done
        /\ Head(cmd.todo).do \notin {"start", "kickstart", "is-active", "print"}
    <3>1. DOMAIN files = {"env", "wrapper", "unit"}
      BY DEF HostInv, HostTypeOK
    <3>2. QED
      BY <1>3, <3>1 DEF EnsureAccount, EnsureStateDir, Purge, UserDel, CopyMain,
         CopySidecars, WriteFile, RemoveFile, Doing, Removal
  <2>2. QED
    BY <2>1, LastStep
<1>4. CASE Killed \/ Reboot
  <2>1. cmd'.kind = "killed"
    BY <1>4, NothingPlanned, SMT DEF Killed, Reboot, Commands
  <2>2. QED
    BY <2>1, SMT
<1>5. CASE \/ Spawn \/ ServerDies \/ RunCommand \/ Write \/ Checkpoint
           \/ UNCHANGED host_vars
  <2>1. cmd' = cmd
    BY <1>5 DEF Spawn, ServerDies, RunCommand, Write, Checkpoint, host_vars
  <2>2. QED
    BY <2>1, SMT
<1>6. CASE BeginInstall \/ BeginUninstall \/ BeginRestart
  <2>1. cmd.kind \in {"none", "killed"}
    BY <1>6 DEF BeginInstall, BeginUninstall, BeginRestart, Begin
  <2>2. QED
    BY <2>1, SMT
<1>7. QED
  BY <1>1, <1>2, <1>3, <1>4, <1>5, <1>6 DEF HostNext, CommandStep

\* Under either manager, a restart that ends by itself leaves the service to
\* be kept up, unless the manager refused to stop or to start it: a backup
\* that cannot be taken does not leave it down.
THEOREM RestartsComeBack == HostSpec => RestartBringsUp
<1>1. HostInv /\ [HostNext]_host_vars =>
        [cmd.kind = "restart" /\ cmd'.kind = "none" =>
            \/ manager'.wants
            \/ Head(cmd.todo).do \in {"stop", "bootout", "start", "restart",
                                      "bootstrap", "kickstart"}]_host_vars
  BY RestartStep
<1>2. QED
  BY <1>1, HostInvHolds, PTL DEF HostSpec, RestartBringsUp
=============================================================================
