------------------------------ MODULE Admission ------------------------------
(***************************************************************************)
(* How SSH connections are let in: the accept loop, its two limiters (all  *)
(* connections, and those not authenticated yet), authentication, the      *)
(* penalty on sources that keep failing, and the two authentication        *)
(* timeouts of a connection.                                               *)
(*                                                                         *)
(* Both limiters count in a semaphore and in a table by IP, and a permit   *)
(* of either is taken and dropped in two steps.  auth_attempts only picks  *)
(* the methods offered in an answer, which a client may disregard: it is   *)
(* left out.                                                               *)
(***************************************************************************)
EXTENDS Integers, FiniteSets

CONSTANTS
    Conn,                    \* client sockets, each used over and over
    Ip,
    IpOf,                    \* where each connects from
    Identity,                \* (username, key) pairs of a failure
    WholeIp,                 \* FailureKey::ip
    MaxPermits,              \* of each limiter
    MaxPermitsPerIp,
    AuthTimeout,             \* in ticks, as the two that follow
    FailureWindow,
    Penalty,
    FailuresBeforePenalty

Limiter == {"admission", "unauth"}
FailureKey == Identity \cup {WholeIp}

ASSUME ConnFinite == IsFiniteSet(Conn)
ASSUME SourcesKnown == IpOf \in [Conn -> Ip]
ASSUME KeysDiffer == WholeIp \notin Identity
ASSUME LimitsPositive ==
    /\ MaxPermits \in [Limiter -> Nat \ {0}]
    /\ MaxPermitsPerIp \in [Limiter -> Nat \ {0}]
    /\ {AuthTimeout, FailureWindow, Penalty, FailuresBeforePenalty}
            \subseteq Nat \ {0}

VARIABLES
    phase,             \* where the accept loop, then its task, is with each
    available,         \* permits left in the semaphore of each limiter
    per_ip,            \* its connections per IP, 0 for no entry
    held,              \* what each connection holds of each limiter
    authenticated,     \* ConnectionAuthState
    pending_key_auth,  \* connections that have offered an unknown key
    auth_deadline,     \* what is left until it
    timer,             \* of auth_timeout_task, or Off
    disconnect,        \* connections it has asked to disconnect
    failures,          \* bucket of each FailureKey of each IP
    penalties,         \* what is left of the penalty of each IP
    imposed            \* of the penalty record_failure is about to insert

permits == <<available, per_ip, held>>
timers == <<auth_deadline, timer, disconnect>>
abuse == <<failures, penalties, imposed>>
vars == <<phase, permits, authenticated, pending_key_auth, timers, abuse>>

Off == -1
Accepting == {"penalty", "refused"} \cup Limiter
Serving == {"auth", "lookup", "redeem", "penalizing",
            "marked", "lifted", "open"}
Phase == {"none", "starting", "closing"} \cup Accepting \cup Serving
FailureBucket == [count : 0..FailuresBeforePenalty - 1,
                  age : 0..FailureWindow + 1]

\* The variables are of their types; in particular no bucket is left standing
\* at FailuresBeforePenalty, where it has to impose a penalty and go.
TypeOK ==
    /\ phase \in [Conn -> Phase]
    /\ available \in [Limiter -> Nat]
    /\ per_ip \in [Limiter -> [Ip -> Nat]]
    /\ held \in [Limiter -> [Conn -> {"none", "global", "both"}]]
    /\ authenticated \subseteq Conn
    /\ pending_key_auth \subseteq Conn
    /\ auth_deadline \in [Conn -> 0..AuthTimeout]
    /\ timer \in [Conn -> Off..AuthTimeout]
    /\ disconnect \subseteq Conn
    /\ failures \in [Ip -> [FailureKey -> FailureBucket]]
    /\ penalties \in [Ip -> 0..Penalty]
    /\ imposed \in [Conn -> 0..Penalty]

NoBucket == [count |-> 0, age |-> 0]

Init ==
    /\ phase = [c \in Conn |-> "none"]
    /\ available = MaxPermits
    /\ per_ip = [l \in Limiter |-> [ip \in Ip |-> 0]]
    /\ held = [l \in Limiter |-> [c \in Conn |-> "none"]]
    /\ authenticated = {} /\ pending_key_auth = {} /\ disconnect = {}
    /\ auth_deadline = [c \in Conn |-> 0]
    /\ timer = [c \in Conn |-> Off]
    /\ failures = [ip \in Ip |-> [k \in FailureKey |-> NoBucket]]
    /\ penalties = [ip \in Ip |-> 0]
    /\ imposed = [c \in Conn |-> 0]
-----------------------------------------------------------------------------
(* Time, with which timers run down and buckets age.                       *)

Elapse(left) == IF left > 0 THEN left - 1 ELSE left

Aged(bucket) ==
    IF bucket.count > 0 /\ bucket.age <= FailureWindow
    THEN [bucket EXCEPT !.age = @ + 1] ELSE bucket

Tick ==
    /\ auth_deadline' = [c \in Conn |-> Elapse(auth_deadline[c])]
    /\ timer' = [c \in Conn |-> Elapse(timer[c])]
    /\ penalties' = [ip \in Ip |-> Elapse(penalties[ip])]
    /\ imposed' = [c \in Conn |-> Elapse(imposed[c])]
    /\ failures' = [ip \in Ip |-> [k \in FailureKey |-> Aged(failures[ip][k])]]
    /\ UNCHANGED <<phase, permits, authenticated, pending_key_auth, disconnect>>
-----------------------------------------------------------------------------
(* Permits: OwnedSemaphorePermit, then the table under its lock; dropped   *)
(* the other way round.                                                    *)

Goto(c, next) == phase' = [phase EXCEPT ![c] = next]

Hold(l, c, what) == held' = [held EXCEPT ![l][c] = what]

TakeGlobal(l, c) ==
    /\ phase[c] = l
    /\ held[l][c] = "none"
    /\ \/ /\ available[l] > 0
          /\ available' = [available EXCEPT ![l] = @ - 1]
          /\ Hold(l, c, "global")
          /\ UNCHANGED phase
       \/ /\ available[l] = 0
          /\ Goto(c, "refused")
          /\ UNCHANGED <<available, held>>
    /\ UNCHANGED <<per_ip, authenticated, pending_key_auth, timers, abuse>>

\* The handler is created, and its deadline set, once all permits are held.
Admit(l, c) ==
    \/ /\ l = "admission"
       /\ Goto(c, "unauth")
       /\ UNCHANGED auth_deadline
    \/ /\ l = "unauth"
       /\ Goto(c, "starting")
       /\ auth_deadline' = [auth_deadline EXCEPT ![c] = AuthTimeout]

\* Mutant: the connection is counted before the limit is looked at.
TakePerIpEagerly(l, c) ==
    /\ phase[c] = l
    /\ held[l][c] = "global"
    /\ per_ip' = [per_ip EXCEPT ![l][IpOf[c]] = @ + 1]
    /\ \/ /\ per_ip[l][IpOf[c]] < MaxPermitsPerIp[l]
          /\ Hold(l, c, "both")
          /\ Admit(l, c)
          /\ UNCHANGED available
       \/ /\ per_ip[l][IpOf[c]] >= MaxPermitsPerIp[l]
          /\ available' = [available EXCEPT ![l] = @ + 1]
          /\ Hold(l, c, "none")
          /\ Goto(c, "refused")
          /\ UNCHANGED auth_deadline
    /\ UNCHANGED <<authenticated, pending_key_auth, timer, disconnect, abuse>>

TakePerIp(l, c) ==
    /\ phase[c] = l
    /\ held[l][c] = "global"
    /\ \/ /\ per_ip[l][IpOf[c]] < MaxPermitsPerIp[l]
          /\ per_ip' = [per_ip EXCEPT ![l][IpOf[c]] = @ + 1]
          /\ Hold(l, c, "both")
          /\ Admit(l, c)
          /\ UNCHANGED available
       \/ /\ per_ip[l][IpOf[c]] >= MaxPermitsPerIp[l]
          /\ available' = [available EXCEPT ![l] = @ + 1]
          /\ Hold(l, c, "none")
          /\ Goto(c, "refused")
          /\ UNCHANGED <<per_ip, auth_deadline>>
    /\ UNCHANGED <<authenticated, pending_key_auth, timer, disconnect, abuse>>

\* Mutant: the permit is given up as soon as the stream has started.
DropsStarted(l, c) ==
    \/ l = "unauth" /\ phase[c] \in Serving \cup {"refused", "closing"}
    \/ /\ l = "admission" /\ phase[c] \in {"refused", "closing"}
       /\ held["unauth"][c] = "none"

\* A handler drops its unauth permit in mark_authenticated, or when it is
\* dropped itself; the task of the connection drops the other one after that.
Drops(l, c) ==
    \/ l = "unauth" /\ phase[c] \in {"marked", "refused", "closing"}
    \/ /\ l = "admission" /\ phase[c] \in {"refused", "closing"}
       /\ held["unauth"][c] = "none"

DropPerIp(l, c) ==
    /\ Drops(l, c)
    /\ held[l][c] = "both"
    /\ per_ip' = [per_ip EXCEPT ![l][IpOf[c]] = Elapse(@)]
    /\ Hold(l, c, "global")
    /\ UNCHANGED <<phase, available, authenticated, pending_key_auth, timers,
                   abuse>>

DropGlobal(l, c) ==
    /\ Drops(l, c)
    /\ held[l][c] = "global"
    /\ available' = [available EXCEPT ![l] = @ + 1]
    /\ Hold(l, c, "none")
    /\ UNCHANGED <<phase, per_ip, authenticated, pending_key_auth, timers,
                   abuse>>
-----------------------------------------------------------------------------
(* The accept loop, which deals with one connection at a time.             *)

Accept(c) ==
    /\ phase[c] = "none"
    /\ \A d \in Conn : phase[d] \notin Accepting
    /\ Goto(c, "penalty")
    /\ UNCHANGED <<permits, authenticated, pending_key_auth, timers, abuse>>

\* Mutant: sources under a penalty are let in all the same.
CheckNoPenalty(c) ==
    /\ phase[c] = "penalty"
    /\ Goto(c, "admission")
    /\ UNCHANGED <<permits, authenticated, pending_key_auth, timers, abuse>>

CheckPenalty(c) ==
    /\ phase[c] = "penalty"
    /\ Goto(c, IF penalties[IpOf[c]] > 0 THEN "refused" ELSE "admission")
    /\ UNCHANGED <<permits, authenticated, pending_key_auth, timers, abuse>>

\* The loop is done with a refused connection, the task with a closed one.
Gone(c) ==
    /\ phase[c] \in {"refused", "closing"}
    /\ \A l \in Limiter : held[l][c] = "none"
    /\ Goto(c, "none")
    /\ UNCHANGED <<permits, authenticated, pending_key_auth, timers, abuse>>
-----------------------------------------------------------------------------
(* The task of a connection and its authentication timeouts.               *)

\* Mutant: no auth_timeout_task is started.
StreamStartsUntimed(c) ==
    /\ phase[c] = "starting"
    /\ Goto(c, "auth")
    /\ UNCHANGED <<permits, authenticated, pending_key_auth, timers, abuse>>

StreamStarts(c) ==
    /\ phase[c] = "starting"
    /\ Goto(c, "auth")
    /\ timer' = [timer EXCEPT ![c] = AuthTimeout]
    /\ UNCHANGED <<permits, authenticated, pending_key_auth, auth_deadline,
                   disconnect, abuse>>

\* The handler is dropped, but for its unauth permit, and the timer aborted.
Close(c) ==
    /\ Goto(c, "closing")
    /\ authenticated' = authenticated \ {c}
    /\ pending_key_auth' = pending_key_auth \ {c}
    /\ disconnect' = disconnect \ {c}
    /\ auth_deadline' = [auth_deadline EXCEPT ![c] = 0]
    /\ timer' = [timer EXCEPT ![c] = Off]
    /\ UNCHANGED <<permits, abuse>>

\* run_stream fails or takes longer than auth_timeout.
StreamFails(c) == phase[c] = "starting" /\ Close(c)

TimerFires(c) ==
    /\ phase[c] \in Serving
    /\ timer[c] = 0
    /\ timer' = [timer EXCEPT ![c] = Off]
    /\ disconnect' = IF c \in authenticated THEN disconnect
                     ELSE disconnect \cup {c}
    /\ UNCHANGED <<phase, permits, authenticated, pending_key_auth,
                   auth_deadline, abuse>>

\* The session ends between two handlers, which it does not interrupt.
SessionEnds(c) == phase[c] \in {"auth", "open"} /\ Close(c)

Disconnected(c) == c \in disconnect /\ SessionEnds(c)
-----------------------------------------------------------------------------
(* Authentication.  Past auth_deadline every attempt is rejected and       *)
(* changes nothing.                                                        *)

Counted(bucket) ==
    IF bucket.count = 0 \/ bucket.age > FailureWindow
    THEN [count |-> 1, age |-> 0]
    ELSE [bucket EXCEPT !.count = @ + 1]

\* The buckets of an IP after one more failure.
Recorded(ip, id) ==
    [k \in FailureKey |-> IF k \in {WholeIp, id} THEN Counted(failures[ip][k])
                         ELSE failures[ip][k]]

TooMany(buckets) ==
    \E k \in FailureKey : buckets[k].count >= FailuresBeforePenalty

\* record_failure up to the insertion of the penalty; now is read here.
RecordFailure(c, id) ==
    LET buckets == Recorded(IpOf[c], id)
    IN  /\ \/ /\ TooMany(buckets)
              /\ failures' = [failures EXCEPT ![IpOf[c]] =
                                  [k \in FailureKey |-> NoBucket]]
              /\ imposed' = [imposed EXCEPT ![c] = Penalty]
              /\ Goto(c, "penalizing")
           \/ /\ ~TooMany(buckets)
              /\ failures' = [failures EXCEPT ![IpOf[c]] = buckets]
              /\ Goto(c, "auth")
              /\ UNCHANGED imposed
        /\ UNCHANGED penalties

InsertPenalty(c) ==
    /\ phase[c] = "penalizing"
    /\ penalties' = [penalties EXCEPT ![IpOf[c]] = imposed[c]]
    /\ imposed' = [imposed EXCEPT ![c] = 0]
    /\ Goto(c, "auth")
    /\ UNCHANGED <<permits, authenticated, pending_key_auth, timers, failures>>

MayAuthenticate(c) == phase[c] = "auth" /\ auth_deadline[c] > 0

AuthPublickey(c) ==
    /\ MayAuthenticate(c)
    /\ Goto(c, "lookup")
    /\ UNCHANGED <<permits, authenticated, pending_key_auth, timers, abuse>>

\* ConnectionAuthState is set first, the rest of mark_authenticated follows.
MarkAuthenticated(c) ==
    /\ authenticated' = authenticated \cup {c}
    /\ Goto(c, "marked")

\* lookup_active_account_for_key: a known key, an unknown one, an error.
LookupAnswers(c) ==
    /\ phase[c] = "lookup"
    /\ \/ /\ MarkAuthenticated(c)
          /\ pending_key_auth' = pending_key_auth \ {c}
       \/ /\ Goto(c, "auth")
          /\ pending_key_auth' \in {pending_key_auth \cup {c},
                                   pending_key_auth \ {c}}
          /\ UNCHANGED authenticated
    /\ UNCHANGED <<permits, timers, abuse>>

AuthPassword(c, id) ==
    /\ MayAuthenticate(c)
    /\ RecordFailure(c, id)
    /\ UNCHANGED <<permits, authenticated, pending_key_auth, timers>>

\* The first call only prompts for the token.
AuthKeyboardInteractive(c, id) ==
    /\ MayAuthenticate(c)
    /\ \/ c \notin pending_key_auth /\ RecordFailure(c, id)   \* no key offered
       \/ c \in pending_key_auth /\ RecordFailure(c, id)      \* no token, or empty
       \/ /\ c \in pending_key_auth
          /\ Goto(c, "redeem")
          /\ UNCHANGED abuse
    /\ pending_key_auth' = pending_key_auth \ {c}
    /\ UNCHANGED <<permits, authenticated, timers>>

RedeemAnswers(c, id) ==
    /\ phase[c] = "redeem"
    /\ \/ MarkAuthenticated(c) /\ UNCHANGED abuse
       \/ RecordFailure(c, id) /\ UNCHANGED authenticated
    /\ UNCHANGED <<permits, pending_key_auth, timers>>

\* clear_source, once the unauth permit is dropped: penalties, then failures.
LiftPenalty(c) ==
    /\ phase[c] = "marked"
    /\ held["unauth"][c] = "none"
    /\ penalties' = [penalties EXCEPT ![IpOf[c]] = 0]
    /\ Goto(c, "lifted")
    /\ UNCHANGED <<permits, authenticated, pending_key_auth, timers, failures,
                   imposed>>

ForgiveFailures(c) ==
    /\ phase[c] = "lifted"
    /\ failures' = [failures EXCEPT ![IpOf[c]] =
                        [k \in FailureKey |-> NoBucket]]
    /\ Goto(c, "open")
    /\ UNCHANGED <<permits, authenticated, pending_key_auth, timers, penalties,
                   imposed>>
-----------------------------------------------------------------------------
\* The accept loop, the drops and the handlers, each in phases of its own.
ServerStep(c) ==
    \/ CheckPenalty(c)
    \/ \E l \in Limiter : \/ TakeGlobal(l, c) \/ TakePerIp(l, c)
                        \/ DropPerIp(l, c) \/ DropGlobal(l, c)
    \/ Gone(c)
    \/ LookupAnswers(c) \/ InsertPenalty(c)
    \/ \E id \in Identity : RedeemAnswers(c, id)
    \/ LiftPenalty(c) \/ ForgiveFailures(c)
    \/ Disconnected(c)

ClientStep(c) ==
    \/ Accept(c) \/ StreamStarts(c) \/ SessionEnds(c)
    \/ AuthPublickey(c)
    \/ \E id \in Identity : AuthPassword(c, id) \/ AuthKeyboardInteractive(c, id)

Next ==
    \/ Tick
    \/ \E c \in Conn : ServerStep(c) \/ ClientStep(c) \/ StreamFails(c) \/ TimerFires(c)

Spec == Init /\ [][Next]_vars

\* Time passes and the server's own tasks run: the accept loop, the drops, the
\* handlers that await the database, the timers.  run_stream ends at the latest
\* with its timeout.  Clients need do nothing.
LiveSpec ==
    /\ Spec
    /\ WF_vars(Tick)
    /\ \A c \in Conn :
        /\ WF_vars(ServerStep(c) \/ (StreamFails(c) /\ auth_deadline[c] = 0))
        /\ WF_vars(TimerFires(c))
-----------------------------------------------------------------------------
Holding(l) == {c \in Conn : held[l][c] # "none"}
HoldingPerIp(l, ip) == {c \in Conn : IpOf[c] = ip /\ held[l][c] = "both"}

\* No permit is lost and none is given out twice: the semaphore and the table
\* of either limiter add up with what the connections hold, in the middle of
\* a take or of a drop too, whatever order tasks run in.
PermitsAddUp ==
    \A l \in Limiter :
        /\ available[l] + Cardinality(Holding(l)) = MaxPermits[l]
        /\ \A ip \in Ip : per_ip[l][ip] = Cardinality(HoldingPerIp(l, ip))

Live == {c \in Conn : phase[c] \in Serving \cup {"starting"}}
Unauthenticated == Live \ authenticated
From(conns, ip) == {c \in conns : IpOf[c] = ip}

\* The connections served, and those of them not authenticated yet, stay
\* within both limits: the manual's "built-in auth limits cap unauthenticated
\* sessions".  A handler holds its unauth permit for as long as it has to.
LimitsRespected ==
    /\ Cardinality(Live) <= MaxPermits["admission"]
    /\ Cardinality(Unauthenticated) <= MaxPermits["unauth"]
    /\ \A ip \in Ip :
        /\ Cardinality(From(Live, ip)) <= MaxPermitsPerIp["admission"]
        /\ Cardinality(From(Unauthenticated, ip)) <= MaxPermitsPerIp["unauth"]

\* A connection that does not authenticate ends, whatever its client does:
\* between the timeout of run_stream and auth_timeout_task no gap is left.
UnauthenticatedEnd ==
    \A c \in Conn : c \in Unauthenticated
                      ~> (c \in authenticated \/ phase[c] = "none")

\* A penalty does not last: connections let in before it may renew it, but
\* they end, and no others get in.
PenaltiesEnd == \A ip \in Ip : penalties[ip] > 0 ~> penalties[ip] = 0
=============================================================================
