--------------------------- MODULE AdmissionProofs ---------------------------
(***************************************************************************)
(* Proofs about Admission: its types, that permits add up, and that the    *)
(* limits hold, for any number of connections and sources and any limits.  *)
(***************************************************************************)
EXTENDS Admission, FiniteSetTheorems, TLAPS

USE SourcesKnown, LimitsPositive

\* What an EXCEPT on one entry of a table of tables changes, and what it keeps.
LEMMA EntryUpdated ==
    ASSUME NEW S, NEW T, NEW V, NEW f \in [S -> [T -> V]],
           NEW s \in S, NEW t \in T, NEW v \in V,
           NEW g, g = [f EXCEPT ![s][t] = v]
    PROVE  /\ g \in [S -> [T -> V]]
           /\ g[s][t] = v
           /\ \A x \in S, y \in T : (x # s \/ y # t) => g[x][y] = f[x][y]
<1> DEFINE row == [f[s] EXCEPT ![t] = v]
<1>1. row \in [T -> V] /\ row[t] = v /\ \A y \in T : y # t => row[y] = f[s][y]
  OBVIOUS
<1>2. g = [f EXCEPT ![s] = row]
  OBVIOUS
<1>3. g \in [S -> [T -> V]] /\ g[s] = row /\ \A x \in S : x # s => g[x] = f[x]
  BY <1>1, <1>2
<1> QED BY <1>1, <1>3

\* What a step makes a connection hold, and nothing else.
LEMMA HoldEffect ==
    ASSUME TypeOK, NEW l \in Limiter, NEW c \in Conn,
           NEW what \in {"none", "global", "both"}, Hold(l, c, what)
    PROVE  /\ held' \in [Limiter -> [Conn -> {"none", "global", "both"}]]
           /\ held'[l][c] = what
           /\ \A m \in Limiter, d \in Conn :
                (m # l \/ d # c) => held'[m][d] = held[m][d]
<1>1. held \in [Limiter -> [Conn -> {"none", "global", "both"}]]
  BY DEF TypeOK
<1>2. held' = [held EXCEPT ![l][c] = what]
  BY DEF Hold
<1> QED BY ONLY <1>1, <1>2, EntryUpdated, l \in Limiter, c \in Conn,
                what \in {"none", "global", "both"}

\* Failure buckets stay below the limit through one more failure, unless there
\* are too many.
LEMMA RecordedBelow ==
    ASSUME failures \in [Ip -> [FailureKey -> FailureBucket]],
           NEW ip \in Ip, NEW id \in Identity, ~TooMany(Recorded(ip, id))
    PROVE  Recorded(ip, id) \in [FailureKey -> FailureBucket]
<1> DEFINE B(k) == failures[ip][k]
<1>1. ASSUME NEW k \in FailureKey
      PROVE  Recorded(ip, id)[k] \in FailureBucket
  <2>1. B(k) \in FailureBucket
    OBVIOUS
  <2>2. ~(Recorded(ip, id)[k].count >= FailuresBeforePenalty)
    BY DEF TooMany
  <2>3. Recorded(ip, id)[k] = IF k \in {WholeIp, id} THEN Counted(B(k)) ELSE B(k)
    BY DEF Recorded
  <2>4. CASE k \in {WholeIp, id}
    BY <2>1, <2>2, <2>3, <2>4 DEF Counted, FailureBucket
  <2>5. CASE k \notin {WholeIp, id}
    BY <2>1, <2>3, <2>5
  <2> QED BY <2>4, <2>5
<1> QED BY <1>1 DEF Recorded

\* record_failure keeps the buckets and penalties well-formed.
LEMMA RecordFailureType ==
    ASSUME TypeOK, NEW c \in Conn, NEW id \in Identity, RecordFailure(c, id)
    PROVE  /\ phase' \in [Conn -> Phase]
           /\ failures' \in [Ip -> [FailureKey -> FailureBucket]]
           /\ penalties' \in [Ip -> 0..Penalty]
           /\ imposed' \in [Conn -> 0..Penalty]
<1> DEFINE buckets == Recorded(IpOf[c], id)
<1>1. NoBucket \in FailureBucket /\ Penalty \in 0..Penalty
  BY DEF NoBucket, FailureBucket
<1>2. CASE TooMany(buckets)
  <2>1. failures' = [failures EXCEPT ![IpOf[c]] =
                        [k \in FailureKey |-> NoBucket]]
    BY <1>2 DEF RecordFailure
  <2>2. failures' \in [Ip -> [FailureKey -> FailureBucket]]
    BY <1>1, <2>1 DEF TypeOK
  <2>3. /\ phase' = [phase EXCEPT ![c] = "penalizing"]
        /\ imposed' = [imposed EXCEPT ![c] = Penalty]
        /\ penalties' = penalties
    BY <1>2 DEF RecordFailure, Goto
  <2> QED BY <1>1, <2>2, <2>3 DEF TypeOK, Phase, Serving
<1>3. CASE ~TooMany(buckets)
  <2>1. buckets \in [FailureKey -> FailureBucket]
    BY <1>3, RecordedBelow DEF TypeOK
  <2>2. failures' = [failures EXCEPT ![IpOf[c]] = buckets]
    BY <1>3 DEF RecordFailure
  <2>3. failures' \in [Ip -> [FailureKey -> FailureBucket]]
    BY <2>1, <2>2 DEF TypeOK
  <2>4. /\ phase' = [phase EXCEPT ![c] = "auth"]
        /\ imposed' = imposed /\ penalties' = penalties
    BY <1>3 DEF RecordFailure, Goto
  <2> QED BY <2>3, <2>4 DEF TypeOK, Phase, Serving
<1> QED BY <1>2, <1>3

\* The actions other than those of time, of record_failure and of the permits
\* go to a phase and change sets, timers or one penalty.
LEMMA TypeInvariant == TypeOK /\ [Next]_vars => TypeOK'
<1> SUFFICES ASSUME TypeOK, [Next]_vars PROVE TypeOK'
  OBVIOUS
<1> USE DEF Phase, Serving, Accepting, Limiter, Off
<1>1. CASE Tick
  <2>1. /\ auth_deadline' \in [Conn -> 0..AuthTimeout]
        /\ timer' \in [Conn -> Off..AuthTimeout]
        /\ penalties' \in [Ip -> 0..Penalty]
        /\ imposed' \in [Conn -> 0..Penalty]
    BY <1>1 DEF Tick, TypeOK, Elapse
  <2>2. ASSUME NEW b \in FailureBucket PROVE Aged(b) \in FailureBucket
    BY DEF Aged, FailureBucket
  <2>3. failures' \in [Ip -> [FailureKey -> FailureBucket]]
    BY <1>1, <2>2 DEF Tick, TypeOK
  <2> QED BY <1>1, <2>1, <2>3 DEF Tick, TypeOK, permits
<1>2. ASSUME NEW c \in Conn, NEW l \in Limiter,
             \/ TakeGlobal(l, c) \/ TakePerIp(l, c)
             \/ DropPerIp(l, c) \/ DropGlobal(l, c)
      PROVE  TypeOK'
  <2>1. available' \in [Limiter -> Nat]
    BY <1>2 DEF TypeOK, TakeGlobal, TakePerIp, DropPerIp, DropGlobal
  <2>2. per_ip' \in [Limiter -> [Ip -> Nat]]
    <3>1. IpOf[c] \in Ip /\ per_ip[l][IpOf[c]] \in Nat
      BY DEF TypeOK
    <3>2. \/ UNCHANGED per_ip
          \/ per_ip' = [per_ip EXCEPT ![l][IpOf[c]] = per_ip[l][IpOf[c]] + 1]
          \/ per_ip' = [per_ip EXCEPT
                            ![l][IpOf[c]] = Elapse(per_ip[l][IpOf[c]])]
      BY <1>2, <3>1 DEF TakeGlobal, TakePerIp, DropPerIp, DropGlobal, TypeOK
    <3>3. /\ per_ip[l][IpOf[c]] + 1 \in Nat
          /\ Elapse(per_ip[l][IpOf[c]]) \in Nat
      BY <3>1 DEF Elapse
    <3>4. per_ip \in [Limiter -> [Ip -> Nat]]
      BY DEF TypeOK
    <3>5. ASSUME NEW n \in Nat, per_ip' = [per_ip EXCEPT ![l][IpOf[c]] = n]
          PROVE  per_ip' \in [Limiter -> [Ip -> Nat]]
      BY ONLY <3>1, <3>4, <3>5, EntryUpdated, l \in Limiter
    <3> QED BY <3>2, <3>3, <3>4, <3>5
  <2>3. held' \in [Limiter -> [Conn -> {"none", "global", "both"}]]
    <3>1. \/ UNCHANGED held
          \/ \E w \in {"none", "global", "both"} : Hold(l, c, w)
      BY <1>2 DEF TakeGlobal, TakePerIp, DropPerIp, DropGlobal
    <3> QED BY <3>1, HoldEffect DEF TypeOK
  <2>4. phase' \in [Conn -> Phase] /\ auth_deadline' \in [Conn -> 0..AuthTimeout]
    <3>1. UNCHANGED phase \/ \E next \in Phase : Goto(c, next)
      BY <1>2 DEF TakeGlobal, TakePerIp, DropPerIp, DropGlobal, Admit
    <3>2. \/ UNCHANGED auth_deadline
          \/ auth_deadline' = [auth_deadline EXCEPT ![c] = AuthTimeout]
      BY <1>2 DEF TakeGlobal, TakePerIp, DropPerIp, DropGlobal, Admit, timers
    <3>3. phase' \in [Conn -> Phase]
      BY <3>1 DEF TypeOK, Goto
    <3>4. AuthTimeout \in 0..AuthTimeout
      BY ONLY LimitsPositive
    <3>5. auth_deadline \in [Conn -> 0..AuthTimeout]
      BY DEF TypeOK
    <3>6. auth_deadline' \in [Conn -> 0..AuthTimeout]
      BY ONLY <3>2, <3>4, <3>5
    <3> QED BY ONLY <3>3, <3>6
  <2>5. UNCHANGED <<authenticated, pending_key_auth, timer, disconnect, abuse>>
    BY <1>2 DEF TakeGlobal, TakePerIp, DropPerIp, DropGlobal, timers
  <2> QED BY <2>1, <2>2, <2>3, <2>4, <2>5 DEF TypeOK, abuse
<1>3. ASSUME NEW c \in Conn, NEW id \in Identity,
             \/ AuthPassword(c, id) \/ AuthKeyboardInteractive(c, id)
             \/ RedeemAnswers(c, id)
      PROVE  TypeOK'
  <2>1. /\ UNCHANGED <<permits, timers>>
        /\ authenticated' \subseteq Conn
        /\ pending_key_auth' \subseteq Conn
    BY <1>3 DEF TypeOK, AuthPassword, AuthKeyboardInteractive, RedeemAnswers,
                MarkAuthenticated
  <2>2. \/ RecordFailure(c, id)
        \/ UNCHANGED abuse /\ \E next \in {"redeem", "marked"} : Goto(c, next)
    BY <1>3 DEF AuthPassword, AuthKeyboardInteractive, RedeemAnswers,
                MarkAuthenticated
  <2>3. CASE RecordFailure(c, id)
    BY <2>1, <2>3, RecordFailureType DEF TypeOK, permits, timers
  <2>4. CASE UNCHANGED abuse /\ \E next \in {"redeem", "marked"} : Goto(c, next)
    BY <2>1, <2>4 DEF TypeOK, permits, timers, abuse, Goto
  <2> QED BY <2>2, <2>3, <2>4
<1>4. ASSUME NEW c \in Conn,
             \/ Accept(c) \/ CheckPenalty(c) \/ Gone(c) \/ StreamStarts(c)
             \/ TimerFires(c) \/ AuthPublickey(c) \/ LookupAnswers(c)
      PROVE  TypeOK'
  <2>1. CASE Accept(c) \/ CheckPenalty(c) \/ Gone(c) \/ AuthPublickey(c)
    <3>1. \E next \in Phase : Goto(c, next)
      BY <2>1 DEF Accept, CheckPenalty, Gone, AuthPublickey
    <3>2. phase' \in [Conn -> Phase]
      BY <3>1 DEF Goto, TypeOK
    <3>3. UNCHANGED <<permits, authenticated, pending_key_auth, timers, abuse>>
      BY <2>1 DEF Accept, CheckPenalty, Gone, AuthPublickey
    <3> QED BY <3>2, <3>3 DEF TypeOK, permits, timers, abuse
  <2>2. CASE StreamStarts(c)
    BY <2>2 DEF TypeOK, permits, abuse, Goto, StreamStarts
  <2>3. CASE TimerFires(c)
    BY <2>3 DEF TypeOK, permits, abuse, TimerFires
  <2>4. CASE LookupAnswers(c)
    BY <2>4 DEF TypeOK, permits, timers, abuse, Goto, LookupAnswers,
                MarkAuthenticated
  <2> QED BY <1>4, <2>1, <2>2, <2>3, <2>4
<1>5. ASSUME NEW c \in Conn, Close(c) PROVE TypeOK'
  BY <1>5 DEF TypeOK, permits, abuse, Goto, Close
<1>6. ASSUME NEW c \in Conn, InsertPenalty(c) PROVE TypeOK'
  BY <1>6 DEF TypeOK, permits, timers, Goto, InsertPenalty
<1>7. ASSUME NEW c \in Conn, LiftPenalty(c) PROVE TypeOK'
  BY <1>7 DEF TypeOK, permits, timers, Goto, LiftPenalty
<1>8. ASSUME NEW c \in Conn, ForgiveFailures(c) PROVE TypeOK'
  <2>1. NoBucket \in FailureBucket
    BY DEF NoBucket, FailureBucket
  <2> QED BY <1>8, <2>1 DEF TypeOK, permits, timers, Goto, ForgiveFailures
<1>9. CASE UNCHANGED vars
  BY <1>9 DEF TypeOK, vars, permits, timers, abuse
<1> QED
  BY <1>1, <1>2, <1>3, <1>4, <1>5, <1>6, <1>7, <1>8, <1>9
     DEF Next, ServerStep, ClientStep, StreamFails, SessionEnds, Disconnected

LEMMA InitType == Init => TypeOK
<1> SUFFICES ASSUME Init PROVE TypeOK
  OBVIOUS
<1>1. NoBucket \in FailureBucket
  BY DEF NoBucket, FailureBucket
<1> QED BY <1>1 DEF Init, TypeOK, Phase, Off

\* Every reachable state is well-formed: no bucket is left at the limit where
\* record_failure has to impose a penalty.
THEOREM TypeCorrect == Spec => []TypeOK
<1> QED BY InitType, TypeInvariant, PTL DEF Spec
-----------------------------------------------------------------------------
(* Permits add up.                                                         *)

LEMMA HoldersFinite ==
    \A l \in Limiter, ip \in Ip :
        IsFiniteSet(Holding(l)) /\ IsFiniteSet(HoldingPerIp(l, ip))
<1> TAKE l \in Limiter, ip \in Ip
<1>1. Holding(l) \subseteq Conn /\ HoldingPerIp(l, ip) \subseteq Conn
  BY DEF Holding, HoldingPerIp
<1> QED BY <1>1, ConnFinite, FS_Subset

AddsUp(l) ==
    /\ available[l] + Cardinality(Holding(l)) = MaxPermits[l]
    /\ \A ip \in Ip : per_ip[l][ip] = Cardinality(HoldingPerIp(l, ip))

\* A limiter that a step does not concern still adds up.
LEMMA OthersAddUp ==
    ASSUME NEW l \in Limiter, AddsUp(l),
           available'[l] = available[l],
           \A ip \in Ip : per_ip'[l][ip] = per_ip[l][ip],
           \A c \in Conn : held'[l][c] = held[l][c]
    PROVE  AddsUp(l)'
<1>1. Holding(l)' = Holding(l)
  BY DEF Holding
<1>2. \A ip \in Ip : HoldingPerIp(l, ip)' = HoldingPerIp(l, ip)
  BY DEF HoldingPerIp
<1> QED BY <1>1, <1>2 DEF AddsUp

\* One connection more, or one less, among those that hold a permit.
LEMMA HoldersChange ==
    ASSUME TypeOK, NEW l \in Limiter, NEW c \in Conn,
           NEW what \in {"none", "global", "both"}, Hold(l, c, what)
    PROVE  /\ held[l][c] = "none" /\ what = "global" =>
                /\ Cardinality(Holding(l)') = Cardinality(Holding(l)) + 1
                /\ \A ip \in Ip : HoldingPerIp(l, ip)' = HoldingPerIp(l, ip)
           /\ held[l][c] = "global" /\ what = "none" =>
                /\ Cardinality(Holding(l)') = Cardinality(Holding(l)) - 1
                /\ \A ip \in Ip : HoldingPerIp(l, ip)' = HoldingPerIp(l, ip)
           /\ held[l][c] = "global" /\ what = "both" =>
                /\ Holding(l)' = Holding(l)
                /\ \A ip \in Ip : Cardinality(HoldingPerIp(l, ip)') =
                    IF ip = IpOf[c] THEN Cardinality(HoldingPerIp(l, ip)) + 1
                    ELSE Cardinality(HoldingPerIp(l, ip))
           /\ held[l][c] = "both" /\ what = "global" =>
                /\ Holding(l)' = Holding(l)
                /\ Cardinality(HoldingPerIp(l, IpOf[c])) > 0
                /\ \A ip \in Ip : Cardinality(HoldingPerIp(l, ip)') =
                    IF ip = IpOf[c] THEN Cardinality(HoldingPerIp(l, ip)) - 1
                    ELSE Cardinality(HoldingPerIp(l, ip))
<1>1. held'[l][c] = what /\ \A d \in Conn : d # c => held'[l][d] = held[l][d]
  BY HoldEffect
<1>2. IsFiniteSet(Holding(l)) /\ Cardinality(Holding(l)) \in Nat
  BY HoldersFinite, FS_CardinalityType DEF Limiter
<1>3. \A ip \in Ip : /\ IsFiniteSet(HoldingPerIp(l, ip))
                      /\ Cardinality(HoldingPerIp(l, ip)) \in Nat
  BY HoldersFinite, FS_CardinalityType
<1>4. CASE held[l][c] = "none" /\ what = "global"
  <2>1. Holding(l)' = Holding(l) \cup {c} /\ c \notin Holding(l)
    BY <1>1, <1>4 DEF Holding
  <2>2. \A ip \in Ip : HoldingPerIp(l, ip)' = HoldingPerIp(l, ip)
    BY <1>1, <1>4 DEF HoldingPerIp
  <2>3. Cardinality(Holding(l)') = Cardinality(Holding(l)) + 1
    BY <1>2, <2>1, FS_AddElement
  <2> QED BY <1>4, <2>2, <2>3
<1>5. CASE held[l][c] = "global" /\ what = "none"
  <2>1. Holding(l)' = Holding(l) \ {c} /\ c \in Holding(l)
    BY <1>1, <1>5 DEF Holding
  <2>2. \A ip \in Ip : HoldingPerIp(l, ip)' = HoldingPerIp(l, ip)
    BY <1>1, <1>5 DEF HoldingPerIp
  <2>3. Cardinality(Holding(l)') = Cardinality(Holding(l)) - 1
    BY ONLY <1>2, <2>1, FS_RemoveElement
  <2> QED BY <1>5, <2>2, <2>3
<1>6. CASE held[l][c] = "global" /\ what = "both"
  <2>1. Holding(l)' = Holding(l)
    BY <1>1, <1>6 DEF Holding
  <2>2. ASSUME NEW ip \in Ip
        PROVE  Cardinality(HoldingPerIp(l, ip)') =
                 IF ip = IpOf[c] THEN Cardinality(HoldingPerIp(l, ip)) + 1
                 ELSE Cardinality(HoldingPerIp(l, ip))
    <3>1. CASE ip = IpOf[c]
      <4>1. /\ HoldingPerIp(l, ip)' = HoldingPerIp(l, ip) \cup {c}
            /\ c \notin HoldingPerIp(l, ip)
        BY <1>1, <1>6, <3>1 DEF HoldingPerIp
      <4> QED BY <1>3, <3>1, <4>1, FS_AddElement
    <3>2. CASE ip # IpOf[c]
      <4>1. HoldingPerIp(l, ip)' = HoldingPerIp(l, ip)
        BY <1>1, <3>2 DEF HoldingPerIp
      <4> QED BY <3>2, <4>1
    <3> QED BY <3>1, <3>2
  <2> QED BY <1>6, <2>1, <2>2
<1>7. CASE held[l][c] = "both" /\ what = "global"
  <2>1. Holding(l)' = Holding(l)
    BY <1>1, <1>7 DEF Holding
  <2>2. c \in HoldingPerIp(l, IpOf[c]) /\ IpOf[c] \in Ip
    BY <1>7 DEF HoldingPerIp
  <2>3. Cardinality(HoldingPerIp(l, IpOf[c])) > 0
    BY <1>3, <2>2, FS_EmptySet
  <2>4. ASSUME NEW ip \in Ip
        PROVE  Cardinality(HoldingPerIp(l, ip)') =
                 IF ip = IpOf[c] THEN Cardinality(HoldingPerIp(l, ip)) - 1
                 ELSE Cardinality(HoldingPerIp(l, ip))
    <3>1. CASE ip = IpOf[c]
      <4>1. HoldingPerIp(l, ip)' = HoldingPerIp(l, ip) \ {c}
        BY <1>1, <1>7, <3>1 DEF HoldingPerIp
      <4> QED BY <1>3, <2>2, <3>1, <4>1, FS_RemoveElement
    <3>2. CASE ip # IpOf[c]
      <4>1. HoldingPerIp(l, ip)' = HoldingPerIp(l, ip)
        BY <1>1, <3>2 DEF HoldingPerIp
      <4> QED BY <3>2, <4>1
    <3> QED BY <3>1, <3>2
  <2> QED BY <1>7, <2>1, <2>3, <2>4
<1> QED BY <1>4, <1>5, <1>6, <1>7

\* Every step on one limiter keeps it adding up and leaves the other alone.
LEMMA PermitStepAddsUp ==
    ASSUME TypeOK, PermitsAddUp, NEW c \in Conn, NEW l \in Limiter,
           \/ TakeGlobal(l, c) \/ TakePerIp(l, c)
           \/ DropPerIp(l, c) \/ DropGlobal(l, c)
    PROVE  PermitsAddUp'
<1>1. \A m \in Limiter : AddsUp(m)
  BY DEF PermitsAddUp, AddsUp
<1>2. ASSUME NEW m \in Limiter, m # l PROVE AddsUp(m)'
  <2>1. available'[m] = available[m]
    BY <1>2 DEF TypeOK, TakeGlobal, TakePerIp, DropPerIp, DropGlobal
  <2>2. per_ip'[m] = per_ip[m]
    BY <1>2 DEF TypeOK, TakeGlobal, TakePerIp, DropPerIp, DropGlobal
  <2>3. \A d \in Conn : held'[m][d] = held[m][d]
    <3>1. UNCHANGED held \/ \E w \in {"none", "global", "both"} : Hold(l, c, w)
      BY DEF TakeGlobal, TakePerIp, DropPerIp, DropGlobal
    <3> QED BY <1>2, <3>1, HoldEffect
  <2> QED BY <1>1, <2>1, <2>2, <2>3, OthersAddUp
<1>3. /\ IpOf[c] \in Ip /\ available[l] \in Nat
      /\ \A ip \in Ip : per_ip[l][ip] \in Nat
      /\ available \in [Limiter -> Nat] /\ per_ip \in [Limiter -> [Ip -> Nat]]
  BY DEF TypeOK
<1>4. /\ available[l] + Cardinality(Holding(l)) = MaxPermits[l]
      /\ \A ip \in Ip : per_ip[l][ip] = Cardinality(HoldingPerIp(l, ip))
      /\ Cardinality(Holding(l)) \in Nat
  <2>1. IsFiniteSet(Holding(l))
    BY HoldersFinite, <1>3
  <2> QED BY <1>1, <2>1, FS_CardinalityType DEF AddsUp
\* What a step does to the entry of an IP.
<1>5. ASSUME NEW n \in Nat, per_ip' = [per_ip EXCEPT ![l][IpOf[c]] = n]
      PROVE  /\ per_ip'[l][IpOf[c]] = n
             /\ \A ip \in Ip : ip # IpOf[c] => per_ip'[l][ip] = per_ip[l][ip]
  BY ONLY <1>3, <1>5, EntryUpdated, l \in Limiter
<1> SUFFICES AddsUp(l)'
  BY <1>2 DEF PermitsAddUp, AddsUp
<1>6. CASE TakeGlobal(l, c)
  <2>1. CASE UNCHANGED <<available, held>>
    BY <1>1, <1>6, <2>1, OthersAddUp DEF TakeGlobal
  <2>2. CASE available[l] > 0 /\ Hold(l, c, "global") /\
             available' = [available EXCEPT ![l] = @ - 1]
    <3>1. held[l][c] = "none" /\ UNCHANGED per_ip
      BY <1>6 DEF TakeGlobal
    <3>2. available'[l] = available[l] - 1
      BY <1>3, <2>2
    <3> QED BY <1>3, <1>4, <2>2, <3>1, <3>2, HoldersChange DEF AddsUp
  <2> QED BY <1>6, <2>1, <2>2 DEF TakeGlobal
<1>7. CASE TakePerIp(l, c)
  <2>1. held[l][c] = "global"
    BY <1>7 DEF TakePerIp
  <2>2. CASE /\ Hold(l, c, "both") /\ UNCHANGED available
             /\ per_ip' = [per_ip EXCEPT ![l][IpOf[c]] = @ + 1]
    <3>1. per_ip' = [per_ip EXCEPT ![l][IpOf[c]] = per_ip[l][IpOf[c]] + 1]
      BY <2>2
    <3>2. \A ip \in Ip : per_ip'[l][ip] = IF ip = IpOf[c] THEN per_ip[l][ip] + 1
                                          ELSE per_ip[l][ip]
      BY <1>3, <1>5, <3>1
    <3> QED BY <1>3, <1>4, <2>1, <2>2, <3>2, HoldersChange DEF AddsUp
  <2>3. CASE /\ Hold(l, c, "none") /\ UNCHANGED per_ip
             /\ available' = [available EXCEPT ![l] = @ + 1]
    <3>1. available'[l] = available[l] + 1
      BY <1>3, <2>3
    <3> QED BY <1>3, <1>4, <2>1, <2>3, <3>1, HoldersChange DEF AddsUp
  <2> QED BY <1>7, <2>2, <2>3 DEF TakePerIp
<1>8. CASE DropPerIp(l, c)
  <2>1. /\ held[l][c] = "both" /\ Hold(l, c, "global") /\ UNCHANGED available
        /\ per_ip' = [per_ip EXCEPT ![l][IpOf[c]] = Elapse(per_ip[l][IpOf[c]])]
    BY <1>8 DEF DropPerIp
  <2>2. per_ip[l][IpOf[c]] > 0
    BY <1>3, <1>4, <2>1, HoldersChange
  <2>3. Elapse(per_ip[l][IpOf[c]]) = per_ip[l][IpOf[c]] - 1
    BY <2>2 DEF Elapse
  <2>4. \A ip \in Ip : per_ip'[l][ip] = IF ip = IpOf[c] THEN per_ip[l][ip] - 1
                                        ELSE per_ip[l][ip]
    BY <1>3, <1>5, <2>1, <2>2, <2>3
  <2> QED BY <1>3, <1>4, <2>1, <2>4, HoldersChange DEF AddsUp
<1>9. CASE DropGlobal(l, c)
  <2>1. /\ held[l][c] = "global" /\ Hold(l, c, "none") /\ UNCHANGED per_ip
        /\ available' = [available EXCEPT ![l] = @ + 1]
    BY <1>9 DEF DropGlobal
  <2>2. available'[l] = available[l] + 1
    BY <1>3, <2>1
  <2> QED BY <1>3, <1>4, <2>1, <2>2, HoldersChange DEF AddsUp
<1> QED BY <1>6, <1>7, <1>8, <1>9

\* The steps that take or drop a permit; all others leave permits alone.
LEMMA PermitSteps ==
    ASSUME [Next]_vars
    PROVE  \/ UNCHANGED permits
           \/ \E c \in Conn, l \in Limiter :
                \/ TakeGlobal(l, c) \/ TakePerIp(l, c)
                \/ DropPerIp(l, c) \/ DropGlobal(l, c)
BY DEF Next, vars, ServerStep, ClientStep, StreamFails, SessionEnds,
       Disconnected, Tick, Accept, CheckPenalty, Gone, StreamStarts,
       TimerFires, Close, AuthPublickey, LookupAnswers, AuthPassword,
       AuthKeyboardInteractive, RedeemAnswers, InsertPenalty, LiftPenalty,
       ForgiveFailures

LEMMA PermitsInvariant ==
    TypeOK /\ PermitsAddUp /\ [Next]_vars => PermitsAddUp'
<1> SUFFICES ASSUME TypeOK, PermitsAddUp, [Next]_vars PROVE PermitsAddUp'
  OBVIOUS
<1>1. CASE UNCHANGED permits
  <2>1. ASSUME NEW l \in Limiter PROVE AddsUp(l)'
    BY <1>1, <2>1, OthersAddUp DEF permits, PermitsAddUp, AddsUp
  <2> QED BY <2>1 DEF PermitsAddUp, AddsUp
<1> QED BY <1>1, PermitSteps, PermitStepAddsUp

LEMMA InitPermits == Init => PermitsAddUp
<1> SUFFICES ASSUME Init PROVE PermitsAddUp
  OBVIOUS
<1>1. \A l \in Limiter : /\ Holding(l) = {}
                         /\ \A ip \in Ip : HoldingPerIp(l, ip) = {}
  BY DEF Init, Holding, HoldingPerIp
<1>2. Cardinality({}) = 0
  BY FS_EmptySet
<1>3. \A l \in Limiter :
        /\ MaxPermits[l] \in Nat /\ available[l] = MaxPermits[l]
        /\ \A ip \in Ip : per_ip[l][ip] = 0
  BY DEF Init
<1> SUFFICES ASSUME NEW l \in Limiter PROVE AddsUp(l)
  BY DEF PermitsAddUp, AddsUp
<1>4. Cardinality(Holding(l)) = 0
  BY <1>1, <1>2
<1>5. \A ip \in Ip : Cardinality(HoldingPerIp(l, ip)) = 0
  BY <1>1, <1>2
<1> QED BY <1>3, <1>4, <1>5 DEF AddsUp

\* No permit is lost and none is given out twice, for any number of connections
\* and sources and any limits.
THEOREM PermitsAccounted == Spec => []PermitsAddUp
<1>1. Init => TypeOK /\ PermitsAddUp
  BY InitType, InitPermits
<1>2. TypeOK /\ PermitsAddUp /\ [Next]_vars => (TypeOK /\ PermitsAddUp)'
  BY TypeInvariant, PermitsInvariant
<1> QED BY <1>1, <1>2, PTL DEF Spec
-----------------------------------------------------------------------------
(* The limits hold, because a permit is held for as long as it is due.     *)

Handling == {"auth", "lookup", "redeem", "penalizing"}

\* What a connection holds in each phase.
PermitsDue ==
    \A c \in Conn :
        /\ phase[c] \in Serving \cup {"unauth", "starting"}
                => held["admission"][c] = "both"
        /\ phase[c] \in Handling \cup {"starting"} => held["unauth"][c] = "both"
        /\ phase[c] \in {"marked", "lifted", "open"} => c \in authenticated

WithinPerIp ==
    \A l \in Limiter, ip \in Ip : per_ip[l][ip] <= MaxPermitsPerIp[l]

IInv == TypeOK /\ PermitsAddUp /\ PermitsDue /\ WithinPerIp

LEMMA PermitStepDue ==
    ASSUME TypeOK, PermitsDue, NEW c \in Conn, NEW l \in Limiter,
           \/ TakeGlobal(l, c) \/ TakePerIp(l, c)
           \/ DropPerIp(l, c) \/ DropGlobal(l, c)
    PROVE  PermitsDue'
<1>1. UNCHANGED authenticated
  BY DEF TakeGlobal, TakePerIp, DropPerIp, DropGlobal
<1>2. \A d \in Conn : d # c => /\ phase'[d] = phase[d]
                               /\ \A m \in Limiter : held'[m][d] = held[m][d]
  <2>1. \A d \in Conn : d # c => phase'[d] = phase[d]
    BY DEF TypeOK, TakeGlobal, TakePerIp, DropPerIp, DropGlobal, Goto, Admit
  <2>2. UNCHANGED held \/ \E w \in {"none", "global", "both"} : Hold(l, c, w)
    BY DEF TakeGlobal, TakePerIp, DropPerIp, DropGlobal
  <2> QED BY <2>1, <2>2, HoldEffect
<1>3. \A w \in {"none", "global", "both"} : Hold(l, c, w) =>
        /\ held'[l][c] = w
        /\ \A m \in Limiter : m # l => held'[m][c] = held[m][c]
  BY HoldEffect
<1> SUFFICES /\ phase'[c] \in Serving \cup {"unauth", "starting"}
                    => held'["admission"][c] = "both"
             /\ phase'[c] \in Handling \cup {"starting"}
                    => held'["unauth"][c] = "both"
             /\ phase'[c] \in {"marked", "lifted", "open"}
                    => c \in authenticated
  BY <1>1, <1>2 DEF PermitsDue, Limiter
<1> USE DEF Limiter, Serving, Handling
<1>4. CASE TakeGlobal(l, c)
  <2>1. phase'[c] \in {"admission", "refused"} \/
        (phase[c] = "unauth" /\ l = "unauth" /\ phase'[c] = "unauth")
    BY <1>4 DEF TypeOK, TakeGlobal, Goto
  <2>2. l = "unauth" => held'["admission"][c] = held["admission"][c]
    BY <1>3, <1>4 DEF TakeGlobal
  <2> QED BY <2>1, <2>2 DEF PermitsDue
<1>5. CASE TakePerIp(l, c)
  <2>1. CASE Goto(c, "refused")
    BY <2>1 DEF TypeOK, Goto
  <2>2. CASE Hold(l, c, "both") /\ Admit(l, c)
    <3>1. held'[l][c] = "both"
      BY <1>3, <2>2
    <3>2. CASE l = "admission"
      BY <2>2, <3>1, <3>2 DEF TypeOK, Admit, Goto
    <3>3. CASE l = "unauth"
      <4>1. held'["admission"][c] = held["admission"][c] /\ phase[c] = "unauth"
        BY <1>3, <1>5, <2>2, <3>3 DEF TakePerIp
      <4> QED BY <2>2, <3>1, <3>3, <4>1 DEF TypeOK, Admit, Goto, PermitsDue
    <3> QED BY <3>2, <3>3
  <2> QED BY <1>5, <2>1, <2>2 DEF TakePerIp
<1>6. CASE DropPerIp(l, c) \/ DropGlobal(l, c)
  <2>1. /\ phase'[c] = phase[c]
        /\ \/ l = "unauth" /\ phase[c] \in {"marked", "refused", "closing"}
           \/ l = "admission" /\ phase[c] \in {"refused", "closing"}
    BY <1>6 DEF DropPerIp, DropGlobal, Drops
  <2>2. l = "unauth" => held'["admission"][c] = held["admission"][c]
    BY <1>3, <1>6 DEF DropPerIp, DropGlobal
  <2> QED BY <2>1, <2>2 DEF PermitsDue
<1> QED BY <1>4, <1>5, <1>6

\* The other steps: none reaches a phase in which it would be short of a permit.
LEMMA OtherStepDue ==
    ASSUME TypeOK, PermitsDue, UNCHANGED permits, NEW c \in Conn,
           \/ Accept(c) \/ CheckPenalty(c) \/ Gone(c) \/ StreamStarts(c)
           \/ Close(c) \/ TimerFires(c) \/ AuthPublickey(c)
           \/ LookupAnswers(c) \/ InsertPenalty(c)
           \/ \E id \in Identity : \/ RedeemAnswers(c, id) \/ AuthPassword(c, id)
                                  \/ AuthKeyboardInteractive(c, id)
           \/ LiftPenalty(c) \/ ForgiveFailures(c)
    PROVE  PermitsDue'
<1> USE DEF Serving, Handling
<1>1. ASSUME NEW d \in Conn, d # c
      PROVE  phase'[d] = phase[d] /\ (d \in authenticated => d \in authenticated')
  BY <1>1 DEF TypeOK, Goto, MarkAuthenticated, RecordFailure, Accept,
              CheckPenalty, Gone, StreamStarts, Close, TimerFires,
              AuthPublickey, LookupAnswers, InsertPenalty, RedeemAnswers,
              AuthPassword, AuthKeyboardInteractive, LiftPenalty,
              ForgiveFailures
<1>2. \/ phase'[c] = phase[c] /\ UNCHANGED authenticated
      \/ phase'[c] \in {"none", "penalty", "refused", "admission", "closing"}
      \/ phase[c] \in Handling \cup {"starting"} /\ phase'[c] \in Handling
      \/ phase[c] \in Handling /\ phase'[c] = "marked" /\ c \in authenticated'
      \/ /\ phase[c] \in {"marked", "lifted"} /\ phase'[c] \in {"lifted", "open"}
         /\ UNCHANGED authenticated
  <2>1. CASE Accept(c) \/ CheckPenalty(c) \/ Gone(c) \/ Close(c)
    BY <2>1 DEF TypeOK, Goto, Accept, CheckPenalty, Gone, Close
  <2>2. CASE StreamStarts(c) \/ TimerFires(c) \/ AuthPublickey(c)
    BY <2>2 DEF TypeOK, Goto, StreamStarts, TimerFires, AuthPublickey,
                MayAuthenticate
  <2>3. CASE LookupAnswers(c) \/ InsertPenalty(c)
    BY <2>3 DEF TypeOK, Goto, LookupAnswers, InsertPenalty, MarkAuthenticated
  <2>4. ASSUME NEW id \in Identity,
               \/ RedeemAnswers(c, id) \/ AuthPassword(c, id)
               \/ AuthKeyboardInteractive(c, id)
        PROVE  /\ phase[c] \in Handling
               /\ phase'[c] \in Handling \/ (phase'[c] = "marked" /\ c \in authenticated')
    BY <2>4 DEF TypeOK, Goto, RedeemAnswers, AuthPassword,
                AuthKeyboardInteractive, MayAuthenticate, MarkAuthenticated,
                RecordFailure
  <2>5. CASE LiftPenalty(c) \/ ForgiveFailures(c)
    BY <2>5 DEF TypeOK, Goto, LiftPenalty, ForgiveFailures
  <2> QED BY <2>1, <2>2, <2>3, <2>4, <2>5
<1> QED BY <1>1, <1>2 DEF PermitsDue, permits

LEMMA DueInvariant == TypeOK /\ PermitsDue /\ [Next]_vars => PermitsDue'
<1> SUFFICES ASSUME TypeOK, PermitsDue, [Next]_vars PROVE PermitsDue'
  OBVIOUS
<1>1. CASE UNCHANGED permits
  <2>1. CASE UNCHANGED <<phase, held, authenticated>>
    BY <2>1 DEF PermitsDue
  <2>2. CASE \E c \in Conn, l \in Limiter :
                \/ TakeGlobal(l, c) \/ TakePerIp(l, c)
                \/ DropPerIp(l, c) \/ DropGlobal(l, c)
    BY <2>2, PermitStepDue
  <2> QED
    BY <1>1, <2>1, <2>2, OtherStepDue
       DEF Next, vars, permits, ServerStep, ClientStep, StreamFails,
           SessionEnds, Disconnected, Tick
<1> QED BY <1>1, PermitSteps, PermitStepDue

LEMMA WithinInvariant ==
    TypeOK /\ PermitsAddUp /\ WithinPerIp /\ [Next]_vars => WithinPerIp'
<1> SUFFICES ASSUME TypeOK, PermitsAddUp, WithinPerIp, [Next]_vars
             PROVE  WithinPerIp'
  OBVIOUS
<1>1. CASE UNCHANGED permits
  BY <1>1 DEF WithinPerIp, permits
<1>2. ASSUME NEW c \in Conn, NEW l \in Limiter,
             \/ TakeGlobal(l, c) \/ TakePerIp(l, c)
             \/ DropPerIp(l, c) \/ DropGlobal(l, c)
      PROVE  WithinPerIp'
  <2>1. /\ per_ip \in [Limiter -> [Ip -> Nat]]
        /\ IpOf[c] \in Ip /\ per_ip[l][IpOf[c]] \in Nat
        /\ MaxPermitsPerIp[l] \in Nat
        /\ per_ip[l][IpOf[c]] <= MaxPermitsPerIp[l]
    BY DEF TypeOK, WithinPerIp
  <2>2. \/ UNCHANGED per_ip
        \/ \E n \in Nat : /\ n <= MaxPermitsPerIp[l]
                          /\ per_ip' = [per_ip EXCEPT ![l][IpOf[c]] = n]
    <3>1. CASE TakePerIp(l, c)
      BY <2>1, <3>1 DEF TakePerIp
    <3>2. CASE DropPerIp(l, c)
      <4>1. /\ Elapse(per_ip[l][IpOf[c]]) \in Nat
            /\ Elapse(per_ip[l][IpOf[c]]) <= MaxPermitsPerIp[l]
        BY <2>1 DEF Elapse
      <4> QED BY <3>2, <4>1 DEF DropPerIp
    <3> QED BY <1>2, <3>1, <3>2 DEF TakeGlobal, DropGlobal
  <2>3. ASSUME NEW n \in Nat, n <= MaxPermitsPerIp[l],
               per_ip' = [per_ip EXCEPT ![l][IpOf[c]] = n]
        PROVE  WithinPerIp'
    <3>1. /\ per_ip'[l][IpOf[c]] = n
          /\ \A m \in Limiter, ip \in Ip :
                (m # l \/ ip # IpOf[c]) => per_ip'[m][ip] = per_ip[m][ip]
      BY ONLY <2>1, <2>3, EntryUpdated, l \in Limiter
    <3> QED BY <2>3, <3>1 DEF WithinPerIp
  <2> QED BY <2>2, <2>3 DEF WithinPerIp
<1> QED BY <1>1, <1>2, PermitSteps

\* Within the limits, from what the permits add up to.
LEMMA InvLimits == IInv => LimitsRespected
<1> SUFFICES ASSUME IInv PROVE LimitsRespected
  OBVIOUS
<1> USE DEF IInv, Limiter
<1>1. /\ Live \subseteq Holding("admission")
      /\ Unauthenticated \subseteq Holding("unauth")
      /\ \A ip \in Ip :
            /\ From(Live, ip) \subseteq HoldingPerIp("admission", ip)
            /\ From(Unauthenticated, ip) \subseteq HoldingPerIp("unauth", ip)
  BY DEF PermitsDue, Live, Unauthenticated, From, Holding, HoldingPerIp,
         Serving, Handling
<1>2. ASSUME NEW l \in Limiter, NEW S, S \subseteq Holding(l)
      PROVE  Cardinality(S) <= MaxPermits[l]
  <2>1. IsFiniteSet(Holding(l))
    <3>1. Holding(l) \subseteq Conn
      BY DEF Holding
    <3> QED BY <3>1, ConnFinite, FS_Subset
  <2>2. /\ Cardinality(S) \in Nat /\ Cardinality(Holding(l)) \in Nat
        /\ Cardinality(S) <= Cardinality(Holding(l))
    BY <1>2, <2>1, FS_Subset, FS_CardinalityType
  <2>3. /\ available[l] \in Nat
        /\ available[l] + Cardinality(Holding(l)) = MaxPermits[l]
    BY DEF TypeOK, PermitsAddUp
  <2> QED BY <2>2, <2>3
<1>3. ASSUME NEW l \in Limiter, NEW ip \in Ip,
             NEW S, S \subseteq HoldingPerIp(l, ip)
      PROVE  Cardinality(S) <= MaxPermitsPerIp[l]
  <2>1. /\ Cardinality(S) \in Nat /\ Cardinality(HoldingPerIp(l, ip)) \in Nat
        /\ Cardinality(S) <= Cardinality(HoldingPerIp(l, ip))
    BY <1>3, HoldersFinite, FS_Subset, FS_CardinalityType
  <2>2. per_ip[l][ip] = Cardinality(HoldingPerIp(l, ip))
    BY DEF PermitsAddUp
  <2>3. per_ip[l][ip] <= MaxPermitsPerIp[l]
    BY DEF WithinPerIp
  <2> QED BY <2>1, <2>2, <2>3
<1> QED BY <1>1, <1>2, <1>3 DEF LimitsRespected

\* The connections served, and those not authenticated yet, stay within both
\* limits, whatever order their tasks run in.
THEOREM LimitsHold == Spec => []LimitsRespected
<1>1. Init => IInv
  <2>1. Init => PermitsDue /\ WithinPerIp
    BY DEF Init, PermitsDue, WithinPerIp, Serving, Handling
  <2> QED BY <2>1, InitType, InitPermits DEF IInv
<1>2. IInv /\ [Next]_vars => IInv'
  BY TypeInvariant, PermitsInvariant, DueInvariant, WithinInvariant DEF IInv
<1> QED BY <1>1, <1>2, InvLimits, PTL DEF Spec
=============================================================================
