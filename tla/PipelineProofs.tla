--------------------------- MODULE PipelineProofs ---------------------------
(***************************************************************************)
(* RateLimiter, for any addresses, goroutines, burst and rate, and any idle *)
(* time that is not shorter than one request: no address is let through     *)
(* more often than its rate and the bursts of its buckets allow; and it has *)
(* one burst, where a bucket refills before it is forgotten, or one for     *)
(* each idle time that has passed.                                          *)
(* Pipeline, for any settings and requests: the chain uses the limiter as   *)
(* RateLimiter describes it, so the limiter's theorems are theorems of the  *)
(* chain; and the invariants of the layers around it.                       *)
(***************************************************************************)
EXTENDS Pipeline, FiniteSetTheorems, TLAPS

-----------------------------------------------------------------------------
(* The rate limiter *)

(* The reservations of a that are not settled; those that will be granted   *)
(* if they are looked at by time t; and those that are, or will have to be, *)
(* cancelled and whose time has not passed.                                 *)
Open(a) == {r \in Reqs : ip[r] = a /\ at[r] \in {"decide", "cancel"}}
DueBy(a, t) == {r \in Reqs : ip[r] = a /\ at[r] = "decide" /\ due[r] <= t}
Owed(a) == {r \in Reqs : /\ ip[r] = a /\ due[r] >= now
                         /\ at[r] = "cancel" \/ (at[r] = "decide" /\ due[r] > now)}

(* What the bursts of a's buckets come to.                                  *)
Room(a) == Full * Bursts(a)

(* A bucket in use is in the map, and was looked up not long ago.           *)
UsingInv == \A r \in Using : ip[r] \in byIP /\ now <= seen[ip[r]] + Hold

(* What is in a bucket has not been given away, and its address got nothing *)
(* since it was last looked up but what was reserved.                       *)
BucketInv == \A a \in byIP :
    /\ seen[a] <= now /\ last[a] <= now
    /\ tokens[a] <= Full
    /\ tokens[a] + Cost * (granted[a] + Cardinality(Open(a))) <= Room(a) + last[a]
    /\ Cost * granted[a] <= Room(a) + seen[a] + Hold

(* The grants there are, and those that can come by time t, fit the rate.   *)
PromiseInv == \A a \in Addrs, t \in Nat :
    t >= now => Cost * (granted[a] + Cardinality(DueBy(a, t))) <= Room(a) + t

(* An address without a bucket has paid for what it got, if a bucket is not *)
(* forgotten before it has refilled, and for all but its bursts if it may   *)
(* be (PromiseInv).                                                         *)
UnknownInv == \A a \in Addrs \ byIP : Idle >= Full + Hold => Cost * granted[a] <= now

(* A bucket is made anew only when nobody has looked it up for Idle.        *)
MadeInv == \A a \in Addrs : made[a] * Idle <= (IF a \in byIP THEN seen[a] + Idle ELSE now)

(* While reservations wait to be cancelled, the bucket is in debt until     *)
(* lastEvent, and they come due at different times that are whole tokens    *)
(* before it: only the last of them is given back, and in full.             *)
LadderInv == \A a \in Addrs :
    /\ \A q \in Owed(a) : /\ lastEvent[a] = last[a] - tokens[a]
                          /\ \E k \in Nat : lastEvent[a] = due[q] + k * Cost
    /\ \A q, s \in Owed(a) : due[q] = due[s] => q = s

RateInv == LimiterTypeOK /\ UsingInv /\ BucketInv /\ PromiseInv /\ UnknownInv /\ MadeInv /\ LadderInv

-----------------------------------------------------------------------------
LEMMA FullType == Full \in Nat
  BY LimiterAssumption DEF Full

(* The bursts are a number, and change only when a bucket is made.          *)
LEMMA RoomType == ASSUME LimiterTypeOK, NEW b \in Addrs PROVE Room(b) \in Nat
  <1>1. Bursts(b) \in Nat
    BY DEF Bursts, LimiterTypeOK
  <1>2. \A m, n \in Nat : m * n \in Nat
    OBVIOUS
  <1> QED
    BY <1>1, <1>2, FullType DEF Room

LEMMA RoomSame == ASSUME NEW b, made'[b] = made[b] PROVE Room(b)' = Room(b)
  BY DEF Room, Bursts

(* Multiplying by the cost of a token.                                      *)
LEMMA CostTimes ==
    /\ \A m, n \in Nat : m <= n => Cost * m <= Cost * n
    /\ \A n \in Nat : Cost * (n + 1) = Cost * n + Cost /\ Cost * n \in Nat /\ n * Cost \in Nat
    /\ \A k \in Nat : k # 0 => k * Cost >= Cost /\ (k - 1) \in Nat /\ (k - 1) * Cost = k * Cost - Cost
  <1>2. ASSUME NEW m \in Nat, NEW n \in Nat, m <= n PROVE Cost * m <= Cost * n
    <2>1. PICK d \in Nat : n = m + d
      BY <1>2
    <2>2. Cost * n = Cost * m + Cost * d
      BY <2>1, LimiterAssumption
    <2>3. Cost * d \in Nat
      BY LimiterAssumption
    <2> QED
      BY <2>2, <2>3, LimiterAssumption
  <1>3. ASSUME NEW n \in Nat
        PROVE  Cost * (n + 1) = Cost * n + Cost /\ Cost * n \in Nat /\ n * Cost \in Nat
    BY LimiterAssumption
  <1>4. ASSUME NEW k \in Nat, k # 0
        PROVE  k * Cost >= Cost /\ (k - 1) \in Nat /\ (k - 1) * Cost = k * Cost - Cost
    <2>1. PICK j \in Nat : k = j + 1
      BY <1>4, k - 1 \in Nat
    <2>2. k * Cost = j * Cost + Cost /\ j * Cost \in Nat
      BY <2>1, LimiterAssumption
    <2> QED
      BY <2>1, <2>2, LimiterAssumption
  <1> QED
    BY <1>2, <1>3, <1>4

(* The sets of requests are finite.                                         *)
LEMMA Finite ==
    ASSUME NEW S, S \subseteq Reqs
    PROVE  IsFiniteSet(S) /\ Cardinality(S) \in Nat
  BY FS_Subset, FS_CardinalityType, LimiterAssumption

(* The Retry-After is a number of seconds.                                  *)
LEMMA RetryAfterType == \A delay \in Nat : RetryAfter(delay) \in Nat
  BY LimiterAssumption DEF RetryAfter

LEMMA RateInvInit == LimiterInit => RateInv
  <1> SUFFICES ASSUME LimiterInit PROVE RateInv
    OBVIOUS
  <1> USE FullType
  <1>1. LimiterTypeOK
    <2>1. (CHOOSE a \in Addrs : TRUE) \in Addrs
      BY LimiterAssumption
    <2> QED
      BY <2>1 DEF LimiterInit, LimiterTypeOK
  <1>2. \A r \in Reqs : at[r] = "idle"
    BY DEF LimiterInit
  <1>3. UsingInv /\ BucketInv
    BY <1>2 DEF LimiterInit, UsingInv, BucketInv, Using
  <1>4. \A a \in Addrs : granted[a] = 0
    BY DEF LimiterInit
  <1>5. Cost * 0 = 0
    BY LimiterAssumption
  <1>6. PromiseInv
    <2> SUFFICES ASSUME NEW a \in Addrs, NEW t \in Nat
                 PROVE  Cost * (granted[a] + Cardinality(DueBy(a, t))) <= Room(a) + t
      BY DEF PromiseInv
    <2>1. DueBy(a, t) = {}
      BY <1>2 DEF DueBy
    <2>2. Cardinality(DueBy(a, t)) = 0
      BY <2>1, FS_EmptySet, Zenon
    <2>3. granted[a] + Cardinality(DueBy(a, t)) = 0
      BY <2>2, <1>4
    <2>4. Room(a) \in Nat
      BY <1>1, RoomType
    <2> QED
      BY <2>3, <2>4, <1>5
  <1>7. UnknownInv
    BY <1>4, <1>5, LimiterAssumption DEF UnknownInv, LimiterInit
  <1>8. LadderInv
    BY <1>2 DEF LadderInv, Owed
  <1>9. MadeInv
    BY LimiterAssumption DEF MadeInv, LimiterInit
  <1> QED
    BY <1>1, <1>3, <1>6, <1>7, <1>8, <1>9 DEF RateInv

-----------------------------------------------------------------------------
(* A step that touches no unsettled reservation leaves the sets alone.      *)
LEMMA SetsFrame ==
    ASSUME \A q \in Reqs : (at[q] \in {"decide", "cancel"} \/ at'[q] \in {"decide", "cancel"})
              => at'[q] = at[q] /\ ip'[q] = ip[q] /\ due'[q] = due[q]
    PROVE  /\ \A a \in Addrs : Open(a)' = Open(a)
           /\ \A a \in Addrs, t \in Nat : DueBy(a, t)' = DueBy(a, t)
           /\ now' = now => \A a \in Addrs : Owed(a)' = Owed(a)
  BY DEF Open, DueBy, Owed

(* What holds of the cost of n requests holds of the cost of fewer.         *)
LEMMA FewerCost ==
    ASSUME NEW S, NEW T, T \subseteq Reqs, S \subseteq T, NEW g \in Nat, NEW bound \in Int,
           Cost * (g + Cardinality(T)) <= bound
    PROVE  Cost * (g + Cardinality(S)) <= bound
  <1>1. /\ IsFiniteSet(T) /\ Cardinality(T) \in Nat
        /\ Cardinality(S) \in Nat /\ Cardinality(S) <= Cardinality(T)
    BY Finite, FS_Subset
  <1>2. \A m, n \in Nat : m <= n => g + m \in Nat /\ g + n \in Nat /\ g + m <= g + n
    OBVIOUS
  <1>3. Cost * (g + Cardinality(S)) <= Cost * (g + Cardinality(T))
    BY <1>1, <1>2, CostTimes, Zenon
  <1>4. Cost * (g + Cardinality(S)) \in Int /\ Cost * (g + Cardinality(T)) \in Int
    BY <1>1, LimiterAssumption
  <1> QED
    BY <1>3, <1>4

(* Any of the requests that can be granted by time t fit the rate.          *)
LEMMA FewerDue ==
    ASSUME RateInv, NEW b \in Addrs, NEW t \in Nat, t >= now,
           NEW S, S \subseteq DueBy(b, t)
    PROVE  Cost * (granted[b] + Cardinality(S)) <= Room(b) + t
  <1>1. DueBy(b, t) \subseteq Reqs
    BY DEF DueBy
  <1>2. Cost * (granted[b] + Cardinality(DueBy(b, t))) <= Room(b) + t
    BY DEF RateInv, PromiseInv
  <1>3. granted[b] \in Nat /\ Room(b) + t \in Int
    BY RoomType DEF RateInv, LimiterTypeOK
  <1> QED
    BY <1>1, <1>2, <1>3, FewerCost

LEMMA AdvanceStep == RateInv /\ Advance => RateInv'
  <1> SUFFICES ASSUME RateInv, Advance PROVE RateInv'
    OBVIOUS
  <1> USE DEF RateInv
  <1>1. LimiterTypeOK'
    BY DEF LimiterTypeOK, Advance, bucket, request, history
  <1>r. \A b \in Addrs : Room(b) \in Nat /\ Room(b)' = Room(b)
    BY RoomType, RoomSame DEF Advance, history
  <1>2. /\ \A a \in Addrs : Open(a)' = Open(a)
        /\ \A a \in Addrs, t \in Nat : DueBy(a, t)' = DueBy(a, t)
    BY SetsFrame DEF Advance, request
  <1>3. UsingInv'
    BY LimiterAssumption DEF UsingInv, Using, Advance, bucket, request, LimiterTypeOK
  <1>4. BucketInv'
    BY <1>2, <1>r DEF BucketInv, Advance, bucket, history, LimiterTypeOK
  <1>5. PromiseInv'
    BY <1>2, <1>r DEF PromiseInv, Advance, history, LimiterTypeOK
  <1>6. UnknownInv'
    <2>1. \A a \in Addrs : Cost * granted[a] \in Int
      BY LimiterAssumption DEF LimiterTypeOK
    <2> QED
      BY <2>1 DEF UnknownInv, Advance, history, LimiterTypeOK
  <1>7. LadderInv'
    <2>1. \A a \in Addrs : Owed(a)' \subseteq Owed(a)
      BY DEF Owed, Advance, request, LimiterTypeOK
    <2> QED
      BY <2>1 DEF LadderInv, Advance, bucket, request
  <1>8. MadeInv'
    <2>1. \A a \in Addrs : made[a] * Idle \in Int
      BY LimiterAssumption DEF LimiterTypeOK
    <2> QED
      BY <2>1 DEF MadeInv, Advance, bucket, history, LimiterTypeOK
  <1> QED
    BY <1>1, <1>3, <1>4, <1>5, <1>6, <1>7, <1>8

LEMMA SweepStep == RateInv /\ Sweep => RateInv'
  <1> SUFFICES ASSUME RateInv, Sweep PROVE RateInv'
    OBVIOUS
  <1> USE DEF RateInv
  <1>1. LimiterTypeOK'
    BY DEF LimiterTypeOK, Sweep, bucket, request, history
  <1>r. \A b \in Addrs : Room(b) \in Nat /\ Room(b)' = Room(b)
    BY RoomType, RoomSame DEF Sweep, history
  <1>2. /\ \A a \in Addrs : Open(a)' = Open(a)
        /\ \A a \in Addrs, t \in Nat : DueBy(a, t)' = DueBy(a, t)
        /\ \A a \in Addrs : Owed(a)' = Owed(a)
    BY SetsFrame DEF Sweep, request
  <1>3. Idle \in Nat /\ Hold \in Nat /\ Idle >= Hold /\ Full \in Nat
    BY LimiterAssumption, FullType
  <1>4. UsingInv'
    BY <1>3, FullType DEF UsingInv, Using, Sweep, bucket, request, LimiterTypeOK
  <1>5. BucketInv'
    BY <1>2, <1>r DEF BucketInv, Sweep, bucket, history, LimiterTypeOK
  <1>6. PromiseInv'
    BY <1>2, <1>r DEF PromiseInv, Sweep, history
  <1>7. UnknownInv'
    <2> SUFFICES ASSUME NEW a \in Addrs \ byIP', Idle >= Full + Hold PROVE Cost * granted[a] <= now
      BY DEF UnknownInv, Sweep, history
    <2>1. CASE a \notin byIP
      BY <2>1 DEF UnknownInv
    <2>2. CASE a \in byIP
      <3>1. seen[a] < now - Idle
        BY <2>2, <1>3 DEF Sweep, LimiterTypeOK
      <3>2. Cost * granted[a] <= Room(a) + seen[a] + Hold /\ Room(a) = Full
        BY <2>2, <1>3 DEF BucketInv, Room, Bursts
      <3>3. Cost * granted[a] \in Int
        BY LimiterAssumption DEF LimiterTypeOK
      <3> QED
        BY <3>1, <3>2, <3>3, <1>3, FullType DEF LimiterTypeOK
    <2> QED
      BY <2>1, <2>2
  <1>8. LadderInv'
    BY <1>2 DEF LadderInv, Sweep, bucket, request
  <1>9. MadeInv'
    <2>1. \A a \in Addrs : made[a] * Idle \in Int
      BY LimiterAssumption DEF LimiterTypeOK
    <2> QED
      BY <2>1, <1>3 DEF MadeInv, Sweep, bucket, history, LimiterTypeOK
  <1> QED
    BY <1>1, <1>4, <1>5, <1>6, <1>7, <1>8, <1>9

(* Requests that come and go hold no reservation.                           *)
LEMMA ComeAndGoStep ==
    ASSUME RateInv, NEW r \in Reqs, (\E a \in Addrs : Arrive(r, a)) \/ Finish(r)
    PROVE  RateInv'
  <1> USE DEF RateInv
  <1>1. LimiterTypeOK'
    BY DEF LimiterTypeOK, Arrive, Finish, bucket, history
  <1>2. /\ UNCHANGED << now, byIP, bucket, granted, made >>
        /\ at[r] \in {"idle", "granted", "denied"} /\ at'[r] \in {"lookup", "idle"}
        /\ \A q \in Reqs \ {r} : at'[q] = at[q] /\ ip'[q] = ip[q] /\ due'[q] = due[q]
    BY DEF Arrive, Finish, history, LimiterTypeOK
  <1>r. \A b \in Addrs : Room(b) \in Nat /\ Room(b)' = Room(b)
    BY RoomType, RoomSame, <1>2
  <1>3. /\ \A a \in Addrs : Open(a)' = Open(a)
        /\ \A a \in Addrs, t \in Nat : DueBy(a, t)' = DueBy(a, t)
        /\ \A a \in Addrs : Owed(a)' = Owed(a)
    BY <1>2, SetsFrame
  <1>4. UsingInv'
    BY <1>2 DEF UsingInv, Using, bucket
  <1>5. BucketInv'
    BY <1>2, <1>3, <1>r DEF BucketInv, bucket, LimiterTypeOK
  <1>6. PromiseInv'
    BY <1>2, <1>3, <1>r DEF PromiseInv
  <1>7. UnknownInv' /\ MadeInv'
    BY <1>2 DEF UnknownInv, MadeInv, bucket
  <1>8. LadderInv'
    <2>1. \A a \in Addrs : \A q \in Owed(a) : due'[q] = due[q]
      BY <1>2 DEF Owed
    <2> QED
      BY <1>2, <1>3, <2>1 DEF LadderInv, bucket
  <1> QED
    BY <1>1, <1>4, <1>5, <1>6, <1>7, <1>8

(* A look-up finds a bucket, or makes a full one for an address that has    *)
(* paid for what it got.                                                    *)
LEMMA LookupStep ==
    ASSUME RateInv, NEW r \in Reqs, limiterFor(r)
    PROVE  RateInv'
  <1> USE DEF RateInv
  <1> DEFINE a == ip[r]
  <1>0. a \in Addrs /\ Full \in Nat /\ Hold \in Nat /\ now \in Nat
    BY FullType, LimiterAssumption DEF LimiterTypeOK
  <1>1. LimiterTypeOK'
    BY <1>0 DEF LimiterTypeOK, limiterFor
  <1>2. /\ UNCHANGED << now, ip, due, granted >> /\ at[r] = "lookup" /\ at'[r] = "reserve"
        /\ \A q \in Reqs \ {r} : at'[q] = at[q]
        /\ byIP' = byIP \cup {a} /\ seen' = [seen EXCEPT ![a] = now]
    BY DEF limiterFor, LimiterTypeOK
  <1>3. /\ \A b \in Addrs : Open(b)' = Open(b)
        /\ \A b \in Addrs, t \in Nat : DueBy(b, t)' = DueBy(b, t)
        /\ \A b \in Addrs : Owed(b)' = Owed(b)
    BY <1>2, SetsFrame
  <1>4. UsingInv'
    BY <1>0, <1>2 DEF UsingInv, Using, LimiterTypeOK
  <1>5. a \notin byIP => Open(a) = {} /\ Owed(a) = {}
    BY DEF UsingInv, Using, Open, Owed
  <1>6. \A b \in Addrs : (b # a \/ a \in byIP) =>
            tokens'[b] = tokens[b] /\ last'[b] = last[b] /\ lastEvent'[b] = lastEvent[b]
    BY DEF limiterFor, LimiterTypeOK
  <1>r. /\ \A b \in Addrs : Room(b) \in Nat /\ Room(b)' \in Nat
        /\ \A b \in Addrs : (b # a \/ a \in byIP) => made'[b] = made[b] /\ Room(b)' = Room(b)
        /\ \A b \in Addrs : (b = a /\ a \notin byIP) =>
              /\ made'[b] = made[b] + 1
              /\ IF Idle >= Full + Hold THEN Room(b)' = Full /\ Room(b) = Full
                                        ELSE Room(b)' = Room(b) + Full
    <2>1. \A b \in Addrs : Room(b) \in Nat /\ Room(b)' \in Nat
      <3>1. \A b \in Addrs : Bursts(b)' \in Nat
        BY <1>1 DEF Bursts, LimiterTypeOK
      <3>2. \A m \in Nat : Full * m \in Nat
        BY <1>0
      <3> QED
        BY <3>1, <3>2, RoomType DEF Room
    <2>2. \A b \in Addrs : (b # a \/ a \in byIP) => made'[b] = made[b]
      BY <1>0 DEF limiterFor, LimiterTypeOK
    <2>3. ASSUME a \notin byIP PROVE made'[a] = made[a] + 1 /\ made[a] \in Nat
      BY <1>0, <2>3 DEF limiterFor, LimiterTypeOK
    <2>4. \A m \in Nat : Full * 1 = Full /\ Full * (m + 1) = Full * m + Full
      BY <1>0
    <2> QED
      BY <2>1, <2>2, <2>3, <2>4, RoomSame DEF Room, Bursts
  <1>7. BucketInv'
    <2> SUFFICES ASSUME NEW b \in byIP'
                 PROVE  /\ seen'[b] <= now /\ last'[b] <= now /\ tokens'[b] <= Full
                        /\ tokens'[b] + Cost * (granted[b] + Cardinality(Open(b))) <= Room(b)' + last'[b]
                        /\ Cost * granted[b] <= Room(b)' + seen'[b] + Hold
      BY <1>1, <1>2, <1>3 DEF BucketInv, LimiterTypeOK
    <2>0. b \in Addrs /\ Cost * granted[b] \in Int
      BY <1>1, LimiterAssumption DEF LimiterTypeOK
    <2>1. CASE b = a /\ a \notin byIP
      <3>1. tokens'[b] = Full /\ last'[b] = now /\ seen'[b] = now
        BY <2>1, <1>0 DEF limiterFor, LimiterTypeOK
      <3>2. Cardinality(Open(b)) = 0
        BY <2>1, <1>5, FS_EmptySet, Zenon
      <3>3. Full + Cost * granted[b] <= Room(b)' + now
        <4>1. CASE Idle >= Full + Hold
          BY <4>1, <2>0, <2>1, <1>0, <1>r DEF UnknownInv
        <4>2. CASE ~ (Idle >= Full + Hold)
          <5>1. Cost * (granted[b] + Cardinality({})) <= Room(b) + now
            BY <2>0, <1>0, FewerDue
          <5>2. granted[b] + Cardinality({}) = granted[b]
            BY <2>0, FS_EmptySet DEF LimiterTypeOK
          <5> QED
            BY <5>1, <5>2, <4>2, <2>0, <2>1, <1>0, <1>r
        <4> QED
          BY <4>1, <4>2
      <3>4. granted[b] + Cardinality(Open(b)) = granted[b]
        BY <3>2, <2>0 DEF LimiterTypeOK
      <3> QED
        BY <3>1, <3>3, <3>4, <2>0, <1>0, <1>r
    <2>2. CASE b # a \/ a \in byIP
      <3>1. b \in byIP
        BY <2>2, <1>2
      <3>2. seen'[b] \in {seen[b], now} /\ seen[b] <= now /\ seen[b] \in Nat
        BY <3>1, <2>0, <1>2 DEF BucketInv, LimiterTypeOK
      <3> QED
        BY <3>1, <3>2, <2>0, <2>2, <1>0, <1>6, <1>r DEF BucketInv
    <2> QED
      BY <2>1, <2>2
  <1>8. PromiseInv'
    <2>1. \A b \in Addrs : Room(b)' >= Room(b)
      BY <1>0, <1>r
    <2>2. \A b \in Addrs, t \in Nat : Cost * (granted[b] + Cardinality(DueBy(b, t))) \in Int
      BY Finite, LimiterAssumption DEF DueBy, LimiterTypeOK
    <2> QED
      BY <2>1, <2>2, <1>0, <1>r, <1>2, <1>3 DEF PromiseInv
  <1>9. UnknownInv'
    BY <1>2 DEF UnknownInv
  <1>10. LadderInv'
    BY <1>2, <1>3, <1>5, <1>6 DEF LadderInv
  <1>11. MadeInv'
    <2> SUFFICES ASSUME NEW b \in Addrs
                 PROVE  made'[b] * Idle <= (IF b \in byIP' THEN seen'[b] + Idle ELSE now)
      BY <1>2 DEF MadeInv
    <2>1. Idle \in Nat /\ made[b] \in Nat /\ made[b] * Idle \in Int /\ (made[b] + 1) * Idle = made[b] * Idle + Idle
      BY LimiterAssumption DEF LimiterTypeOK
    <2>2. b \in byIP => seen[b] <= now /\ seen[b] \in Nat
      BY DEF BucketInv, LimiterTypeOK
    <2>3. seen'[b] = (IF b = a THEN now ELSE seen[b])
      BY <1>2 DEF LimiterTypeOK
    <2>4. made[b] * Idle <= (IF b \in byIP THEN seen[b] + Idle ELSE now)
      BY DEF MadeInv
    <2>5. CASE b = a /\ a \notin byIP
      BY <2>1, <2>3, <2>4, <2>5, <1>0, <1>2, <1>r
    <2>6. CASE b # a \/ a \in byIP
      BY <2>1, <2>2, <2>3, <2>4, <2>6, <1>0, <1>2, <1>r
    <2> QED
      BY <2>5, <2>6
  <1> QED
    BY <1>1, <1>4, <1>7, <1>8, <1>9, <1>10, <1>11

(* A reservation whose time has come is granted: it is counted among the    *)
(* grants instead of among those that can come.                             *)
LEMMA GrantStep ==
    ASSUME RateInv, NEW r \in Reqs, Grant(r)
    PROVE  RateInv'
  <1> USE DEF RateInv
  <1> DEFINE a == ip[r]
  <1>0. a \in Addrs /\ Full \in Nat /\ Hold \in Nat /\ now \in Nat
    BY FullType, LimiterAssumption DEF LimiterTypeOK
  <1>1. LimiterTypeOK'
    BY <1>0 DEF LimiterTypeOK, Grant, bucket
  <1>2. /\ UNCHANGED << now, byIP, made, ip, due, seen, tokens, last, lastEvent >>
        /\ at[r] = "decide" /\ at'[r] = "granted" /\ due[r] <= now
        /\ \A q \in Reqs \ {r} : at'[q] = at[q]
        /\ granted' = [granted EXCEPT ![a] = granted[a] + 1]
    BY DEF Grant, bucket, LimiterTypeOK
  <1>r. \A b \in Addrs : Room(b) \in Nat /\ Room(b)' = Room(b)
    BY RoomType, RoomSame, <1>2
  <1>3. a \in byIP /\ now <= seen[a] + Hold
    BY <1>2 DEF UsingInv, Using
  <1>4. ASSUME NEW b \in Addrs
        PROVE  granted'[b] + Cardinality(Open(b)') = granted[b] + Cardinality(Open(b))
    <2>1. CASE b = a
      <3>1. r \in Open(b) /\ Open(b)' = Open(b) \ {r}
        BY <1>2, <2>1 DEF Open
      <3>2. IsFiniteSet(Open(b)) /\ Cardinality(Open(b)) \in Nat
        BY Finite DEF Open
      <3>3. Cardinality(Open(b) \ {r}) = Cardinality(Open(b)) - 1
        BY <3>1, <3>2, FS_RemoveElement
      <3> QED
        BY <3>1, <3>2, <3>3, <2>1, <1>0, <1>2 DEF LimiterTypeOK
    <2>2. CASE b # a
      <3>1. Open(b)' = Open(b)
        BY <1>2, <2>2 DEF Open
      <3> QED
        BY <3>1, <2>2, <1>2
    <2> QED
      BY <2>1, <2>2
  <1>5. ASSUME NEW b \in Addrs, NEW t \in Nat, t >= now
        PROVE  granted'[b] + Cardinality(DueBy(b, t)') = granted[b] + Cardinality(DueBy(b, t))
    <2>1. CASE b = a
      <3>1. r \in DueBy(b, t) /\ DueBy(b, t)' = DueBy(b, t) \ {r}
        BY <1>0, <1>2, <1>5, <2>1 DEF DueBy, LimiterTypeOK
      <3>2. IsFiniteSet(DueBy(b, t)) /\ Cardinality(DueBy(b, t)) \in Nat
        BY Finite DEF DueBy
      <3>3. Cardinality(DueBy(b, t) \ {r}) = Cardinality(DueBy(b, t)) - 1
        BY <3>1, <3>2, FS_RemoveElement
      <3> QED
        BY <3>1, <3>2, <3>3, <2>1, <1>0, <1>2 DEF LimiterTypeOK
    <2>2. CASE b # a
      <3>1. DueBy(b, t)' = DueBy(b, t)
        BY <1>2, <2>2 DEF DueBy
      <3> QED
        BY <3>1, <2>2, <1>2
    <2> QED
      BY <2>1, <2>2
  <1>6. PromiseInv'
    BY <1>2, <1>5, <1>r DEF PromiseInv
  <1>7. Cost * granted'[a] <= Room(a) + now
    <2>1. Cost * (granted'[a] + Cardinality(DueBy(a, now)')) <= Room(a) + now
      BY <1>0, <1>2, <1>6, <1>r DEF PromiseInv
    <2>2. Cardinality(DueBy(a, now)') \in Nat
      <3>1. DueBy(a, now)' \subseteq Reqs
        BY DEF DueBy
      <3> QED
        BY <3>1, Finite
    <2>3. granted'[a] \in Nat
      BY <1>0, <1>1 DEF LimiterTypeOK
    <2>4. Cost * granted'[a] <= Cost * (granted'[a] + Cardinality(DueBy(a, now)'))
      <3>1. \A g, n \in Nat : g <= g + n /\ g + n \in Nat
        OBVIOUS
      <3>2. \A g, n \in Nat : Cost * g <= Cost * (g + n)
        BY <3>1, CostTimes, Zenon
      <3> QED
        BY <2>2, <2>3, <3>2, Zenon
    <2>5. Cost * granted'[a] \in Int /\ Cost * (granted'[a] + Cardinality(DueBy(a, now)')) \in Int
      BY <2>2, <2>3, LimiterAssumption
    <2> QED
      BY <2>1, <2>4, <2>5, <1>0, <1>r
  <1>8. BucketInv'
    <2> SUFFICES ASSUME NEW b \in byIP
                 PROVE  /\ seen[b] <= now /\ last[b] <= now /\ tokens[b] <= Full
                        /\ tokens[b] + Cost * (granted'[b] + Cardinality(Open(b)')) <= Room(b) + last[b]
                        /\ Cost * granted'[b] <= Room(b) + seen[b] + Hold
      BY <1>2, <1>r DEF BucketInv, LimiterTypeOK
    <2>0. b \in Addrs
      BY DEF LimiterTypeOK
    <2>1. CASE b = a
      <3>1. Cost * granted'[a] \in Int /\ seen[a] \in Nat
        BY <1>0, <1>1, LimiterAssumption DEF LimiterTypeOK
      <3> QED
        BY <3>1, <2>0, <2>1, <1>0, <1>3, <1>4, <1>7, <1>r DEF BucketInv
    <2>2. CASE b # a
      BY <2>0, <2>2, <1>2, <1>4 DEF BucketInv
    <2> QED
      BY <2>1, <2>2
  <1>9. UsingInv'
    BY <1>2 DEF UsingInv, Using
  <1>10. UnknownInv' /\ MadeInv'
    BY <1>2, <1>3 DEF UnknownInv, MadeInv
  <1>11. LadderInv'
    <2>1. \A b \in Addrs : Owed(b)' \subseteq Owed(b)
      BY <1>2 DEF Owed
    <2> QED
      BY <2>1, <1>2 DEF LadderInv
  <1> QED
    BY <1>1, <1>6, <1>8, <1>9, <1>10, <1>11

(* A request that has to wait gives up: it no longer can be granted.        *)
LEMMA PostponeStep ==
    ASSUME RateInv, NEW r \in Reqs, Postpone(r)
    PROVE  RateInv'
  <1> USE DEF RateInv
  <1>1. /\ UNCHANGED << now, byIP, ip, due, seen, tokens, last, lastEvent, granted, made, arrived >>
        /\ at[r] = "decide" /\ at'[r] = "cancel" /\ due[r] > now
        /\ at' = [at EXCEPT ![r] = "cancel"]
        /\ \A q \in Reqs \ {r} : at'[q] = at[q]
        /\ retry' = [retry EXCEPT ![r] = RetryAfter(due[r] - now)]
    BY DEF Postpone, bucket, history, LimiterTypeOK
  <1>2. LimiterTypeOK'
    <2>1. due[r] - now \in Nat
      BY <1>1 DEF LimiterTypeOK
    <2>2. RetryAfter(due[r] - now) \in Nat
      BY <2>1, RetryAfterType
    <2> QED
      BY <1>1, <2>2 DEF LimiterTypeOK
  <1>r. \A b \in Addrs : Room(b) \in Nat /\ Room(b)' = Room(b)
    BY RoomType, RoomSame, <1>1
  <1>3. /\ \A b \in Addrs : Open(b)' = Open(b)
        /\ \A b \in Addrs, t \in Nat : DueBy(b, t)' \subseteq DueBy(b, t)
        /\ \A b \in Addrs : Owed(b)' \subseteq Owed(b)
    <2>1. \A b \in Addrs : Open(b)' = Open(b)
      BY <1>1 DEF Open
    <2>2. \A b \in Addrs, t \in Nat : DueBy(b, t)' \subseteq DueBy(b, t)
      BY <1>1 DEF DueBy
    <2>3. \A b \in Addrs : Owed(b)' \subseteq Owed(b)
      BY <1>1 DEF Owed
    <2> QED
      BY <2>1, <2>2, <2>3
  <1>4. PromiseInv'
    <2> SUFFICES ASSUME NEW b \in Addrs, NEW t \in Nat, t >= now
                 PROVE  Cost * (granted[b] + Cardinality(DueBy(b, t)')) <= Room(b) + t
      BY <1>1, <1>r DEF PromiseInv
    <2> QED
      BY <1>3, FewerDue
  <1>5. UsingInv' /\ UnknownInv' /\ MadeInv'
    BY <1>1 DEF UsingInv, Using, UnknownInv, MadeInv
  <1>6. BucketInv'
    BY <1>1, <1>3, <1>r DEF BucketInv, LimiterTypeOK
  <1>7. LadderInv'
    BY <1>1, <1>3 DEF LadderInv
  <1> QED
    BY <1>2, <1>4, <1>5, <1>6, <1>7

(* A reservation takes a token.  If it can be granted by time t then so can *)
(* every unsettled one, and the bucket has paid for them all; if it has to  *)
(* wait it comes due one token after the last that waits.                   *)
LEMMA ReserveStep ==
    ASSUME RateInv, NEW r \in Reqs, Reserve(r)
    PROVE  RateInv'
  <1> USE DEF RateInv
  <1> DEFINE a == ip[r]
             bal == Balance(a, now)
             left == bal - Cost
             act == now + AtLeast(- left, 0)
             n == granted[a] + Cardinality(Open(a))
  <1>0. /\ a \in Addrs /\ Full \in Nat /\ Hold \in Nat /\ now \in Nat /\ Cost \in Nat \ {0}
        /\ tokens[a] \in Int /\ last[a] \in Nat /\ lastEvent[a] \in Int /\ granted[a] \in Nat
    BY FullType, LimiterAssumption DEF LimiterTypeOK
  <1>1. /\ bal \in Int /\ bal <= Full /\ bal <= tokens[a] + (now - last[a])
        /\ tokens[a] + (now - last[a]) <= Full => bal = tokens[a] + (now - last[a])
    BY <1>0 DEF Balance, AtMost
  <1>2. /\ left = bal - Cost /\ left \in Int /\ act \in Nat /\ act >= now /\ act >= now - left
        /\ left < 0 => act = now - left
        /\ act > now => left < 0
    BY <1>0, <1>1 DEF AtLeast
  <1> HIDE DEF bal, left, act
  <1>3. /\ UNCHANGED << now, byIP, seen, ip, retry, granted, made, arrived >>
        /\ at[r] = "reserve" /\ at' = [at EXCEPT ![r] = "decide"]
        /\ tokens' = [tokens EXCEPT ![a] = left] /\ last' = [last EXCEPT ![a] = now]
        /\ lastEvent' = [lastEvent EXCEPT ![a] = act] /\ due' = [due EXCEPT ![r] = act]
    BY DEF Reserve, history, bal, left, act
  <1>r. \A b \in Addrs : Room(b) \in Nat /\ Room(b)' = Room(b)
    BY RoomType, RoomSame, <1>3
  <1>4. LimiterTypeOK'
    BY <1>0, <1>2, <1>3 DEF LimiterTypeOK
  <1>5. /\ at'[r] = "decide" /\ due'[r] = act /\ ip'[r] = a
        /\ tokens'[a] = left /\ last'[a] = now /\ lastEvent'[a] = act
        /\ \A q \in Reqs \ {r} : at'[q] = at[q] /\ due'[q] = due[q] /\ ip'[q] = ip[q]
        /\ \A b \in Addrs \ {a} : tokens'[b] = tokens[b] /\ last'[b] = last[b]
                                    /\ lastEvent'[b] = lastEvent[b]
    BY <1>0, <1>3 DEF LimiterTypeOK
  <1>6. a \in byIP /\ now <= seen[a] + Hold
    BY <1>3 DEF UsingInv, Using
  <1> HIDE DEF a
  <1>7. ASSUME NEW b \in Addrs \ {a}
        PROVE  /\ Open(b)' = Open(b) /\ Owed(b)' = Owed(b)
               /\ \A t \in Nat : DueBy(b, t)' = DueBy(b, t)
    <2>1. ip[r] # b
      BY DEF a
    <2>2. Open(b)' = Open(b)
      BY <1>3, <1>5, <2>1 DEF Open
    <2>3. Owed(b)' = Owed(b)
      BY <1>3, <1>5, <2>1 DEF Owed
    <2>4. \A t \in Nat : DueBy(b, t)' = DueBy(b, t)
      BY <1>3, <1>5, <2>1 DEF DueBy
    <2> QED
      BY <2>2, <2>3, <2>4
  <1>8. /\ r \notin Open(a)
        /\ \A b \in Addrs : b = a => Open(b)' = Open(a) \cup {r}
    BY <1>3, <1>5 DEF Open
  <1>9. Cardinality(Open(a)) \in Nat /\ Cardinality(Open(a) \cup {r}) = Cardinality(Open(a)) + 1
    <2>1. IsFiniteSet(Open(a)) /\ Cardinality(Open(a)) \in Nat
      BY Finite DEF Open
    <2> QED
      BY <2>1, <1>8, FS_AddElement
  <1>10. /\ n \in Nat /\ granted[a] + Cardinality(Open(a) \cup {r}) = n + 1
         /\ Cost * n \in Int /\ Cost * (n + 1) = Cost * n + Cost
    <2>1. n \in Nat /\ granted[a] + Cardinality(Open(a) \cup {r}) = n + 1
      BY <1>0, <1>9
    <2> QED
      BY <2>1, CostTimes
  <1>11. tokens[a] + Cost * n <= Room(a) + last[a]
    BY <1>6 DEF BucketInv
  <1> HIDE DEF n
  <1>12. left + Cost * (n + 1) <= Room(a) + now
    BY <1>0, <1>1, <1>2, <1>10, <1>11, <1>r
  <1>13. BucketInv'
    <2> SUFFICES ASSUME NEW b \in byIP
                 PROVE  /\ seen[b] <= now /\ last'[b] <= now /\ tokens'[b] <= Full
                        /\ tokens'[b] + Cost * (granted[b] + Cardinality(Open(b)')) <= Room(b) + last'[b]
                        /\ Cost * granted[b] <= Room(b) + seen[b] + Hold
      BY <1>3, <1>r DEF BucketInv, LimiterTypeOK
    <2>0. b \in Addrs
      BY DEF LimiterTypeOK
    <2>1. CASE b = a
      <3>1. granted[b] + Cardinality(Open(b)') = n + 1
        BY <2>0, <2>1, <1>8, <1>10
      <3>2. left <= Full
        BY <1>0, <1>1, <1>2
      <3>3. seen[b] <= now /\ Cost * granted[b] <= Room(b) + seen[b] + Hold
        BY DEF BucketInv
      <3> QED
        BY <3>1, <3>2, <3>3, <2>1, <1>0, <1>5, <1>12, <1>r
    <2>2. CASE b # a
      BY <2>0, <2>2, <1>5, <1>7 DEF BucketInv
    <2> QED
      BY <2>1, <2>2
  <1>14. PromiseInv'
    <2> SUFFICES ASSUME NEW b \in Addrs, NEW t \in Nat, t >= now
                 PROVE  Cost * (granted[b] + Cardinality(DueBy(b, t)')) <= Room(b) + t
      BY <1>3, <1>r DEF PromiseInv
    <2>1. CASE b = a /\ act <= t
      <3>1. DueBy(b, t)' \subseteq Open(a) \cup {r} /\ Open(a) \cup {r} \subseteq Reqs
        BY <2>1, <1>5, <1>8 DEF DueBy, Open
      <3>2. Cost * (granted[a] + Cardinality(Open(a) \cup {r})) <= Room(b) + t
        <4>1. Cost * (n + 1) <= Room(b) + t
          BY <2>1, <1>0, <1>2, <1>10, <1>12, <1>r
        <4> QED
          BY <4>1, <1>10
      <3>3. Room(b) + t \in Int
        BY <1>0, <1>r
      <3> QED
        BY <3>1, <3>2, <3>3, <2>1, <1>0, FewerCost
    <2>2. CASE b # a \/ ~ (act <= t)
      <3>1. DueBy(b, t)' \subseteq DueBy(b, t)
        BY <2>2, <1>3, <1>5 DEF DueBy, a
      <3> QED
        BY <3>1, FewerDue
    <2> QED
      BY <2>1, <2>2
  <1>15. LadderInv'
    <2>1. ASSUME NEW q \in Owed(a)
          PROVE  /\ q # r
                 /\ act = now - left
                 /\ \E k \in Nat : act = due[q] + k * Cost
                 /\ act > due[q]
      <3>1. q # r /\ due[q] >= now /\ due[q] \in Nat
        BY <1>3 DEF Owed, LimiterTypeOK
      <3>2. lastEvent[a] = last[a] - tokens[a]
        BY <1>0 DEF LadderInv
      <3>3. PICK k \in Nat : lastEvent[a] = due[q] + k * Cost
        BY <1>0 DEF LadderInv
      <3>4. k * Cost \in Nat /\ (k + 1) * Cost = k * Cost + Cost /\ k + 1 \in Nat
        BY <1>0
      <3>5. tokens[a] + (now - last[a]) <= 0
        BY <3>1, <3>2, <3>3, <3>4, <1>0
      <3>6. left < 0 /\ now - left = lastEvent[a] + Cost
        BY <3>2, <3>5, <1>0, <1>1, <1>2
      <3>7. act = due[q] + (k + 1) * Cost
        BY <3>1, <3>3, <3>4, <3>6, <1>0, <1>2
      <3>8. act > due[q]
        <4>1. PICK j \in Nat : k * Cost = j
          BY <3>4, Zenon
        <4>2. act = due[q] + (j + Cost)
          BY <3>4, <3>7, <4>1, Zenon
        <4> QED
          BY <3>1, <4>2, <1>0
      <3> QED
        BY <3>1, <3>4, <3>6, <3>7, <3>8, <1>2
    <2> SUFFICES ASSUME NEW b \in Addrs
                 PROVE  /\ \A q \in Owed(b)' : /\ lastEvent'[b] = last'[b] - tokens'[b]
                                              /\ \E k \in Nat : lastEvent'[b] = due'[q] + k * Cost
                        /\ \A q, s \in Owed(b)' : due'[q] = due'[s] => q = s
      BY DEF LadderInv
    <2>2. CASE b # a
      <3>1. Owed(b)' = Owed(b) /\ \A q \in Owed(b) : due'[q] = due[q]
        BY <2>2, <1>5, <1>7 DEF Owed, a
      <3> QED
        BY <3>1, <2>2, <1>5 DEF LadderInv
    <2>3. CASE b = a
      <3>1. Owed(b)' \subseteq Owed(a) \cup {r}
        BY <2>3, <1>3, <1>5 DEF Owed
      <3>2. r \in Owed(b)' => act = now - left
        <4>1. r \in Owed(b)' => act > now
          BY <1>3, <1>5 DEF Owed
        <4> QED
          BY <4>1, <1>2
      <3>3. \A q \in Owed(b)' : q = r \/ (q \in Owed(a) /\ due'[q] = due[q])
        BY <3>1, <1>5 DEF Owed
      <3>4. ASSUME NEW q \in Owed(b)'
            PROVE  /\ lastEvent'[b] = last'[b] - tokens'[b]
                   /\ \E k \in Nat : lastEvent'[b] = due'[q] + k * Cost
        <4>1. act = now - left
          BY <3>2, <3>3, <3>4, <2>1
        <4>2. act = act + 0 * Cost
          BY <1>0, <1>2
        <4>3. \E k \in Nat : act = due'[q] + k * Cost
          <5>1. CASE q = r
            BY <5>1, <4>2, <1>5
          <5>2. CASE q # r
            BY <5>2, <3>3, <3>4, <2>1
          <5> QED
            BY <5>1, <5>2
        <4> QED
          BY <4>1, <4>3, <2>3, <1>5
      <3>5. ASSUME NEW q \in Owed(b)', NEW s \in Owed(b)', due'[q] = due'[s]
            PROVE  q = s
        <4>1. \A p \in Owed(a) : due[p] \in Nat /\ due[p] # act
          BY <2>1, <1>2 DEF Owed, LimiterTypeOK
        <4>2. CASE q \in Owed(a) /\ s \in Owed(a) /\ due'[q] = due[q] /\ due'[s] = due[s]
          BY <4>2, <3>5, <1>0 DEF LadderInv
        <4> QED
          BY <4>1, <4>2, <3>3, <3>5, <1>5
      <3> QED
        BY <3>4, <3>5
    <2> QED
      BY <2>2, <2>3
  <1>16. UsingInv' /\ UnknownInv' /\ MadeInv'
    BY <1>3, <1>5, <1>6 DEF UsingInv, Using, UnknownInv, MadeInv, a
  <1> QED
    BY <1>4, <1>13, <1>14, <1>15, <1>16

(* A cancelled reservation is given back in full if it is the last that     *)
(* waits, and then those before it are the last; otherwise not at all.      *)
LEMMA CancelStep ==
    ASSUME RateInv, NEW r \in Reqs, Cancel(r)
    PROVE  RateInv'
  <1> USE DEF RateInv
  <1> DEFINE a == ip[r]
             restore == Cost - (lastEvent[a] - due[r])
             prev == due[r] - Cost
             back == AtMost(Balance(a, now) + restore, Full)
             event == IF lastEvent[a] = due[r] /\ prev >= now THEN prev ELSE lastEvent[a]
  <1>0. /\ a \in Addrs /\ Full \in Nat /\ Hold \in Nat /\ now \in Nat /\ Cost \in Nat \ {0}
        /\ tokens[a] \in Int /\ last[a] \in Nat /\ lastEvent[a] \in Int /\ granted[a] \in Nat
        /\ due[r] \in Nat /\ Cost <= Full
    <2>1. Cost \in Nat \ {0} /\ Burst \in Nat \ {0}
      BY LimiterAssumption
    <2>2. PICK j \in Nat : Burst = j + 1
      BY <2>1, Burst - 1 \in Nat
    <2>3. Burst * Cost = j * Cost + Cost /\ j * Cost \in Nat
      BY <2>1, <2>2
    <2>4. Cost <= Full
      BY <2>1, <2>3 DEF Full
    <2> QED
      BY <2>4, FullType, LimiterAssumption DEF LimiterTypeOK
  <1>1. /\ UNCHANGED << now, byIP, seen, ip, due, retry, granted, made, arrived >>
        /\ at[r] = "cancel" /\ at' = [at EXCEPT ![r] = "denied"]
    BY DEF Cancel, bucket, history
  <1>2. at'[r] = "denied" /\ \A q \in Reqs \ {r} : at'[q] = at[q]
    BY <1>1 DEF LimiterTypeOK
  <1>r. \A b \in Addrs : Room(b) \in Nat /\ Room(b)' = Room(b)
    BY RoomType, RoomSame, <1>1
  <1>3. a \in byIP
    BY <1>1 DEF UsingInv, Using
  <1>4. UsingInv' /\ UnknownInv' /\ MadeInv'
    BY <1>1, <1>2 DEF UsingInv, Using, UnknownInv, MadeInv
  <1>5. PromiseInv'
    <2>1. \A b \in Addrs, t \in Nat : DueBy(b, t)' = DueBy(b, t)
      BY <1>1, <1>2 DEF DueBy
    <2> QED
      BY <2>1, <1>1, <1>r DEF PromiseInv
  <1>6. /\ \A b \in Addrs : Open(b)' \subseteq Open(b) /\ Owed(b)' \subseteq Owed(b)
        /\ \A b \in Addrs : r \notin Owed(b)'
        /\ \A b \in Addrs : b = a => r \in Open(b) /\ Open(b)' = Open(b) \ {r}
    <2>1. \A b \in Addrs : Open(b)' \subseteq Open(b)
      BY <1>1, <1>2 DEF Open
    <2>2. \A b \in Addrs : Owed(b)' \subseteq Owed(b) /\ r \notin Owed(b)'
      BY <1>1, <1>2 DEF Owed
    <2>3. \A b \in Addrs : b = a => r \in Open(b) /\ Open(b)' = Open(b) \ {r}
      BY <1>1, <1>2 DEF Open
    <2> QED
      BY <2>1, <2>2, <2>3
  <1>7. ASSUME NEW b \in byIP
        PROVE  tokens[b] + Cost * (granted[b] + Cardinality(Open(b)')) <= Room(b) + last[b]
    <2>1. b \in Addrs /\ tokens[b] \in Int /\ last[b] \in Nat /\ granted[b] \in Nat
      BY DEF LimiterTypeOK
    <2>2. Open(b)' \subseteq Open(b) /\ Open(b) \subseteq Reqs
      BY <2>1, <1>6 DEF Open
    <2>3. Cardinality(Open(b)) \in Nat /\ Cardinality(Open(b)') \in Nat
      BY <2>2, Finite
    <2>4. Cost * (granted[b] + Cardinality(Open(b))) \in Int
          /\ Cost * (granted[b] + Cardinality(Open(b)')) \in Int
      BY <2>1, <2>3, <1>0
    <2>5. Cost * (granted[b] + Cardinality(Open(b))) <= Room(b) + last[b] - tokens[b]
      BY <2>1, <2>4, <1>0, <1>r DEF BucketInv
    <2>6. Room(b) + last[b] - tokens[b] \in Int
      BY <2>1, <1>0, <1>r
    <2>7. Cost * (granted[b] + Cardinality(Open(b)')) <= Room(b) + last[b] - tokens[b]
      BY <2>1, <2>2, <2>5, <2>6, FewerCost
    <2> QED
      BY <2>1, <2>4, <2>7, <1>0, <1>r
  <1>8. CASE due[r] < now \/ restore <= 0
    <2>1. UNCHANGED << tokens, last, lastEvent >>
      BY <1>8 DEF Cancel, bucket
    <2>2. LimiterTypeOK'
      BY <2>1, <1>1 DEF LimiterTypeOK
    <2>3. BucketInv'
      BY <2>1, <1>1, <1>7, <1>r DEF BucketInv, LimiterTypeOK
    <2>4. LadderInv'
      BY <2>1, <1>1, <1>6 DEF LadderInv
    <2> QED
      BY <2>2, <2>3, <2>4, <1>4, <1>5
  <1>9. CASE ~ (due[r] < now \/ restore <= 0)
    <2>1. /\ tokens' = [tokens EXCEPT ![a] = back] /\ last' = [last EXCEPT ![a] = now]
          /\ lastEvent' = [lastEvent EXCEPT ![a] = event]
      BY <1>9 DEF Cancel
    <2>2. due[r] >= now /\ r \in Owed(a)
      BY <1>0, <1>1, <1>9 DEF Owed
    <2>3. lastEvent[a] = due[r] /\ last[a] - tokens[a] = due[r]
      <3>1. lastEvent[a] = last[a] - tokens[a]
        BY <2>2, <1>0 DEF LadderInv
      <3>2. PICK k \in Nat : lastEvent[a] = due[r] + k * Cost
        BY <2>2, <1>0 DEF LadderInv
      <3>3. k * Cost < Cost
        <4>1. k * Cost \in Int
          BY <1>0
        <4> QED
          BY <4>1, <3>2, <1>0, <1>9
      <3>4. k = 0
        <4>1. k # 0 => k * Cost >= Cost
          BY CostTimes
        <4>2. k * Cost \in Int
          BY <1>0
        <4> QED
          BY <4>1, <4>2, <3>3, <1>0
      <3> QED
        BY <3>1, <3>2, <3>4, <1>0
    <2>4. back = now - due[r] + Cost /\ back \in Int /\ back <= Full
      BY <2>2, <2>3, <1>0 DEF Balance, AtMost
    <2>5. /\ event \in Int
          /\ prev >= now => event = due[r] - Cost
      BY <2>3, <1>0
    <2> HIDE DEF back, event
    <2>6. /\ tokens'[a] = back /\ last'[a] = now /\ lastEvent'[a] = event
          /\ \A b \in Addrs \ {a} : tokens'[b] = tokens[b] /\ last'[b] = last[b]
                                      /\ lastEvent'[b] = lastEvent[b]
      BY <2>1, <1>0 DEF LimiterTypeOK
    <2>7. LimiterTypeOK'
      BY <2>1, <2>4, <2>5, <1>0, <1>1 DEF LimiterTypeOK
    <2>8. BucketInv'
      <3> SUFFICES ASSUME NEW b \in byIP
                   PROVE  /\ seen[b] <= now /\ last'[b] <= now /\ tokens'[b] <= Full
                          /\ tokens'[b] + Cost * (granted[b] + Cardinality(Open(b)')) <= Room(b) + last'[b]
                          /\ Cost * granted[b] <= Room(b) + seen[b] + Hold
        BY <1>1, <1>r DEF BucketInv, LimiterTypeOK
      <3>0. b \in Addrs /\ seen[b] <= now /\ Cost * granted[b] <= Room(b) + seen[b] + Hold
        BY DEF LimiterTypeOK, BucketInv
      <3>1. CASE b = a
        <4> DEFINE m == granted[b] + Cardinality(Open(b)')
        <4>1. m \in Nat /\ granted[b] + Cardinality(Open(b)) = m + 1
          <5>1. r \in Open(b) /\ Open(b)' = Open(b) \ {r}
            BY <3>0, <3>1, <1>6
          <5>2. IsFiniteSet(Open(b)) /\ Cardinality(Open(b)) \in Nat
            BY Finite DEF Open
          <5>3. Cardinality(Open(b) \ {r}) = Cardinality(Open(b)) - 1
            BY <5>1, <5>2, FS_RemoveElement
          <5>4. Cardinality(Open(b) \ {r}) \in Nat
            BY Finite, Open(b) \ {r} \subseteq Reqs DEF Open
          <5> QED
            BY <5>1, <5>2, <5>3, <5>4, <3>1, <1>0
        <4>2. tokens[a] + Cost * (m + 1) <= Room(a) + last[a]
          BY <4>1, <3>1 DEF BucketInv
        <4> HIDE DEF m
        <4>3. Cost * (m + 1) = Cost * m + Cost /\ Cost * m \in Int
          <5>1. Cost * (m + 1) = Cost * m + Cost /\ Cost * m \in Nat
            BY <4>1, CostTimes, Zenon
          <5> QED
            BY <5>1
        <4>4. back + Cost * m <= Room(a) + now
          BY <4>2, <4>3, <2>3, <2>4, <1>0, <1>r
        <4> QED
          BY <4>4, <3>0, <3>1, <2>4, <2>6, <1>0, <1>r DEF m
      <3>2. CASE b # a
        BY <3>0, <3>2, <2>6, <1>7 DEF BucketInv
      <3> QED
        BY <3>1, <3>2
    <2>9. LadderInv'
      <3> SUFFICES ASSUME NEW b \in Addrs
                   PROVE  /\ \A q \in Owed(b)' : /\ lastEvent'[b] = last'[b] - tokens'[b]
                                                /\ \E k \in Nat : lastEvent'[b] = due[q] + k * Cost
                          /\ \A q, s \in Owed(b)' : due[q] = due[s] => q = s
        BY <1>1 DEF LadderInv
      <3>1. \A q, s \in Owed(b)' : due[q] = due[s] => q = s
        BY <1>6 DEF LadderInv
      <3>2. ASSUME NEW q \in Owed(b)', b = a
            PROVE  /\ lastEvent'[b] = last'[b] - tokens'[b]
                   /\ \E k \in Nat : lastEvent'[b] = due[q] + k * Cost
        <4>1. q \in Owed(a) /\ q # r /\ due[q] >= now /\ due[q] \in Nat
          BY <3>2, <1>6 DEF Owed, LimiterTypeOK
        <4>2. due[q] # due[r]
          BY <4>1, <2>2, <1>0 DEF LadderInv
        <4>3. PICK k \in Nat : lastEvent[a] = due[q] + k * Cost
          BY <4>1, <1>0 DEF LadderInv
        <4>4. k # 0
          BY <4>1, <4>2, <4>3, <2>3, <1>0
        <4>5. (k - 1) \in Nat /\ (k - 1) * Cost = k * Cost - Cost /\ (k - 1) * Cost \in Nat /\ k * Cost \in Int
          <5>1. (k - 1) \in Nat /\ (k - 1) * Cost = k * Cost - Cost
            BY <4>4, CostTimes
          <5> QED
            BY <5>1, CostTimes, <1>0
        <4>6. due[r] - Cost = due[q] + (k - 1) * Cost
          BY <4>1, <4>3, <4>5, <2>3, <1>0
        <4>7. event = due[r] - Cost
          BY <4>1, <4>5, <4>6, <2>5, <1>0
        <4>8. lastEvent'[b] = last'[b] - tokens'[b]
          BY <4>7, <3>2, <2>4, <2>6, <1>0
        <4> QED
          BY <4>5, <4>6, <4>7, <4>8, <3>2, <2>6
      <3>3. CASE b # a
        BY <3>3, <2>6, <1>6 DEF LadderInv
      <3> QED
        BY <3>1, <3>2, <3>3
    <2> QED
      BY <2>7, <2>8, <2>9, <1>4, <1>5
  <1> QED
    BY <1>8, <1>9

-----------------------------------------------------------------------------
(* Every step keeps the invariant.                                          *)
LEMMA RateInvStep == RateInv /\ [LimiterNext]_lvars => RateInv'
  <1> SUFFICES ASSUME RateInv, [LimiterNext]_lvars PROVE RateInv'
    OBVIOUS
  <1>1. CASE Advance
    BY <1>1, AdvanceStep
  <1>2. CASE Sweep
    BY <1>2, SweepStep
  <1>3. ASSUME NEW r \in Reqs, (\E a \in Addrs : Arrive(r, a)) \/ Step(r) \/ Finish(r)
        PROVE  RateInv'
    BY <1>3, ComeAndGoStep, LookupStep, ReserveStep, GrantStep, PostponeStep, CancelStep DEF Step
  <1>4. CASE UNCHANGED lvars
    <2> USE <1>4 DEF lvars, bucket, request, history
    <2>1. LimiterTypeOK'
      BY DEF RateInv, LimiterTypeOK
    <2>r. \A b \in Addrs : Room(b)' = Room(b)
      BY RoomSame
    <2>2. /\ \A a \in Addrs : Open(a)' = Open(a) /\ Owed(a)' = Owed(a)
          /\ \A a \in Addrs, t \in Nat : DueBy(a, t)' = DueBy(a, t)
      BY SetsFrame
    <2>3. UsingInv' /\ UnknownInv' /\ MadeInv'
      BY DEF RateInv, UsingInv, UnknownInv, MadeInv, Using
    <2>4. BucketInv'
      BY <2>2, <2>r DEF RateInv, BucketInv, LimiterTypeOK
    <2>5. PromiseInv'
      BY <2>2, <2>r DEF RateInv, PromiseInv
    <2>6. LadderInv'
      BY <2>2 DEF RateInv, LadderInv
    <2> QED
      BY <2>1, <2>3, <2>4, <2>5, <2>6 DEF RateInv
  <1> QED
    BY <1>1, <1>2, <1>3, <1>4 DEF LimiterNext

(* The limiter's invariant: what is in the buckets, what was granted and    *)
(* what may still be granted never exceed the buckets' bursts and the time  *)
(* that passed; of the reservations that wait only the last can be given    *)
(* back; and a bucket is made anew only when Idle has passed.               *)
THEOREM RateInvariant == LimiterSpec => []RateInv
  BY RateInvInit, RateInvStep, PTL DEF LimiterSpec

(* Whatever is reserved, cancelled, forgotten by the sweep and looked up    *)
(* again, no address is let through more often than its rate and the bursts *)
(* of its buckets allow; it has one bucket's burst where Idle is enough to  *)
(* refill it, and gets no more than one in Idle where it is not.            *)
THEOREM GrantsAreBounded == LimiterSpec => []GrantsWithinRate
  <1>1. RateInv => GrantsWithinRate
    <2> SUFFICES ASSUME RateInv, NEW a \in Addrs
                 PROVE  Cost * granted[a] <= Room(a) + now /\ made[a] * Idle <= now + Idle
      BY DEF GrantsWithinRate, Room
    <2>1. now \in Nat /\ now >= now /\ granted[a] \in Nat
      BY DEF RateInv, LimiterTypeOK
    <2>2. Cost * (granted[a] + Cardinality({})) <= Room(a) + now
      BY <2>1, FewerDue
    <2>3. granted[a] + Cardinality({}) = granted[a]
      BY <2>1, FS_EmptySet
    <2>4. made[a] * Idle <= (IF a \in byIP THEN seen[a] + Idle ELSE now)
      BY DEF RateInv, MadeInv
    <2>5. a \in byIP => seen[a] <= now /\ seen[a] \in Nat
      BY DEF RateInv, BucketInv, LimiterTypeOK
    <2>6. Idle \in Nat /\ made[a] * Idle \in Int
      BY LimiterAssumption DEF RateInv, LimiterTypeOK
    <2> QED
      BY <2>1, <2>2, <2>3, <2>4, <2>5, <2>6
  <1> QED
    BY <1>1, RateInvariant, PTL

-----------------------------------------------------------------------------
(* The Retry-After of a request that is to be cancelled covers the wait     *)
(* that is left.                                                            *)
RetryInv == \A r \in Reqs : at[r] = "cancel" => due[r] - now <= retry[r] * Second

(* Rounding down to seconds and adding one is rounding up.                  *)
LEMMA RetryAfterCovers == \A delay \in Nat : delay <= RetryAfter(delay) * Second
<1>. SUFFICES ASSUME NEW delay \in Nat PROVE delay <= (delay \div Second + 1) * Second
  BY DEF RetryAfter
<1>1. Second \in Nat \ {0}
  BY LimiterAssumption
<1>2. delay \div Second \in Int /\ delay < Second * (delay \div Second + 1)
  BY <1>1
<1>. QED
  BY <1>1, <1>2

(* The wait that is left shrinks with the clock.                            *)
LEMMA RetryInvStep == RateInv /\ RetryInv /\ [LimiterNext]_lvars => RetryInv'
<1>. SUFFICES ASSUME RateInv, RetryInv, [LimiterNext]_lvars,
                     NEW r \in Reqs, at'[r] = "cancel"
              PROVE  due'[r] - now' <= retry'[r] * Second
  BY DEF RetryInv
<1>0. /\ now \in Nat /\ \A q \in Reqs : due[q] \in Nat /\ retry[q] \in Nat /\ retry[q] * Second \in Int
      /\ at \in [Reqs -> {"idle", "lookup", "reserve", "decide", "cancel", "granted", "denied"}]
      /\ due \in [Reqs -> Nat] /\ retry \in [Reqs -> Nat]
  BY LimiterAssumption DEF RateInv, LimiterTypeOK
<1>1. ASSUME UNCHANGED << due, retry >>, now' = now \/ now' = now + 1, at'[r] = at[r]
      PROVE  due'[r] - now' <= retry'[r] * Second
  BY <1>0, <1>1 DEF RetryInv
<1>2. ASSUME Advance \/ Sweep \/ UNCHANGED lvars PROVE due'[r] - now' <= retry'[r] * Second
  BY <1>1, <1>2 DEF Advance, Sweep, lvars, request
<1>3. ASSUME NEW q \in Reqs, (\E a \in Addrs : Arrive(q, a)) \/ limiterFor(q) \/ Grant(q) \/ Cancel(q)
      PROVE  due'[r] - now' <= retry'[r] * Second
  <2>1. UNCHANGED << due, retry, now >>
    BY <1>3 DEF Arrive, limiterFor, Grant, Cancel
  <2>2. at'[r] = at[r]
    BY <1>0, <1>3 DEF Arrive, limiterFor, Grant, Cancel
  <2>. QED
    BY <1>1, <2>1, <2>2
<1>4. ASSUME NEW q \in Reqs, Reserve(q) \/ Finish(q) PROVE due'[r] - now' <= retry'[r] * Second
  <2>1. q # r /\ at'[r] = at[r] /\ now' = now
    BY <1>0, <1>4 DEF Reserve, Finish
  <2>2. due'[r] = due[r] /\ retry'[r] = retry[r]
    BY <1>0, <1>4, <2>1 DEF Reserve, Finish
  <2>. QED
    BY <1>0, <2>1, <2>2 DEF RetryInv
<1>5. ASSUME NEW q \in Reqs, Postpone(q) PROVE due'[r] - now' <= retry'[r] * Second
  <2>1. CASE q # r
    <3>1. at'[r] = at[r] /\ retry'[r] = retry[r] /\ UNCHANGED << due, now >>
      BY <1>0, <1>5, <2>1 DEF Postpone
    <3>. QED
      BY <1>0, <3>1 DEF RetryInv
  <2>2. CASE q = r
    <3>1. due[r] > now /\ retry'[r] = RetryAfter(due[r] - now) /\ UNCHANGED << due, now >>
      BY <1>0, <1>5, <2>2 DEF Postpone
    <3>2. due[r] - now \in Nat
      BY <1>0, <3>1
    <3>. QED
      BY <3>1, <3>2, RetryAfterCovers
  <2>. QED
    BY <2>1, <2>2
<1>. QED
  BY <1>2, <1>3, <1>4, <1>5 DEF LimiterNext, Step

(* "so we can return a precise Retry-After" (ratelimit.go:72): whenever the *)
(* reservation is given back in full, the wait the client is told of ends   *)
(* with a token in its bucket, for any burst, rate and clock.               *)
THEOREM RetryAfterIsEnough == LimiterSpec => RetryAfterSuffices
<1>1. LimiterInit => RetryInv
  BY DEF LimiterInit, RetryInv
<1>2. RateInv /\ RetryInv /\ [LimiterNext]_lvars =>
        [\A r \in Reqs :
           (Cancel(r) /\ now <= due[r] /\ lastEvent[ip[r]] = due[r])
              => Balance(ip[r], now + retry[r] * Second)' >= Cost]_lvars
  <2>. SUFFICES ASSUME RateInv, RetryInv, NEW r \in Reqs,
                       Cancel(r), now <= due[r], lastEvent[ip[r]] = due[r]
                PROVE  Balance(ip[r], now + retry[r] * Second)' >= Cost
    OBVIOUS
  <2>. DEFINE a == ip[r]
              w == retry[r] * Second
  <2>1. /\ a \in Addrs /\ at[r] = "cancel" /\ now \in Nat /\ due[r] \in Nat /\ w \in Nat
        /\ tokens \in [Addrs -> Int] /\ last \in [Addrs -> Nat]
        /\ tokens[a] \in Int /\ last[a] \in Nat
    BY LimiterAssumption DEF RateInv, LimiterTypeOK, Cancel
  <2>2. Cost \in Nat \ {0} /\ Full \in Nat /\ Full >= Cost
    BY LimiterAssumption, FullType, CostTimes DEF Full
  <2>3. due[r] = last[a] - tokens[a]
    BY <2>1 DEF RateInv, LadderInv, Owed
  <2>4. due[r] - now <= w
    BY <2>1 DEF RetryInv
  <2>5. Balance(a, now) = now - due[r]
    BY <2>1, <2>2, <2>3 DEF Balance, AtMost
  <2>6. /\ tokens'[a] = AtMost(Balance(a, now) + Cost, Full) /\ last'[a] = now
        /\ ip' = ip /\ retry' = retry /\ now' = now
    BY <2>1, <2>2 DEF Cancel
  <2>7. Balance(ip[r], now + retry[r] * Second)' = AtMost(tokens'[a] + ((now + w) - last'[a]), Full)
    BY <2>6 DEF Balance
  <2>. HIDE DEF a, w
  <2>8. tokens'[a] \in Int /\ tokens'[a] >= Cost - w
    BY <2>1, <2>2, <2>4, <2>5, <2>6 DEF AtMost
  <2>. QED
    BY <2>1, <2>2, <2>6, <2>7, <2>8 DEF AtMost
<1>. QED
  BY <1>1, <1>2, RetryInvStep, RateInvInit, RateInvStep, PTL DEF LimiterSpec, RetryAfterSuffices

-----------------------------------------------------------------------------
(* The grammar of origins *)

(* The rest of a host's labels, in element and length. *)
LEMMA TailOf ==
    \A q \in Seq(STRING) : Len(q) > 1 =>
        Len(Tail(q)) = Len(q) - 1 /\ \A i \in 1 .. Len(q) - 1 : Tail(q)[i] = q[i + 1]
  OBVIOUS

(* What Parse keeps of a text it accepts, and what Match makes of it, is    *)
(* what the documented grammar says (origin.go:13-19, 94-96).               *)
THEOREM MatchIsTheGrammar ==
    \A s, o \in Origins : Parse(s).ok => (Match(Parse(s), o) <=> Admits(s, o))
<1>. SUFFICES ASSUME NEW s \in Origins, NEW o \in Origins, Parse(s).ok
              PROVE  Match(Parse(s), o) <=> Admits(s, o)
  OBVIOUS
<1>0. /\ s.host \in Seq(STRING) /\ o.host \in Seq(STRING) /\ Len(s.host) \in Nat \ {0} /\ Len(o.host) \in Nat \ {0}
      /\ s.user \in BOOLEAN /\ o.user \in BOOLEAN
      /\ s = [scheme |-> s.scheme, user |-> s.user, host |-> s.host]
      /\ o = [scheme |-> o.scheme, user |-> o.user, host |-> o.host]
  BY DEF Origins
<1>1. ~ s.user
  BY DEF Parse
<1>2. CASE s.host[1] = "*"
  <2>1. Len(s.host) > 1
    <3>. SUFFICES ASSUME ~ (Len(s.host) > 1) PROVE FALSE
      OBVIOUS
    <3>1. \A i \in 1 .. Len(s.host) : s.host[i] \notin Starred
      BY DEF Parse
    <3>2. 1 \in 1 .. Len(s.host) /\ "*" \in Starred
      BY <1>0 DEF Starred
    <3>. QED
      BY <1>2, <3>1, <3>2
  <2>2. Parse(s).wildcard /\ Parse(s).host = Tail(s.host) /\ Parse(s).scheme = s.scheme
    BY <1>2, <2>1 DEF Parse
  <2>3. ASSUME Match(Parse(s), o) PROVE Admits(s, o)
    <3>1. /\ o.scheme = s.scheme /\ ~ o.user /\ Len(o.host) > 1
          /\ o.host[1] \notin Starred \cup {""} /\ Tail(o.host) = Tail(s.host)
      BY <2>2, <2>3 DEF Match
    <3>2. o.host = [s.host EXCEPT ![1] = o.host[1]]
      <4>1. Len(o.host) = Len(s.host)
        <5>1. Len(Tail(o.host)) = Len(o.host) - 1 /\ Len(Tail(s.host)) = Len(s.host) - 1
          BY <1>0, <2>1, <3>1, TailOf, Zenon
        <5>2. Len(Tail(o.host)) = Len(Tail(s.host))
          BY <3>1
        <5>. QED
          BY <1>0, <5>1, <5>2
      <4>2. \A i \in 2 .. Len(s.host) : o.host[i] = s.host[i]
        <5>. TAKE i \in 2 .. Len(s.host)
        <5>1. i - 1 \in 1 .. Len(s.host) - 1 /\ (i - 1) + 1 = i
          BY <1>0
        <5>2. Tail(s.host)[i - 1] = s.host[i] /\ Tail(o.host)[i - 1] = o.host[i]
          BY <1>0, <2>1, <3>1, <4>1, <5>1, TailOf
        <5>. QED
          BY <3>1, <5>2
      <4>3. DOMAIN o.host = 1 .. Len(s.host) /\ DOMAIN s.host = 1 .. Len(s.host)
        BY <1>0, <4>1
      <4>. QED
        BY <1>0, <4>2, <4>3
    <3>3. o = [s EXCEPT !.host[1] = o.host[1]]
      BY <1>0, <1>1, <3>1, <3>2
    <3>. QED
      BY <1>2, <3>1, <3>3 DEF Admits
  <2>4. ASSUME Admits(s, o) PROVE Match(Parse(s), o)
    <3>1. ~ o.user /\ o.host[1] \notin Starred \cup {""} /\ o = [s EXCEPT !.host[1] = o.host[1]]
      BY <1>2, <2>4 DEF Admits
    <3>2. o.scheme = s.scheme /\ o.host = [s.host EXCEPT ![1] = o.host[1]]
      BY <1>0, <3>1
    <3>3. Len(o.host) > 1 /\ Tail(o.host) = Tail(s.host)
      BY <1>0, <2>1, <3>2
    <3>. QED
      BY <2>2, <3>1, <3>2, <3>3 DEF Match
  <2>. QED
    BY <2>3, <2>4
<1>3. CASE s.host[1] # "*"
  <2>1. ~ Parse(s).wildcard /\ Parse(s).host = s.host /\ Parse(s).scheme = s.scheme
    BY <1>3 DEF Parse
  <2>2. (o = s) <=> (o.scheme = s.scheme /\ o.host = s.host /\ ~ o.user)
    BY <1>0, <1>1
  <2>. QED
    BY <1>3, <2>1, <2>2 DEF Match, Admits
<1>. QED
  BY <1>2, <1>3

-----------------------------------------------------------------------------
(* The layers around the limiter *)

Stages == {"idle", "cors", "limit", "wait", "handler", "done"}

Ids == {"none", "client", "fresh"}

Responses == [code : Nat, allow : BOOLEAN, retry : Nat, id : Ids,
              log : Nat, logId : Ids, panicked : BOOLEAN]

ChainTypeOK ==
    /\ setup \in Setups
    /\ stage \in [Reqs -> Stages]
    /\ req \in [Reqs -> Requests]
    /\ resp \in [Reqs -> Responses]

(* CORS has something to say about r's request. *)
InForce(r) == CorsActive(setup.cors, setup.allowed) /\ req[r].origin # NoOrigin

Preflight(r) == InForce(r) /\ req[r].method = "OPTIONS"

(* The goroutine is in the limiter exactly while the chain waits for it,    *)
(* under the address the chain gave.                                        *)
InLimiter(r) ==
    /\ (at[r] # "idle") <=> (stage[r] = "wait")
    /\ stage[r] = "wait" => ip[r] = clientIP(req[r])

(* Nothing is written before the layer that answers, only requests that are *)
(* not preflights pass CORS, the headers are decided there once, and the    *)
(* answer is logged as it was sent.                                         *)
ResponseInv(r) ==
    /\ stage[r] = "cors" => ~ resp[r].allow
    /\ stage[r] \in {"cors", "limit", "wait", "handler"} => resp[r].code = 0 /\ resp[r].log = 0 /\ ~ resp[r].panicked
    /\ stage[r] \in {"limit", "wait", "handler"} => ~ Preflight(r)
    /\ stage[r] \in {"limit", "wait", "handler", "done"} =>
         (resp[r].allow <=> (InForce(r) /\ Matched(req[r].origin)))
    /\ stage[r] = "done" =>
         /\ resp[r].code # 0
         /\ resp[r].panicked => resp[r].log = 0
         /\ ~ resp[r].panicked => resp[r].log = resp[r].code /\ resp[r].logId = resp[r].id
         /\ Preflight(r) => resp[r].code = (IF resp[r].allow THEN 204 ELSE 403)

ChainInv == ChainTypeOK /\ \A r \in Reqs : InLimiter(r) /\ ResponseInv(r)

LEMMA WriteHeaderIs ==
    \A w \in Responses, c \in Nat : w.code = 0 =>
        /\ WriteHeader(w, c) \in Responses
        /\ WriteHeader(w, c).code = c
        /\ WriteHeader(w, c).allow <=> w.allow
        /\ WriteHeader(w, c).log = w.log
        /\ WriteHeader(w, c).panicked <=> w.panicked
<1>. TAKE w \in Responses, c \in Nat
<1>. HAVE w.code = 0
<1>1. WriteHeader(w, c) = [w EXCEPT !.code = c]
  BY DEF WriteHeader
<1>. QED
  BY <1>1 DEF Responses

LEMMA AccessLogIs ==
    \A w \in Responses :
        /\ AccessLog(w) \in Responses
        /\ AccessLog(w).code = w.code
        /\ AccessLog(w).allow <=> w.allow
        /\ AccessLog(w).log = w.code
        /\ AccessLog(w).logId = AccessLog(w).id
        /\ AccessLog(w).panicked <=> w.panicked
  BY DEF AccessLog, Responses

(* The headers, Retry-After and the mark of a panic, on their own. *)
LEMMA FieldsAre ==
    \A w \in Responses :
        /\ [w EXCEPT !.allow = TRUE] \in Responses
        /\ [w EXCEPT !.allow = TRUE].allow
        /\ [w EXCEPT !.allow = TRUE].code = w.code
        /\ [w EXCEPT !.allow = TRUE].log = w.log
        /\ [w EXCEPT !.allow = TRUE].panicked <=> w.panicked
        /\ [w EXCEPT !.panicked = TRUE] \in Responses
        /\ [w EXCEPT !.panicked = TRUE].panicked
        /\ [w EXCEPT !.panicked = TRUE].code = w.code
        /\ [w EXCEPT !.panicked = TRUE].log = w.log
        /\ [w EXCEPT !.panicked = TRUE].allow <=> w.allow
  BY DEF Responses

LEMMA RetryIs ==
    \A w \in Responses, n \in Nat :
        /\ [w EXCEPT !.retry = n] \in Responses
        /\ [w EXCEPT !.retry = n].code = w.code
        /\ [w EXCEPT !.retry = n].log = w.log
        /\ [w EXCEPT !.retry = n].allow <=> w.allow
        /\ [w EXCEPT !.retry = n].panicked <=> w.panicked
  BY DEF Responses

LEMMA NoRespIs ==
    /\ NoResp \in Responses /\ NoResp.code = 0 /\ NoResp.log = 0 /\ ~ NoResp.allow /\ ~ NoResp.panicked
    /\ \A i \in Ids : /\ [NoResp EXCEPT !.id = i] \in Responses
                         /\ [NoResp EXCEPT !.id = i].code = 0 /\ [NoResp EXCEPT !.id = i].log = 0
                         /\ ~ [NoResp EXCEPT !.id = i].allow /\ ~ [NoResp EXCEPT !.id = i].panicked
<1>1. /\ NoResp.code = 0 /\ NoResp.log = 0 /\ NoResp.allow = FALSE /\ NoResp.panicked = FALSE
  BY DEF NoResp
<1>2. NoResp \in Responses
  BY DEF NoResp, Responses, Ids
<1>3. ASSUME NEW w \in Responses, NEW i \in Ids
      PROVE  /\ [w EXCEPT !.id = i] \in Responses
             /\ [w EXCEPT !.id = i].code = w.code /\ [w EXCEPT !.id = i].log = w.log
             /\ [w EXCEPT !.id = i].allow = w.allow /\ [w EXCEPT !.id = i].panicked = w.panicked
  BY DEF Responses
<1>. QED
  BY <1>1, <1>2, <1>3

LEMMA NoReqIs == NoReq \in Requests
  BY PipelineAssumption DEF NoReq

LEMMA ClientHasAddress ==
    \A q \in Requests : clientIP(q) \in Addrs /\ (~ setup.trust => clientIP(q) = q.remote)
  BY PipelineAssumption DEF clientIP

LEMMA ChainInvInit == Init => ChainInv
<1>. SUFFICES ASSUME Init PROVE ChainInv
  OBVIOUS
<1>1. ChainTypeOK
  BY NoRespIs, NoReqIs DEF Init, ChainTypeOK, Stages
<1>2. \A r \in Reqs : stage[r] = "idle" /\ at[r] = "idle"
  BY DEF Init, LimiterInit
<1>. QED
  BY <1>1, <1>2 DEF ChainInv, InLimiter, ResponseInv

(* A request that is not touched keeps its invariant. *)
LEMMA Untouched ==
    ASSUME NEW r \in Reqs, InLimiter(r), ResponseInv(r), setup' = setup,
           stage'[r] = stage[r], req'[r] = req[r], resp'[r] = resp[r], at'[r] = at[r], ip'[r] = ip[r]
    PROVE  InLimiter(r)' /\ ResponseInv(r)'
<1>1. /\ InForce(r)' <=> InForce(r)
      /\ Preflight(r)' <=> Preflight(r)
      /\ Matched(req[r].origin)' <=> Matched(req[r].origin)
      /\ clientIP(req[r])' = clientIP(req[r])
  BY DEF InForce, Preflight, Matched, clientIP
<1>. QED
  BY <1>1 DEF InLimiter, ResponseInv

(* A step of one request. *)
LEMMA OneRequest ==
    ASSUME ChainInv, NEW r \in Reqs, NEW n \in Stages, NEW q \in Requests, NEW w \in Responses,
           setup' = setup, stage' = [stage EXCEPT ![r] = n],
           req' = [req EXCEPT ![r] = q], resp' = [resp EXCEPT ![r] = w],
           \A s \in Reqs \ {r} : at'[s] = at[s] /\ ip'[s] = ip[s],
           InLimiter(r)', ResponseInv(r)'
    PROVE  ChainInv'
<1>1. ChainTypeOK'
  BY DEF ChainInv, ChainTypeOK
<1>2. ASSUME NEW s \in Reqs PROVE InLimiter(s)' /\ ResponseInv(s)'
  <2>1. CASE s = r
    BY <2>1
  <2>2. CASE s # r
    <3>1. stage'[s] = stage[s] /\ req'[s] = req[s] /\ resp'[s] = resp[s] /\ at'[s] = at[s] /\ ip'[s] = ip[s]
      BY <2>2 DEF ChainInv, ChainTypeOK
    <3>. QED
      BY <3>1, Untouched DEF ChainInv
  <2>. QED
    BY <2>1, <2>2
<1>. QED
  BY <1>1, <1>2 DEF ChainInv

(* What r's part of the state is before and after a step that goes to n and *)
(* leaves its request alone.                                                *)
LEMMA GoesOn ==
    ASSUME ChainInv, NEW r \in Reqs, NEW n \in Stages, NEW w \in Responses,
           setup' = setup, Go(r, n), req' = req, resp' = [resp EXCEPT ![r] = w],
           \A s \in Reqs \ {r} : at'[s] = at[s] /\ ip'[s] = ip[s]
    PROVE  /\ stage'[r] = n /\ resp'[r] = w
           /\ InForce(r)' <=> InForce(r)
           /\ Preflight(r)' <=> Preflight(r)
           /\ Matched(req[r].origin)' <=> Matched(req[r].origin)
           /\ clientIP(req[r])' = clientIP(req[r])
           /\ InLimiter(r)' /\ ResponseInv(r)' => ChainInv'
<1>1. stage'[r] = n /\ resp'[r] = w /\ stage' = [stage EXCEPT ![r] = n]
  BY DEF ChainInv, ChainTypeOK, Go
<1>2. /\ InForce(r)' <=> InForce(r)
      /\ Preflight(r)' <=> Preflight(r)
      /\ Matched(req[r].origin)' <=> Matched(req[r].origin)
      /\ clientIP(req[r])' = clientIP(req[r])
  BY DEF InForce, Preflight, Matched, clientIP
<1>3. req[r] \in Requests /\ req' = [req EXCEPT ![r] = req[r]]
  BY DEF ChainInv, ChainTypeOK
<1>4. InLimiter(r)' /\ ResponseInv(r)' => ChainInv'
  BY <1>1, <1>3, OneRequest
<1>. QED
  BY <1>1, <1>2, <1>4

LEMMA StayResp ==
    ASSUME ChainInv, NEW r \in Reqs, resp' = resp
    PROVE  resp[r] \in Responses /\ resp' = [resp EXCEPT ![r] = resp[r]]
  BY DEF ChainInv, ChainTypeOK

LEMMA AcceptKeeps ==
    ASSUME ChainInv, NEW r \in Reqs, NEW q \in Requests, Accept(r, q)
    PROVE  ChainInv'
<1>. DEFINE i == IF q.idValid THEN "client" ELSE "fresh"
            w == [NoResp EXCEPT !.id = i]
<1>1. i \in Ids
  BY DEF Ids
<1>. HIDE DEF i
<1>2. w \in Responses /\ w.code = 0 /\ w.log = 0 /\ ~ w.allow /\ ~ w.panicked
  BY <1>1, NoRespIs
<1>3. resp' = [resp EXCEPT ![r] = w] /\ req' = [req EXCEPT ![r] = q] /\ stage' = [stage EXCEPT ![r] = "cors"]
  BY DEF Accept, Go, i
<1>. HIDE DEF w
<1>4. stage'[r] = "cors" /\ resp'[r] = w /\ stage[r] = "idle" /\ at' = at /\ ip' = ip /\ setup' = setup
  BY <1>3 DEF Accept, ChainInv, ChainTypeOK, lvars, request
<1>5. InLimiter(r)'
  BY <1>4 DEF ChainInv, InLimiter
<1>6. ResponseInv(r)'
  BY <1>2, <1>4 DEF ResponseInv
<1>7. "cors" \in Stages
  BY DEF Stages
<1>. QED
  BY <1>2, <1>3, <1>4, <1>5, <1>6, <1>7, OneRequest

LEMMA CorsKeeps ==
    ASSUME ChainInv, NEW r \in Reqs, Cors(r)
    PROVE  ChainInv'
<1>. DEFINE o == req[r].origin
            h == [resp[r] EXCEPT !.allow = TRUE]
<1>0. /\ setup' = setup /\ req' = req /\ at' = at /\ ip' = ip /\ stage[r] = "cors" /\ at[r] = "idle"
      /\ resp[r] \in Responses /\ resp[r].code = 0 /\ resp[r].log = 0 /\ ~ resp[r].allow /\ ~ resp[r].panicked
  BY DEF Cors, lvars, request, ChainInv, ChainTypeOK, InLimiter, ResponseInv
<1>1. "limit" \in Stages /\ "done" \in Stages /\ 204 \in Nat /\ 403 \in Nat
  BY DEF Stages
<1>2. /\ h \in Responses /\ h.code = 0 /\ h.log = 0 /\ h.allow /\ ~ h.panicked
  BY <1>0, FieldsAre
<1>3. CASE ~ InForce(r)
  <2>1. Go(r, "limit") /\ resp' = resp
    BY <1>3 DEF Cors, InForce
  <2>2. resp' = [resp EXCEPT ![r] = resp[r]]
    BY <2>1, StayResp
  <2>3. stage'[r] = "limit" /\ resp'[r] = resp[r] /\ ~ InForce(r)' /\ ~ Preflight(r)'
    BY <1>0, <1>1, <1>3, <2>1, <2>2, GoesOn DEF Preflight
  <2>4. InLimiter(r)' /\ ResponseInv(r)'
    BY <1>0, <2>3 DEF InLimiter, ResponseInv
  <2>. QED
    BY <1>0, <1>1, <2>1, <2>2, <2>4, GoesOn
<1>4. CASE InForce(r) /\ Matched(o) /\ req[r].method = "OPTIONS"
  <2>. DEFINE w == AccessLog(WriteHeader(h, 204))
  <2>1. Go(r, "done") /\ resp' = [resp EXCEPT ![r] = w]
    BY <1>4 DEF Cors, InForce, Respond
  <2>. HIDE DEF h
  <2>2. /\ WriteHeader(h, 204) \in Responses /\ WriteHeader(h, 204).code = 204
        /\ WriteHeader(h, 204).allow /\ ~ WriteHeader(h, 204).panicked
    BY <1>1, <1>2, WriteHeaderIs
  <2>3. w \in Responses /\ w.code = 204 /\ w.allow /\ w.log = 204 /\ w.logId = w.id /\ ~ w.panicked
    BY <2>2, AccessLogIs
  <2>. HIDE DEF w
  <2>4. Preflight(r)
    BY <1>4 DEF Preflight
  <2>5. stage'[r] = "done" /\ resp'[r] = w /\ InForce(r)' /\ Preflight(r)' /\ Matched(o)'
    <3>1. /\ stage'[r] = "done" /\ resp'[r] = w
          /\ InForce(r)' <=> InForce(r)
          /\ Preflight(r)' <=> Preflight(r)
          /\ Matched(o)' <=> Matched(o)
      <4>1. setup' = setup /\ req' = req /\ at' = at /\ ip' = ip /\ "done" \in Stages /\ w \in Responses
        BY <1>0, <1>1, <2>3
      <4>. QED
        BY <2>1, <4>1, GoesOn
    <3>. QED
      BY <1>4, <2>4, <3>1
  <2>6. InLimiter(r)' /\ ResponseInv(r)'
    BY <1>0, <2>3, <2>5 DEF InLimiter, ResponseInv
  <2>. QED
    BY <1>0, <1>1, <2>1, <2>3, <2>6, GoesOn
<1>5. CASE InForce(r) /\ Matched(o) /\ req[r].method # "OPTIONS"
  <2>1. Go(r, "limit") /\ resp' = [resp EXCEPT ![r] = h]
    BY <1>5 DEF Cors, InForce
  <2>. HIDE DEF h
  <2>2. stage'[r] = "limit" /\ resp'[r] = h /\ InForce(r)' /\ ~ Preflight(r)' /\ Matched(o)'
    BY <1>0, <1>1, <1>2, <1>5, <2>1, GoesOn DEF Preflight
  <2>3. InLimiter(r)' /\ ResponseInv(r)'
    BY <1>0, <1>2, <2>2 DEF InLimiter, ResponseInv
  <2>. QED
    BY <1>0, <1>1, <1>2, <2>1, <2>3, GoesOn
<1>6. CASE InForce(r) /\ ~ Matched(o) /\ req[r].method = "OPTIONS"
  <2>. DEFINE w == AccessLog(WriteHeader(resp[r], 403))
  <2>1. Go(r, "done") /\ resp' = [resp EXCEPT ![r] = w]
    BY <1>6 DEF Cors, InForce, Respond
  <2>2. /\ WriteHeader(resp[r], 403) \in Responses /\ WriteHeader(resp[r], 403).code = 403
        /\ ~ WriteHeader(resp[r], 403).allow /\ ~ WriteHeader(resp[r], 403).panicked
    BY <1>0, <1>1, WriteHeaderIs
  <2>3. w \in Responses /\ w.code = 403 /\ ~ w.allow /\ w.log = 403 /\ w.logId = w.id /\ ~ w.panicked
    BY <2>2, AccessLogIs
  <2>. HIDE DEF w
  <2>4. Preflight(r)
    BY <1>6 DEF Preflight
  <2>5. stage'[r] = "done" /\ resp'[r] = w /\ InForce(r)' /\ Preflight(r)' /\ ~ Matched(o)'
    <3>1. /\ stage'[r] = "done" /\ resp'[r] = w
          /\ InForce(r)' <=> InForce(r)
          /\ Preflight(r)' <=> Preflight(r)
          /\ Matched(o)' <=> Matched(o)
      <4>1. setup' = setup /\ req' = req /\ at' = at /\ ip' = ip /\ "done" \in Stages /\ w \in Responses
        BY <1>0, <1>1, <2>3
      <4>. QED
        BY <2>1, <4>1, GoesOn
    <3>. QED
      BY <1>6, <2>4, <3>1
  <2>6. InLimiter(r)' /\ ResponseInv(r)'
    BY <1>0, <2>3, <2>5 DEF InLimiter, ResponseInv
  <2>. QED
    BY <1>0, <1>1, <2>1, <2>3, <2>6, GoesOn
<1>7. CASE InForce(r) /\ ~ Matched(o) /\ req[r].method # "OPTIONS"
  <2>1. Go(r, "limit") /\ resp' = resp
    BY <1>7 DEF Cors, InForce
  <2>2. resp' = [resp EXCEPT ![r] = resp[r]]
    BY <2>1, StayResp
  <2>3. stage'[r] = "limit" /\ resp'[r] = resp[r] /\ ~ Matched(o)' /\ ~ Preflight(r)'
    BY <1>0, <1>1, <1>7, <2>1, <2>2, GoesOn DEF Preflight
  <2>4. InLimiter(r)' /\ ResponseInv(r)'
    BY <1>0, <2>3 DEF InLimiter, ResponseInv
  <2>. QED
    BY <1>0, <1>1, <2>1, <2>2, <2>4, GoesOn
<1>. QED
  BY <1>3, <1>4, <1>5, <1>6, <1>7

(* Behind CORS a request moves on with nothing written ... *)
LEMMA MovesOn ==
    ASSUME ChainInv, NEW r \in Reqs, NEW n \in {"wait", "handler"},
           stage[r] \in {"limit", "wait", "handler"},
           setup' = setup, Go(r, n), req' = req, resp' = resp,
           \A s \in Reqs \ {r} : at'[s] = at[s] /\ ip'[s] = ip[s],
           (at'[r] # "idle") <=> (n = "wait"), n = "wait" => ip'[r] = clientIP(req[r])
    PROVE  ChainInv'
<1>0. n \in Stages
  BY DEF Stages
<1>1. resp[r] \in Responses /\ resp' = [resp EXCEPT ![r] = resp[r]]
  BY StayResp
<1>2. /\ stage'[r] = n /\ resp'[r] = resp[r]
      /\ InForce(r)' <=> InForce(r)
      /\ Preflight(r)' <=> Preflight(r)
      /\ Matched(req[r].origin)' <=> Matched(req[r].origin)
      /\ clientIP(req[r])' = clientIP(req[r])
      /\ InLimiter(r)' /\ ResponseInv(r)' => ChainInv'
  BY <1>0, <1>1, GoesOn
<1>3. InLimiter(r)'
  BY <1>2 DEF InLimiter
<1>4. ResponseInv(r)'
  BY <1>2 DEF ChainInv, ResponseInv
<1>. QED
  BY <1>2, <1>3, <1>4

(* ... until it is answered, with the headers CORS decided on. *)
LEMMA Answers ==
    ASSUME ChainInv, NEW r \in Reqs, NEW w \in Responses,
           stage[r] \in {"limit", "wait", "handler"},
           setup' = setup, Go(r, "done"), req' = req, resp' = [resp EXCEPT ![r] = w],
           \A s \in Reqs \ {r} : at'[s] = at[s] /\ ip'[s] = ip[s], at'[r] = "idle",
           w.code # 0, w.allow <=> resp[r].allow, w.panicked => w.log = 0,
           ~ w.panicked => w.log = w.code /\ w.logId = w.id
    PROVE  ChainInv'
<1>0. "done" \in Stages
  BY DEF Stages
<1>1. /\ stage'[r] = "done" /\ resp'[r] = w
      /\ InForce(r)' <=> InForce(r)
      /\ Preflight(r)' <=> Preflight(r)
      /\ Matched(req[r].origin)' <=> Matched(req[r].origin)
      /\ InLimiter(r)' /\ ResponseInv(r)' => ChainInv'
  BY <1>0, GoesOn
<1>2. InLimiter(r)'
  BY <1>1 DEF InLimiter
<1>3. ~ Preflight(r) /\ (resp[r].allow <=> (InForce(r) /\ Matched(req[r].origin)))
  BY DEF ChainInv, ResponseInv
<1>4. ResponseInv(r)'
  BY <1>1, <1>3 DEF ResponseInv
<1>. QED
  BY <1>1, <1>2, <1>4

LEMMA EnterLimiterKeeps ==
    ASSUME ChainInv, LimiterTypeOK, NEW r \in Reqs, EnterLimiter(r)
    PROVE  ChainInv'
<1>0. setup' = setup /\ req' = req /\ resp' = resp /\ stage[r] = "limit" /\ at[r] = "idle"
  BY DEF EnterLimiter, ChainInv, InLimiter
<1>1. CASE Arrive(r, clientIP(req[r])) /\ Go(r, "wait")
  <2>1. /\ at'[r] = "lookup" /\ ip'[r] = clientIP(req[r])
        /\ \A s \in Reqs \ {r} : at'[s] = at[s] /\ ip'[s] = ip[s]
    BY <1>1 DEF Arrive, LimiterTypeOK
  <2>. QED
    BY <1>0, <1>1, <2>1, MovesOn
<1>2. CASE Go(r, "handler") /\ UNCHANGED lvars
  BY <1>0, <1>2, MovesOn DEF lvars, request
<1>. QED
  BY <1>1, <1>2 DEF EnterLimiter

(* Steps that are the limiter's alone. *)
LEMMA LimiterOnly ==
    ASSUME ChainInv, UNCHANGED << setup, chain >>,
           \A r \in Reqs : ip'[r] = ip[r] /\ (at'[r] = "idle" <=> at[r] = "idle")
    PROVE  ChainInv'
<1>1. ChainTypeOK'
  BY DEF ChainInv, ChainTypeOK, chain
<1>2. ASSUME NEW r \in Reqs PROVE InLimiter(r)' /\ ResponseInv(r)'
  <2>1. /\ InForce(r)' <=> InForce(r)
        /\ Preflight(r)' <=> Preflight(r)
        /\ Matched(req[r].origin)' <=> Matched(req[r].origin)
        /\ clientIP(req[r])' = clientIP(req[r])
    BY DEF InForce, Preflight, Matched, clientIP, chain
  <2>2. stage' = stage /\ resp' = resp /\ InLimiter(r) /\ ResponseInv(r)
    BY DEF chain, ChainInv
  <2>3. InLimiter(r)'
    BY <2>1, <2>2 DEF InLimiter
  <2>4. ResponseInv(r)'
    BY <2>1, <2>2 DEF ResponseInv
  <2>. QED
    BY <2>3, <2>4
<1>. QED
  BY <1>1, <1>2 DEF ChainInv

LEMMA LimiterStepKeeps ==
    ASSUME ChainInv, LimiterTypeOK, NEW r \in Reqs, LimiterStep(r)
    PROVE  ChainInv'
<1>1. UNCHANGED << setup, chain >> /\ ip' = ip
  BY DEF LimiterStep, Step, limiterFor, Reserve, Grant, Postpone, Cancel
<1>2. PICK n \in {"reserve", "decide", "granted", "cancel", "denied"} : at[r] # "idle" /\ at' = [at EXCEPT ![r] = n]
  BY DEF LimiterStep, Step, limiterFor, Reserve, Grant, Postpone, Cancel
<1>3. \A s \in Reqs : ip'[s] = ip[s] /\ (at'[s] = "idle" <=> at[s] = "idle")
  BY <1>1, <1>2 DEF LimiterTypeOK
<1>. QED
  BY <1>1, <1>3, LimiterOnly

LEMMA Finished ==
    ASSUME LimiterTypeOK, NEW r \in Reqs, Finish(r)
    PROVE  at'[r] = "idle" /\ \A s \in Reqs \ {r} : at'[s] = at[s] /\ ip'[s] = ip[s]
  BY DEF LimiterTypeOK, Finish

LEMMA PassKeeps ==
    ASSUME ChainInv, LimiterTypeOK, NEW r \in Reqs, Pass(r)
    PROVE  ChainInv'
<1>1. setup' = setup /\ req' = req /\ resp' = resp /\ Go(r, "handler") /\ Finish(r) /\ stage[r] = "wait"
  BY DEF Pass, ChainInv, InLimiter
<1>. QED
  BY <1>1, Finished, MovesOn

LEMMA DenyKeeps ==
    ASSUME ChainInv, LimiterTypeOK, NEW r \in Reqs, Deny(r)
    PROVE  ChainInv'
<1>. DEFINE v == [resp[r] EXCEPT !.retry = retry[r]]
            w == AccessLog(WriteHeader(v, 429))
<1>1. /\ setup' = setup /\ req' = req /\ Go(r, "done") /\ resp' = [resp EXCEPT ![r] = w]
      /\ Finish(r) /\ stage[r] = "wait"
  BY DEF Deny, Respond, ChainInv, InLimiter
<1>2. resp[r] \in Responses /\ resp[r].code = 0 /\ ~ resp[r].panicked /\ retry[r] \in Nat /\ 429 \in Nat
  BY <1>1 DEF ChainInv, ChainTypeOK, ResponseInv, LimiterTypeOK
<1>3. v \in Responses /\ v.code = 0 /\ ~ v.panicked /\ (v.allow <=> resp[r].allow)
  BY <1>2, RetryIs
<1>. HIDE DEF v
<1>4. /\ WriteHeader(v, 429) \in Responses /\ WriteHeader(v, 429).code = 429
      /\ ~ WriteHeader(v, 429).panicked /\ (WriteHeader(v, 429).allow <=> resp[r].allow)
  BY <1>2, <1>3, WriteHeaderIs
<1>5. /\ w \in Responses /\ w.code = 429 /\ ~ w.panicked /\ (w.allow <=> resp[r].allow)
      /\ w.log = w.code /\ w.logId = w.id
  BY <1>4, AccessLogIs
<1>. HIDE DEF w
<1>6. w.code # 0
  BY <1>5
<1>. QED
  BY <1>1, <1>5, <1>6, Finished, Answers

LEMMA HandleKeeps ==
    ASSUME ChainInv, NEW r \in Reqs, Handle(r)
    PROVE  ChainInv'
<1>. DEFINE c == IF req[r].method = "GET" THEN 200 ELSE 405
            w == AccessLog(WriteHeader(resp[r], c))
<1>1. /\ setup' = setup /\ req' = req /\ Go(r, "done") /\ resp' = [resp EXCEPT ![r] = w]
      /\ at' = at /\ ip' = ip /\ stage[r] = "handler" /\ at[r] = "idle"
  BY DEF Handle, Respond, ChainInv, InLimiter, lvars, request
<1>2. c \in Nat /\ c # 0
  OBVIOUS
<1>. HIDE DEF c
<1>3. resp[r] \in Responses /\ resp[r].code = 0 /\ ~ resp[r].panicked
  BY <1>1 DEF ChainInv, ChainTypeOK, ResponseInv
<1>4. /\ WriteHeader(resp[r], c) \in Responses /\ WriteHeader(resp[r], c).code = c
      /\ ~ WriteHeader(resp[r], c).panicked /\ (WriteHeader(resp[r], c).allow <=> resp[r].allow)
  BY <1>2, <1>3, WriteHeaderIs
<1>5. /\ w \in Responses /\ w.code = c /\ ~ w.panicked /\ (w.allow <=> resp[r].allow)
      /\ w.log = w.code /\ w.logId = w.id
  BY <1>4, AccessLogIs
<1>. HIDE DEF w
<1>6. w.code # 0
  BY <1>2, <1>5
<1>. QED
  BY <1>1, <1>5, <1>6, Answers

LEMMA HandlerPanicsKeeps ==
    ASSUME ChainInv, NEW r \in Reqs, NEW written \in BOOLEAN, HandlerPanics(r, written)
    PROVE  ChainInv'
<1>. DEFINE v == WriteHeader(IF written THEN WriteHeader(resp[r], 200) ELSE resp[r], 500)
            w == [v EXCEPT !.panicked = TRUE]
<1>1. /\ setup' = setup /\ req' = req /\ Go(r, "done") /\ resp' = [resp EXCEPT ![r] = w]
      /\ at' = at /\ ip' = ip /\ stage[r] = "handler" /\ at[r] = "idle"
  BY DEF HandlerPanics, ChainInv, InLimiter, lvars, request
<1>2. resp[r] \in Responses /\ resp[r].code = 0 /\ resp[r].log = 0 /\ 200 \in Nat /\ 500 \in Nat
  BY <1>1 DEF ChainInv, ChainTypeOK, ResponseInv
<1>3. v \in Responses /\ v.code # 0 /\ v.log = 0 /\ (v.allow <=> resp[r].allow)
  <2>1. CASE written
    <3>1. /\ WriteHeader(resp[r], 200) \in Responses /\ WriteHeader(resp[r], 200).code = 200
          /\ WriteHeader(resp[r], 200).log = 0 /\ (WriteHeader(resp[r], 200).allow <=> resp[r].allow)
      BY <1>2, WriteHeaderIs
    <3>2. WriteHeader(WriteHeader(resp[r], 200), 500) = WriteHeader(resp[r], 200)
      BY <3>1 DEF WriteHeader
    <3>3. v = WriteHeader(resp[r], 200)
      BY <2>1, <3>2
    <3>. QED
      BY <3>1, <3>3
  <2>2. CASE ~ written
    <3>1. v = WriteHeader(resp[r], 500)
      BY <2>2
    <3>2. /\ WriteHeader(resp[r], 500) \in Responses /\ WriteHeader(resp[r], 500).code = 500
          /\ WriteHeader(resp[r], 500).log = 0 /\ (WriteHeader(resp[r], 500).allow <=> resp[r].allow)
      BY <1>2, WriteHeaderIs
    <3>. QED
      BY <3>1, <3>2
  <2>. QED
    BY <2>1, <2>2
<1>. HIDE DEF v
<1>4. w \in Responses /\ w.code # 0 /\ w.panicked /\ w.log = 0 /\ (w.allow <=> resp[r].allow)
  BY <1>3, FieldsAre
<1>. HIDE DEF w
<1>. QED
  BY <1>1, <1>4, Answers

LEMMA HangupKeeps ==
    ASSUME ChainInv, NEW r \in Reqs, Hangup(r)
    PROVE  ChainInv'
<1>1. /\ setup' = setup /\ req' = [req EXCEPT ![r] = NoReq] /\ resp' = [resp EXCEPT ![r] = NoResp]
      /\ stage' = [stage EXCEPT ![r] = "idle"] /\ stage'[r] = "idle"
      /\ at' = at /\ ip' = ip /\ at[r] = "idle"
  BY DEF Hangup, Go, ChainInv, ChainTypeOK, InLimiter, lvars, request
<1>2. InLimiter(r)' /\ ResponseInv(r)'
  BY <1>1 DEF InLimiter, ResponseInv
<1>3. "idle" \in Stages /\ NoReq \in Requests /\ NoResp \in Responses
  BY NoReqIs, NoRespIs DEF Stages
<1>. QED
  BY <1>1, <1>2, <1>3, OneRequest

LEMMA ChainInvStep == ChainInv /\ LimiterTypeOK /\ [Next]_vars => ChainInv'
<1>. SUFFICES ASSUME ChainInv, LimiterTypeOK, [Next]_vars PROVE ChainInv'
  OBVIOUS
<1>1. CASE (Advance \/ Sweep) /\ UNCHANGED << setup, chain >>
  BY <1>1, LimiterOnly DEF Advance, Sweep, request
<1>2. ASSUME NEW r \in Reqs, NEW q \in Requests, Accept(r, q) PROVE ChainInv'
  BY <1>2, AcceptKeeps
<1>3. ASSUME NEW r \in Reqs, Serve(r) PROVE ChainInv'
  BY <1>3, CorsKeeps, EnterLimiterKeeps, LimiterStepKeeps, PassKeeps, DenyKeeps,
     HandleKeeps, HandlerPanicsKeeps DEF Serve
<1>4. ASSUME NEW r \in Reqs, Hangup(r) PROVE ChainInv'
  BY <1>4, HangupKeeps
<1>5. CASE UNCHANGED vars
  BY <1>5, LimiterOnly DEF vars, lvars, request
<1>. QED
  BY <1>1, <1>2, <1>3, <1>4, <1>5 DEF Next

(* Every step of the chain is a step of the limiter or none of its          *)
(* business: the address it is entered with is one.                         *)
LEMMA LimiterSees == ChainInv /\ [Next]_vars => [LimiterNext]_lvars
<1>. SUFFICES ASSUME ChainInv, [Next]_vars PROVE LimiterNext \/ UNCHANGED lvars
  OBVIOUS
<1>1. CASE (Advance \/ Sweep) /\ UNCHANGED << setup, chain >>
  BY <1>1 DEF LimiterNext
<1>2. ASSUME NEW r \in Reqs, NEW q \in Requests, Accept(r, q) PROVE UNCHANGED lvars
  BY <1>2 DEF Accept
<1>3. ASSUME NEW r \in Reqs, EnterLimiter(r) PROVE LimiterNext \/ UNCHANGED lvars
  <2>1. clientIP(req[r]) \in Addrs
    BY ClientHasAddress DEF ChainInv, ChainTypeOK
  <2>. QED
    BY <1>3, <2>1 DEF EnterLimiter, LimiterNext
<1>4. ASSUME NEW r \in Reqs, LimiterStep(r) \/ Pass(r) \/ Deny(r) PROVE LimiterNext
  BY <1>4 DEF LimiterStep, Pass, Deny, LimiterNext
<1>5. ASSUME NEW r \in Reqs, Cors(r) \/ Handle(r) \/ Hangup(r) PROVE UNCHANGED lvars
  BY <1>5 DEF Cors, Handle, Hangup
<1>6. ASSUME NEW r \in Reqs, NEW written \in BOOLEAN, HandlerPanics(r, written) PROVE UNCHANGED lvars
  BY <1>6 DEF HandlerPanics
<1>7. CASE UNCHANGED vars
  BY <1>7 DEF vars
<1>. QED
  BY <1>1, <1>2, <1>3, <1>4, <1>5, <1>6, <1>7 DEF Next, Serve

(* The chain's and the limiter's inductive invariants hold together. *)
THEOREM ChainInvariant == Spec => [](ChainInv /\ RateInv)
<1>1. Init => ChainInv /\ RateInv
  BY ChainInvInit, RateInvInit DEF Init
<1>2. ChainInv /\ RateInv /\ [Next]_vars => (ChainInv /\ RateInv)'
  BY ChainInvStep, LimiterSees, RateInvStep DEF RateInv
<1>. QED
  BY <1>1, <1>2, PTL DEF Spec

(* The chain uses the limiter as RateLimiter describes it, so the limiter's *)
(* theorems hold of the chain.                                              *)
THEOREM ChainUsesLimiter == Spec => LimiterSpec
<1>1. Init => LimiterInit
  BY DEF Init
<1>2. ChainInv /\ [Next]_vars => [LimiterNext]_lvars
  BY LimiterSees
<1>. QED
  BY <1>1, <1>2, ChainInvariant, PTL DEF Spec, LimiterSpec

(* Inside the chain too the limiter grants no client more than its rate and *)
(* the bursts of its buckets, whatever preflights and panics do around it.  *)
THEOREM ChainStaysWithinRate == Spec => []GrantsWithinRate
  BY ChainUsesLimiter, GrantsAreBounded, PTL

(* "Retry-After" means the same at the end of the chain. *)
THEOREM ChainRetryAfterIsEnough == Spec => RetryAfterSuffices
  BY ChainUsesLimiter, RetryAfterIsEnough, PTL

(* With CORS in force a preflight never gets into the limiter, and is       *)
(* answered 204 or 403.                                                     *)
THEOREM PreflightsAreFree == Spec => []PreflightNeverCharged
<1>1. ChainInv => PreflightNeverCharged
  BY DEF ChainInv, PreflightNeverCharged, ResponseInv, Preflight, InForce
<1>. QED
  BY <1>1, ChainInvariant, PTL

(* Every request is answered; one whose handler did not panic has its line  *)
(* in the access log; and a line's status and id are those the client got.  *)
THEOREM LogIsTheAnswer == Spec => []LogMatchesAnswer
<1>1. ChainInv => LogMatchesAnswer
  BY DEF ChainInv, LogMatchesAnswer, ResponseInv
<1>. QED
  BY <1>1, ChainInvariant, PTL

(* For one admitted origin, some pattern of the list matches exactly when   *)
(* some text of it admits the origin.                                       *)
LEMMA MatchedIsAdmitted ==
    ASSUME ChainTypeOK, NEW o \in Origins, setup.cors
    PROVE  Matched(o) <=> \E i \in 1 .. Len(setup.allowed) : Admits(setup.allowed[i], o)
<1>1. /\ \A i \in 1 .. Len(setup.allowed) : setup.allowed[i] \in Origins /\ Parse(setup.allowed[i]).ok
  <2>1. setup.allowed \in Seq(Origins) /\ \A i \in 1 .. Len(setup.allowed) : Parse(setup.allowed[i]).ok
    BY PipelineAssumption DEF ChainTypeOK
  <2>. QED
    BY <2>1
<1>2. \A i \in 1 .. Len(setup.allowed) :
        Match(Parse(setup.allowed[i]), o) <=> Admits(setup.allowed[i], o)
  BY <1>1, MatchIsTheGrammar
<1>3. Matched(o) <=> \E i \in 1 .. Len(setup.allowed) : Match(Parse(setup.allowed[i]), o)
  BY <1>1, Zenon DEF Matched, Patterns
<1>. QED
  BY <1>2, <1>3

(* The headers are on exactly the answers to admitted origins. *)
THEOREM HeadersAreExact == Spec => []CorsHeadersExact
<1>1. ChainInv => CorsHeadersExact
  <2>. SUFFICES ASSUME ChainInv, NEW r \in Reqs, stage[r] = "done"
                PROVE  resp[r].allow <=>
                         /\ setup.cors /\ req[r].origin # NoOrigin
                         /\ \E i \in 1 .. Len(setup.allowed) : Admits(setup.allowed[i], req[r].origin)
    BY DEF CorsHeadersExact
  <2>1. resp[r].allow <=> (InForce(r) /\ Matched(req[r].origin))
    BY DEF ChainInv, ResponseInv
  <2>2. req[r].origin \in Origins
    BY PipelineAssumption DEF ChainInv, ChainTypeOK
  <2>3. (InForce(r) /\ Matched(req[r].origin)) <=> (setup.cors /\ req[r].origin # NoOrigin /\ Matched(req[r].origin))
    BY Zenon DEF InForce, CorsActive, Matched
  <2>4. setup.cors => (Matched(req[r].origin)
                         <=> \E i \in 1 .. Len(setup.allowed) : Admits(setup.allowed[i], req[r].origin))
    BY <2>2, MatchedIsAdmitted DEF ChainInv
  <2>. QED
    BY <2>1, <2>3, <2>4
<1>. QED
  BY <1>1, ChainInvariant, PTL

(* Without trusted proxies only its peer's bucket is drawn from. *)
PeerInv ==
    (~ setup.trust /\ \A q \in Requests, s \in Requests : q.remote = s.remote)
        => \A q \in Requests : \A a \in Addrs : a # q.remote => granted[a] = 0

LEMMA PeerInvStep == PeerInv /\ ChainInv /\ LimiterTypeOK /\ [Next]_vars => PeerInv'
<1>. SUFFICES ASSUME PeerInv, ChainInv, LimiterTypeOK, [Next]_vars PROVE PeerInv'
  OBVIOUS
<1>1. ASSUME granted' = granted, setup' = setup PROVE PeerInv'
  BY <1>1 DEF PeerInv
<1>2. ASSUME NEW r \in Reqs, Grant(r), setup' = setup PROVE PeerInv'
  <2>1. granted' = [granted EXCEPT ![ip[r]] = @ + 1] /\ ip[r] = clientIP(req[r]) /\ req[r] \in Requests
    BY <1>2 DEF Grant, ChainInv, ChainTypeOK, InLimiter
  <2>2. ~ setup.trust => ip[r] = req[r].remote
    BY <2>1, ClientHasAddress
  <2>. QED
    BY <1>2, <2>1, <2>2 DEF PeerInv, LimiterTypeOK
<1>3. CASE (Advance \/ Sweep) /\ UNCHANGED << setup, chain >>
  BY <1>1, <1>3 DEF Advance, Sweep, history
<1>4. ASSUME NEW r \in Reqs, NEW q \in Requests, Accept(r, q) PROVE PeerInv'
  BY <1>1, <1>4 DEF Accept, lvars, history
<1>5. ASSUME NEW r \in Reqs, EnterLimiter(r) PROVE PeerInv'
  BY <1>1, <1>5 DEF EnterLimiter, Arrive, lvars, history
<1>6. ASSUME NEW r \in Reqs, LimiterStep(r) PROVE PeerInv'
  BY <1>1, <1>2, <1>6 DEF LimiterStep, Step, limiterFor, Reserve, Postpone, Cancel, history
<1>7. ASSUME NEW r \in Reqs, Pass(r) \/ Deny(r) PROVE PeerInv'
  BY <1>1, <1>7 DEF Pass, Deny, Finish, history
<1>8. ASSUME NEW r \in Reqs, Cors(r) \/ Handle(r) \/ Hangup(r) PROVE PeerInv'
  BY <1>1, <1>8 DEF Cors, Handle, Hangup, lvars, history
<1>9. ASSUME NEW r \in Reqs, NEW written \in BOOLEAN, HandlerPanics(r, written) PROVE PeerInv'
  BY <1>1, <1>9 DEF HandlerPanics, lvars, history
<1>10. CASE UNCHANGED vars
  BY <1>1, <1>10 DEF vars, lvars, history
<1>. QED
  BY <1>3, <1>4, <1>5, <1>6, <1>7, <1>8, <1>9, <1>10 DEF Next, Serve

(* One peer gets what one bucket allows, and nobody else's bucket is        *)
(* touched for it, whatever headers it sends.                               *)
THEOREM PeersKeepTheirBucket == Spec => []OnePeerOneBucket
<1>1. Init => PeerInv
  BY DEF Init, LimiterInit, PeerInv
<1>2. PeerInv /\ (ChainInv /\ RateInv) /\ [Next]_vars => PeerInv'
  BY PeerInvStep DEF RateInv
<1>3. PeerInv /\ GrantsWithinRate => OnePeerOneBucket
  BY PipelineAssumption DEF PeerInv, GrantsWithinRate, OnePeerOneBucket
<1>4. Spec => []GrantsWithinRate
  BY ChainUsesLimiter, GrantsAreBounded, PTL
<1>. QED
  BY <1>1, <1>2, <1>3, <1>4, ChainInvariant, PTL DEF Spec
=============================================================================
