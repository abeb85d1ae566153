---------------------------- MODULE RateLimiter ----------------------------
(***************************************************************************)
(* internal/middleware/ratelimit.go: a token bucket per client address, on  *)
(* top of golang.org/x/time/rate (external).  A request looks its bucket up *)
(* under the limiter's mutex, reserves a token, asks how long it would have *)
(* to wait for it, and if it would have to wait cancels the reservation and *)
(* is denied; the clock and other requests move between those steps.        *)
(*                                                                         *)
(* Tokens are counted in units of the clock: a bucket gains one unit in one *)
(* unit of time, a request takes Cost of them.  Reserve's n <= burst always *)
(* holds, since RateLimit is a no-op for a burst below one.                 *)
(***************************************************************************)
EXTENDS Integers, FiniteSets

CONSTANTS
    Addrs,          \* client addresses
    Reqs,           \* the goroutines that serve requests
    Burst, Cost,    \* tokens in a full bucket; units of time per token
    Second,         \* units of time per second
    Idle,           \* IdleEvictAfter
    Hold,           \* longest time from a look-up to the end of its request's last step
    MaxTime,        \* bound: the last instant of a run
    MaxRequests     \* bound: requests in a run

(* Idle is ten minutes (ratelimit.go:43-45), whatever burst and rate the    *)
(* configuration sets; between its look-up and its last step a request      *)
(* waits for nothing but the limiter's mutex.                               *)
ASSUME LimiterAssumption ==
    /\ IsFiniteSet(Reqs) /\ Addrs # {}
    /\ Burst \in Nat \ {0} /\ Cost \in Nat \ {0} /\ Second \in Nat \ {0}
    /\ Hold \in Nat /\ Idle \in Nat /\ MaxTime \in Nat /\ MaxRequests \in Nat
    /\ Idle >= Hold

VARIABLES
    now,            \* the clock
    byIP,           \* the addresses that have an entry
    seen,           \* seen[a]: lastSeen of a's entry
    tokens, last, lastEvent,    \* the rate.Limiter of a's entry
    at,             \* at[r]: where r is in the middleware
    ip,             \* ip[r]: its client's address
    due,            \* due[r]: timeToAct of its reservation
    retry,          \* retry[r]: the Retry-After of its answer, in seconds
    granted,        \* granted[a]: history variable, requests let through
    made,           \* made[a]: history variable, buckets made for a
    arrived         \* history variable, requests so far

bucket == << seen, tokens, last, lastEvent >>
request == << at, ip, due, retry >>
history == << granted, made, arrived >>
lvars == << now, byIP, bucket, request, history >>

Full == Burst * Cost

LimiterInit ==
    /\ now = 0 /\ byIP = {}
    /\ seen = [a \in Addrs |-> 0] /\ tokens = [a \in Addrs |-> Full]
    /\ last = [a \in Addrs |-> 0] /\ lastEvent = [a \in Addrs |-> 0]
    /\ at = [r \in Reqs |-> "idle"] /\ ip = [r \in Reqs |-> CHOOSE a \in Addrs : TRUE]
    /\ due = [r \in Reqs |-> 0] /\ retry = [r \in Reqs |-> 0]
    /\ granted = [a \in Addrs |-> 0] /\ made = [a \in Addrs |-> 0] /\ arrived = 0

AtMost(n, bound) == IF n > bound THEN bound ELSE n
AtLeast(n, bound) == IF n < bound THEN bound ELSE n

(* Limiter.advance: what a's bucket holds at time t. *)
Balance(a, t) == AtMost(tokens[a] + (t - last[a]), Full)

(* The requests that use a bucket, or are about to. *)
Using == {r \in Reqs : at[r] \in {"reserve", "decide", "cancel"}}

-----------------------------------------------------------------------------
(* Time passes, but nobody stays inside the middleware for long. *)
Advance ==
    /\ now < MaxTime
    /\ \A r \in Using : now < seen[ip[r]] + Hold
    /\ now' = now + 1
    /\ UNCHANGED << byIP, bucket, request, history >>

(* Mutants: the sweep compares the wrong way round and forgets the clients  *)
(* that are not idle; the delay is not rounded up to the next second.       *)
SweepActive ==
    /\ byIP' = {a \in byIP : seen[a] < now - Idle}
    /\ UNCHANGED << now, bucket, request, history >>

RetryAfterTruncated(delay) == delay \div Second

(* strconv.Itoa(int(delay.Seconds())+1) *)
RetryAfter(delay) == delay \div Second + 1

-----------------------------------------------------------------------------
(* The middleware is entered ... *)
Arrive(r, a) ==
    /\ at[r] = "idle" /\ arrived < MaxRequests
    /\ arrived' = arrived + 1
    /\ at' = [at EXCEPT ![r] = "lookup"]
    /\ ip' = [ip EXCEPT ![r] = a]
    /\ UNCHANGED << now, byIP, bucket, due, retry, granted, made >>

(* ... limiterFor finds the address's bucket or makes a full one ... *)
limiterFor(r) ==
    /\ at[r] = "lookup"
    /\ LET a == ip[r]
       IN  /\ seen' = [seen EXCEPT ![a] = now]
           /\ byIP' = byIP \cup {a}
           /\ IF a \in byIP
                THEN UNCHANGED << tokens, last, lastEvent, made >>
                ELSE /\ tokens' = [tokens EXCEPT ![a] = Full]
                     /\ last' = [last EXCEPT ![a] = now]
                     /\ lastEvent' = [lastEvent EXCEPT ![a] = 0]
                     /\ made' = [made EXCEPT ![a] = @ + 1]
    /\ at' = [at EXCEPT ![r] = "reserve"]
    /\ UNCHANGED << now, ip, due, retry, granted, arrived >>

(* ... Reserve takes a token, into debt if need be ... *)
Reserve(r) ==
    /\ at[r] = "reserve"
    /\ LET a == ip[r]
           left == Balance(a, now) - Cost
           act == now + AtLeast(- left, 0)
       IN  /\ tokens' = [tokens EXCEPT ![a] = left]
           /\ last' = [last EXCEPT ![a] = now]
           /\ lastEvent' = [lastEvent EXCEPT ![a] = act]
           /\ due' = [due EXCEPT ![r] = act]
    /\ at' = [at EXCEPT ![r] = "decide"]
    /\ UNCHANGED << now, byIP, seen, ip, retry, history >>

(* ... and Delay says whether it has to be waited for. *)
Grant(r) ==
    /\ at[r] = "decide" /\ due[r] <= now
    /\ at' = [at EXCEPT ![r] = "granted"]
    /\ granted' = [granted EXCEPT ![ip[r]] = @ + 1]
    /\ UNCHANGED << now, byIP, bucket, ip, due, retry, made, arrived >>

Postpone(r) ==
    /\ at[r] = "decide" /\ due[r] > now
    /\ at' = [at EXCEPT ![r] = "cancel"]
    /\ retry' = [retry EXCEPT ![r] = RetryAfter(due[r] - now)]
    /\ UNCHANGED << now, byIP, bucket, ip, due, history >>

(* Reservation.CancelAt gives back what later reservations have not built   *)
(* upon, and nothing once the token's time has come.                        *)
Cancel(r) ==
    /\ at[r] = "cancel"
    /\ LET a == ip[r]
           restore == Cost - (lastEvent[a] - due[r])
           prev == due[r] - Cost
       IN  IF due[r] < now \/ restore <= 0
             THEN UNCHANGED bucket
             ELSE /\ tokens' = [tokens EXCEPT ![a] = AtMost(Balance(a, now) + restore, Full)]
                  /\ last' = [last EXCEPT ![a] = now]
                  /\ lastEvent' = [lastEvent EXCEPT ![a] =
                                     IF @ = due[r] /\ prev >= now THEN prev ELSE @]
                  /\ UNCHANGED seen
    /\ at' = [at EXCEPT ![r] = "denied"]
    /\ UNCHANGED << now, byIP, ip, due, retry, history >>

(* The request is over, served by the next handler or denied. *)
Finish(r) ==
    /\ at[r] \in {"granted", "denied"}
    /\ at' = [at EXCEPT ![r] = "idle"]
    /\ due' = [due EXCEPT ![r] = 0] /\ retry' = [retry EXCEPT ![r] = 0]
    /\ UNCHANGED << now, byIP, bucket, ip, history >>

(* A tick of cleanupLoop, which may come at any time. *)
Sweep ==
    /\ byIP' = {a \in byIP : seen[a] >= now - Idle}
    /\ UNCHANGED << now, bucket, request, history >>

-----------------------------------------------------------------------------
Step(r) == limiterFor(r) \/ Reserve(r) \/ Grant(r) \/ Postpone(r) \/ Cancel(r)

LimiterNext ==
    \/ Advance \/ Sweep
    \/ \E r \in Reqs : (\E a \in Addrs : Arrive(r, a)) \/ Step(r) \/ Finish(r)

LimiterSpec == LimiterInit /\ [][LimiterNext]_lvars

-----------------------------------------------------------------------------
(* Properties *)

(* The clock, the entries and the requests have their types.                *)
LimiterTypeOK ==
    /\ now \in Nat /\ byIP \subseteq Addrs
    /\ seen \in [Addrs -> Nat] /\ tokens \in [Addrs -> Int]
    /\ last \in [Addrs -> Nat] /\ lastEvent \in [Addrs -> Int]
    /\ at \in [Reqs -> {"idle", "lookup", "reserve", "decide", "cancel", "granted", "denied"}]
    /\ ip \in [Reqs -> Addrs] /\ due \in [Reqs -> Nat] /\ retry \in [Reqs -> Nat]
    /\ granted \in [Addrs -> Nat] /\ made \in [Addrs -> Nat] /\ arrived \in Nat

(* The bursts a may have used: its own, and where a bucket can be forgotten *)
(* before it has refilled, one for each that was made.                      *)
Bursts(a) == IF Idle >= Full + Hold THEN 1 ELSE made[a]

(* No address is let through more often than its burst and its rate allow,  *)
(* whatever is reserved or cancelled, too late or in the wrong order.  The  *)
(* sweep may add a burst where Idle is too short for a bucket to refill     *)
(* (Validate accepts any burst and rate, config.go:208-215), but never more *)
(* than one in Idle.                                                        *)
GrantsWithinRate ==
    \A a \in Addrs : /\ Cost * granted[a] <= Full * Bursts(a) + now
                     /\ made[a] * Idle <= now + Idle

(* "We cancel immediately to give the token back; if the caller is denied   *)
(* the caller was never charged" (ratelimit.go:72-74).                      *)
DeniedNeverCharged ==
    [][\A r \in Reqs : Cancel(r) =>
         LET a == ip[r] IN Balance(a, now)' = AtMost(Balance(a, now) + Cost, Full)]_lvars

(* "so we can return a precise Retry-After" (ratelimit.go:72): when the     *)
(* reservation is given back in full, a client that waits as it is told and *)
(* has the bucket to itself meanwhile finds a token in it.                  *)
RetryAfterSuffices ==
    [][\A r \in Reqs :
         (Cancel(r) /\ now <= due[r] /\ lastEvent[ip[r]] = due[r])
            => Balance(ip[r], now + retry[r] * Second)' >= Cost]_lvars
=============================================================================
