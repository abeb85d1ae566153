---------------------------- MODULE PollerProofs ----------------------------
(***************************************************************************)
(* Poller, for any keys, panels, throwing panels and server: the chains of  *)
(* requests neither fork nor end, and subscribed panels show what their     *)
(* poller has.                                                              *)
(***************************************************************************)
EXTENDS Poller, TLAPS

Waits == {"rest", "fetch", "body"}

PollerRecord == [exists : BOOLEAN, at : Waits, body : Nat, timers : Nat, lastData : Nat,
                 lastError : BOOLEAN, profileAt : Waits, profileTimers : Nat,
                 profile : BOOLEAN, profileError : BOOLEAN]

State == [data : Nat, error : BOOLEAN, profile : BOOLEAN, profileError : BOOLEAN]

(* The types of the page and of the server.                                 *)
PollerTypeOK ==
    /\ server \in {"up", "flaky", "stalled"} /\ version \in Nat
    /\ poller \in [Keys -> PollerRecord]
    /\ callbacks \in [Keys -> SUBSET Panels]
    /\ shown \in [Panels -> State]

(* One chain of a poller: the request that is under way or the timer for    *)
(* the next.                                                                *)
MetricsChain(q) == (q.timers = 1 /\ q.at = "rest") \/ (q.timers = 0 /\ q.at # "rest")
ProfileChain(q) ==
    IF q.profile THEN q.profileTimers = 0 /\ q.profileAt = "rest"
    ELSE (q.profileTimers = 1 /\ q.profileAt = "rest") \/ (q.profileTimers = 0 /\ q.profileAt # "rest")
Chained(q) == q.exists => MetricsChain(q) /\ ProfileChain(q)

(* Before anybody has subscribed there are no timers, no requests and no    *)
(* subscribers.                                                             *)
Unborn(k) == ~ poller[k].exists => poller[k] = NoPoller /\ callbacks[k] = {}

(* A panel is subscribed to what it asks for.                               *)
OwnKeys(k) == \A s \in callbacks[k] : KeyOf[s] = k

ChainInv == PollerTypeOK /\ \A k \in Keys : Chained(poller[k]) /\ Unborn(k) /\ OwnKeys(k)
PageInv == ChainInv /\ PanelsAreCurrent

-----------------------------------------------------------------------------
(* The states a poller may be in, and what the helpers make of them.        *)
LEMMA NoPollerType == NoPoller \in PollerRecord /\ ~ NoPoller.exists
  BY DEF NoPoller, PollerRecord, Waits

LEMMA StateType == ASSUME NEW q \in PollerRecord PROVE currentState(q) \in State
  BY DEF currentState, State, PollerRecord

(* The first subscriber starts both chains.                                 *)
LEMMA CreateChains == createPoller \in PollerRecord /\ createPoller.exists /\ Chained(createPoller)
                      /\ ~ HasResult(createPoller)
  BY DEF createPoller, loadProfile, tick, NoPoller, PollerRecord, Waits,
         Chained, MetricsChain, ProfileChain, HasResult

(* What a timer of the metrics' loop, one of the profile's, and the end of  *)
(* a request leave of the rest of the poller.                               *)
LEMMA TickFields ==
    ASSUME NEW q \in PollerRecord
    PROVE  /\ tick(q) \in PollerRecord
           /\ tick(q).exists = q.exists /\ tick(q).timers = q.timers
           /\ tick(q).at = (IF q.at = "rest" THEN "fetch" ELSE q.at)
           /\ (ProfileChain(tick(q)) <=> ProfileChain(q))
           /\ currentState(tick(q)) = currentState(q)
  BY DEF tick, PollerRecord, Waits, ProfileChain, currentState

LEMMA LoadProfileFields ==
    ASSUME NEW q \in PollerRecord
    PROVE  /\ loadProfile(q) \in PollerRecord
           /\ loadProfile(q).exists = q.exists /\ loadProfile(q).profileTimers = q.profileTimers
           /\ loadProfile(q).profile = q.profile
           /\ loadProfile(q).profileAt = (IF ~ q.profile /\ q.profileAt = "rest" THEN "fetch" ELSE q.profileAt)
           /\ (MetricsChain(loadProfile(q)) <=> MetricsChain(q))
           /\ currentState(loadProfile(q)) = currentState(q)
  BY DEF loadProfile, PollerRecord, Waits, MetricsChain, currentState

LEMMA ScheduleFields ==
    ASSUME NEW q \in PollerRecord
    PROVE  /\ scheduleNext(q) \in PollerRecord
           /\ scheduleNext(q).exists = q.exists /\ scheduleNext(q).timers = q.timers + 1
           /\ scheduleNext(q).at = "rest"
           /\ ProfileChain(scheduleNext(q)) <=> ProfileChain(q)
<1>. DEFINE r == [q EXCEPT !.at = "rest", !.body = 0]
<1>1. /\ r \in PollerRecord /\ r.exists = q.exists /\ r.timers = q.timers /\ r.at = "rest"
      /\ r.profile = q.profile /\ r.profileTimers = q.profileTimers /\ r.profileAt = q.profileAt
  BY DEF PollerRecord, Waits
<1>2. scheduleNext(q) = [r EXCEPT !.timers = q.timers + 1]
  BY DEF scheduleNext, PollerRecord
<1>3. q.timers + 1 \in Nat
  BY DEF PollerRecord
<1>. HIDE DEF r
<1>4. \A n \in Nat : [r EXCEPT !.timers = n] \in PollerRecord
  BY <1>1 DEF PollerRecord
<1>5. scheduleNext(q) \in PollerRecord
  BY <1>2, <1>3, <1>4
<1>6. /\ scheduleNext(q).exists = q.exists /\ scheduleNext(q).timers = q.timers + 1
      /\ scheduleNext(q).at = "rest" /\ scheduleNext(q).profile = q.profile
      /\ scheduleNext(q).profileTimers = q.profileTimers /\ scheduleNext(q).profileAt = q.profileAt
  BY <1>1, <1>2 DEF PollerRecord
<1>. QED
  BY <1>5, <1>6 DEF ProfileChain

(* A broadcast keeps the type of what is shown.                             *)
LEMMA BroadcastType ==
    ASSUME PollerTypeOK, NEW q \in PollerRecord, NEW panels, broadcast(q, panels)
    PROVE  /\ shown' \in [Panels -> State]
           /\ \A s \in Panels : shown'[s] = IF s \in panels \ Throwing THEN currentState(q) ELSE shown[s]
  BY StateType DEF broadcast, PollerTypeOK

-----------------------------------------------------------------------------
LEMMA PageInvInit == Init => PageInv
<1>. SUFFICES ASSUME Init PROVE PageInv
  OBVIOUS
<1>1. PollerTypeOK
  BY PollerAssumption, NoPollerType, StateType DEF Init, PollerTypeOK, Blank
<1>2. \A k \in Keys : Chained(poller[k]) /\ Unborn(k) /\ OwnKeys(k)
  BY NoPollerType DEF Init, Chained, Unborn, OwnKeys
<1>3. PanelsAreCurrent
  BY PollerAssumption DEF Init, PanelsAreCurrent
<1>. QED
  BY <1>1, <1>2, <1>3 DEF PageInv, ChainInv

(* A step of the loops of key k, which leaves its poller as q and either    *)
(* tells every subscriber or changes nothing that is shown.                 *)
LEMMA LoopStep ==
    ASSUME PageInv, NEW k \in Keys, NEW q \in PollerRecord, Update(k, q),
           poller[k].exists, q.exists, Chained(q),
           \/ broadcast(q, callbacks[k])
           \/ /\ UNCHANGED shown
              /\ currentState(q) = currentState(poller[k]) \/ ~ HasResult(q)
    PROVE  PageInv'
<1>1. PollerTypeOK'
  BY BroadcastType DEF PageInv, ChainInv, PollerTypeOK, Update
<1>2. \A j \in Keys : poller'[j] = IF j = k THEN q ELSE poller[j]
  BY DEF PageInv, ChainInv, PollerTypeOK, Update
<1>3. \A j \in Keys : Chained(poller'[j])
  BY <1>2 DEF PageInv, ChainInv
<1>4. \A j \in Keys : Unborn(j)' /\ OwnKeys(j)'
  BY <1>2 DEF PageInv, ChainInv, Unborn, OwnKeys, Update
<1>5. PanelsAreCurrent'
  <2>. SUFFICES ASSUME NEW s \in Panels \ Throwing, s \in callbacks'[KeyOf[s]], HasResult(poller'[KeyOf[s]])
                PROVE  shown'[s] = currentState(poller'[KeyOf[s]])
    BY DEF PanelsAreCurrent
  <2>1. KeyOf[s] \in Keys /\ callbacks' = callbacks
    BY PollerAssumption DEF Update
  <2>2. CASE KeyOf[s] # k
    <3>1. s \notin callbacks[k]
      BY <2>2 DEF PageInv, ChainInv, OwnKeys
    <3>2. shown'[s] = shown[s]
      BY <3>1, BroadcastType DEF PageInv, ChainInv
    <3>. QED
      BY <1>2, <2>1, <2>2, <3>2 DEF PageInv, PanelsAreCurrent
  <2>3. CASE KeyOf[s] = k
    <3>1. poller'[k] = q
      BY <1>2
    <3>2. CASE broadcast(q, callbacks[k])
      BY <2>1, <2>3, <3>1, <3>2, BroadcastType DEF PageInv, ChainInv
    <3>3. CASE UNCHANGED shown /\ currentState(q) = currentState(poller[k])
      <4>1. HasResult(poller[k])
        BY <2>3, <3>1, <3>3 DEF HasResult, currentState
      <4>. QED
        BY <2>1, <2>3, <3>1, <3>3, <4>1 DEF PageInv, PanelsAreCurrent
    <3>. QED
      BY <2>3, <3>1, <3>2, <3>3
  <2>. QED
    BY <2>2, <2>3
<1>. QED
  BY <1>1, <1>3, <1>4, <1>5 DEF PageInv, ChainInv

(* Every step of the page keeps it.                                         *)
LEMMA PageInvStep == PageInv /\ [Next]_vars => PageInv'
<1>. SUFFICES ASSUME PageInv, [Next]_vars PROVE PageInv'
  OBVIOUS
<1>0. PollerTypeOK /\ \A k \in Keys : poller[k] \in PollerRecord /\ Chained(poller[k]) /\ Unborn(k)
  BY DEF PageInv, ChainInv, PollerTypeOK
<1>1. ASSUME NEW how \in {"up", "flaky", "stalled"}, ServerTurns(how) PROVE PageInv'
  BY <1>1 DEF ServerTurns, PageInv, ChainInv, PollerTypeOK, Unborn, OwnKeys, PanelsAreCurrent
<1>2. CASE Change
  BY <1>2 DEF Change, PageInv, ChainInv, PollerTypeOK, Unborn, OwnKeys, PanelsAreCurrent
<1>3. ASSUME NEW s \in Panels, subscribe(s) PROVE PageInv'
  <2>. DEFINE k == KeyOf[s]
              q == IF poller[k].exists THEN poller[k] ELSE createPoller
  <2>1. /\ s \notin callbacks[k] /\ poller' = [poller EXCEPT ![k] = q]
        /\ callbacks' = [callbacks EXCEPT ![k] = @ \cup {s}]
        /\ IF HasResult(q) THEN broadcast(q, {s}) ELSE UNCHANGED shown
        /\ UNCHANGED << server, version >>
    BY <1>3 DEF subscribe
  <2>2. k \in Keys
    BY PollerAssumption
  <2>3. q \in PollerRecord /\ q.exists /\ Chained(q)
    BY <1>0, <2>2, CreateChains
  <2>4. poller[k].exists => q = poller[k]
    OBVIOUS
  <2>5. ~ poller[k].exists => ~ HasResult(q)
    BY CreateChains
  <2>k. KeyOf[s] = k
    OBVIOUS
  <2>. HIDE DEF k, q
  <2>6. /\ \A j \in Keys : poller'[j] = IF j = k THEN q ELSE poller[j]
        /\ \A j \in Keys : callbacks'[j] = IF j = k THEN callbacks[k] \cup {s} ELSE callbacks[j]
    BY <1>0, <2>1, <2>2 DEF PollerTypeOK
  <2>7. /\ shown' \in [Panels -> State]
        /\ \A p \in Panels : p # s => shown'[p] = shown[p]
        /\ HasResult(q) /\ s \notin Throwing => shown'[s] = currentState(q)
    BY <1>0, <2>1, <2>3, BroadcastType DEF PollerTypeOK
  <2>8. PollerTypeOK'
    BY <1>0, <2>1, <2>2, <2>3, <2>7 DEF PollerTypeOK
  <2>9. \A j \in Keys : Chained(poller'[j]) /\ Unborn(j)' /\ OwnKeys(j)'
    BY <1>0, <2>3, <2>6, <2>k DEF PageInv, ChainInv, Unborn, OwnKeys
  <2>10. PanelsAreCurrent'
    <3>. SUFFICES ASSUME NEW p \in Panels \ Throwing, p \in callbacks'[KeyOf[p]], HasResult(poller'[KeyOf[p]])
                  PROVE  shown'[p] = currentState(poller'[KeyOf[p]])
      BY DEF PanelsAreCurrent
    <3>1. KeyOf[p] \in Keys
      BY PollerAssumption
    <3>2. CASE p = s
      BY <2>6, <2>7, <2>k, <3>1, <3>2
    <3>3. CASE p # s
      <4>1. p \in callbacks[KeyOf[p]] /\ shown'[p] = shown[p]
        BY <2>6, <2>7, <3>1, <3>3
      <4>2. poller'[KeyOf[p]] = poller[KeyOf[p]]
        BY <1>0, <2>4, <2>6, <3>1, <4>1 DEF Unborn
      <4>. QED
        BY <4>1, <4>2 DEF PageInv, PanelsAreCurrent
    <3>. QED
      BY <3>2, <3>3
  <2>. QED
    BY <2>8, <2>9, <2>10 DEF PageInv, ChainInv
<1>4. ASSUME NEW s \in Panels, unsubscribe(s) PROVE PageInv'
  <2>1. KeyOf[s] \in Keys
    BY PollerAssumption
  <2>2. PollerTypeOK'
    BY <1>0, <1>4, NoPollerType, StateType DEF unsubscribe, PollerTypeOK, Blank
  <2>3. /\ poller' = poller /\ \A j \in Keys : callbacks'[j] \subseteq callbacks[j]
        /\ s \notin callbacks'[KeyOf[s]] /\ \A p \in Panels : p # s => shown'[p] = shown[p]
    BY <1>0, <1>4, <2>1 DEF unsubscribe, PollerTypeOK
  <2>4. \A j \in Keys : Unborn(j)' /\ OwnKeys(j)'
    BY <1>0, <2>3 DEF PageInv, ChainInv, Unborn, OwnKeys
  <2>5. PanelsAreCurrent'
    BY <2>3, PollerAssumption DEF PageInv, PanelsAreCurrent
  <2>. QED
    BY <1>0, <2>2, <2>3, <2>4, <2>5 DEF PageInv, ChainInv
<1>5. ASSUME NEW k \in Keys, Tick(k) \/ Profile(k) PROVE PageInv'
  <2>0. poller[k] \in PollerRecord /\ Chained(poller[k])
    BY <1>0
  <2>e. poller[k].exists
    <3>1. \/ poller[k].timers > 0 \/ poller[k].profileTimers > 0
          \/ poller[k].at \in {"fetch", "body"} \/ poller[k].profileAt \in {"fetch", "body"}
      BY <1>5 DEF Tick, Profile, TickTimer, TickHead, TickSucceeds, TickFails,
                  ProfileTimer, ProfileHead, ProfileEnds
    <3>2. poller[k] # NoPoller
      BY <3>1 DEF NoPoller
    <3>. QED
      BY <1>0, <3>2 DEF Unborn
  <2>1. CASE TickTimer(k)
    <3>. DEFINE q == tick([poller[k] EXCEPT !.timers = @ - 1])
    <3>. DEFINE r == [poller[k] EXCEPT !.timers = @ - 1]
    <3>1. /\ r \in PollerRecord /\ r.exists /\ r.timers = 0 /\ r.at = "rest"
          /\ (ProfileChain(r) <=> ProfileChain(poller[k])) /\ currentState(r) = currentState(poller[k])
      BY <2>0, <2>e, <2>1 DEF TickTimer, PollerRecord, Chained, MetricsChain, ProfileChain, currentState
    <3>2. q \in PollerRecord /\ q.exists /\ Chained(q) /\ currentState(q) = currentState(poller[k])
      BY <2>0, <2>e, <3>1, TickFields DEF Chained, MetricsChain
    <3>. QED
      BY <2>1, <2>e, <3>2, LoopStep DEF TickTimer
  <2>2. CASE TickHead(k)
    <3>. DEFINE q == [poller[k] EXCEPT !.at = "body", !.body = version]
    <3>1. q \in PollerRecord /\ q.exists /\ Chained(q) /\ currentState(q) = currentState(poller[k])
      BY <1>0, <2>0, <2>e, <2>2 DEF TickHead, PollerTypeOK, PollerRecord, Waits, Chained, MetricsChain, ProfileChain, currentState
    <3>. QED
      BY <2>2, <2>e, <3>1, LoopStep DEF TickHead
  <2>3. CASE TickSucceeds(k)
    <3>. DEFINE r == [poller[k] EXCEPT !.lastData = poller[k].body, !.lastError = FALSE]
                q == scheduleNext(r)
    <3>1. /\ r \in PollerRecord /\ r.exists /\ r.timers = 0
          /\ (ProfileChain(r) <=> ProfileChain(poller[k]))
      BY <2>0, <2>e, <2>3 DEF TickSucceeds, PollerRecord, Chained, MetricsChain, ProfileChain
    <3>2. q \in PollerRecord /\ q.exists /\ Chained(q)
      <4>. HIDE DEF r
      <4>1. /\ q \in PollerRecord /\ q.exists /\ q.timers = 1 /\ q.at = "rest"
            /\ ProfileChain(q)
        BY <2>0, <2>e, <3>1, ScheduleFields DEF Chained
      <4>. QED
        BY <4>1 DEF Chained, MetricsChain
    <3>3. Update(k, q) /\ broadcast(q, callbacks[k])
      BY <2>3 DEF TickSucceeds
    <3>. HIDE DEF q
    <3>. QED
      BY <2>e, <3>2, <3>3, LoopStep
  <2>4. CASE TickFails(k)
    <3>. DEFINE r == [poller[k] EXCEPT !.lastError = TRUE]
                q == scheduleNext(r)
    <3>1. /\ r \in PollerRecord /\ r.exists /\ r.timers = 0
          /\ (ProfileChain(r) <=> ProfileChain(poller[k]))
      BY <2>0, <2>e, <2>4 DEF TickFails, PollerRecord, Chained, MetricsChain, ProfileChain
    <3>2. q \in PollerRecord /\ q.exists /\ Chained(q)
      <4>. HIDE DEF r
      <4>1. /\ q \in PollerRecord /\ q.exists /\ q.timers = 1 /\ q.at = "rest"
            /\ ProfileChain(q)
        BY <2>0, <2>e, <3>1, ScheduleFields DEF Chained
      <4>. QED
        BY <4>1 DEF Chained, MetricsChain
    <3>3. Update(k, q) /\ broadcast(q, callbacks[k])
      BY <2>4 DEF TickFails
    <3>. HIDE DEF q
    <3>. QED
      BY <2>e, <3>2, <3>3, LoopStep
  <2>5. CASE ProfileTimer(k)
    <3>. DEFINE q == loadProfile([poller[k] EXCEPT !.profileTimers = @ - 1])
    <3>. DEFINE r == [poller[k] EXCEPT !.profileTimers = @ - 1]
    <3>1. /\ r \in PollerRecord /\ r.exists /\ ~ r.profile /\ r.profileTimers = 0 /\ r.profileAt = "rest"
          /\ (MetricsChain(r) <=> MetricsChain(poller[k])) /\ currentState(r) = currentState(poller[k])
      BY <2>0, <2>e, <2>5 DEF ProfileTimer, PollerRecord, Chained, MetricsChain, ProfileChain, currentState
    <3>2. q \in PollerRecord /\ q.exists /\ Chained(q) /\ currentState(q) = currentState(poller[k])
      BY <2>0, <2>e, <3>1, LoadProfileFields DEF Chained, ProfileChain
    <3>. QED
      BY <2>5, <2>e, <3>2, LoopStep DEF ProfileTimer
  <2>6. CASE ProfileHead(k)
    <3>. DEFINE q == [poller[k] EXCEPT !.profileAt = "body"]
    <3>1. q \in PollerRecord /\ q.exists /\ Chained(q) /\ currentState(q) = currentState(poller[k])
      BY <2>0, <2>e, <2>6 DEF ProfileHead, PollerRecord, Waits, Chained, MetricsChain, ProfileChain, currentState
    <3>. QED
      BY <2>6, <2>e, <3>1, LoopStep DEF ProfileHead
  <2>7. ASSUME NEW loaded \in BOOLEAN, ProfileEnds(k, loaded) PROVE PageInv'
    <3>. DEFINE q == [poller[k] EXCEPT !.profileAt = "rest", !.profile = loaded, !.profileError = ~ loaded,
                                       !.profileTimers = IF loaded THEN @ ELSE @ + 1]
    <3>1. ~ poller[k].profile /\ poller[k].profileTimers = 0 /\ MetricsChain(poller[k])
      BY <2>0, <2>e, <2>7 DEF ProfileEnds, Chained, ProfileChain
    <3>2. q \in PollerRecord
      <4>. DEFINE r == [poller[k] EXCEPT !.profileAt = "rest", !.profile = loaded, !.profileError = ~ loaded]
                  t == IF loaded THEN poller[k].profileTimers ELSE poller[k].profileTimers + 1
      <4>a. \A x, y \in BOOLEAN :
               [poller[k] EXCEPT !.profileAt = "rest", !.profile = x, !.profileError = y] \in PollerRecord
        BY <2>0 DEF PollerRecord, Waits
      <4>b. (~ loaded) \in BOOLEAN
        OBVIOUS
      <4>1. r \in PollerRecord /\ t \in Nat
        <5>1. r \in PollerRecord
          BY <4>a, <4>b, Zenon
        <5>. QED
          BY <2>0, <5>1 DEF PollerRecord
      <4>2. q = [r EXCEPT !.profileTimers = t]
        OBVIOUS
      <4>. HIDE DEF r, q, t
      <4>3. \A n \in Nat : [r EXCEPT !.profileTimers = n] \in PollerRecord
        BY <4>1 DEF PollerRecord
      <4>. QED
        BY <4>1, <4>2, <4>3
    <3>3. /\ q.exists /\ q.profileAt = "rest" /\ (q.profile <=> loaded)
          /\ q.profileTimers = (IF loaded THEN 0 ELSE 1)
          /\ MetricsChain(q)
      BY <2>0, <2>e, <3>1 DEF PollerRecord, MetricsChain
    <3>4. Chained(q)
      BY <3>3 DEF Chained, ProfileChain
    <3>5. broadcast(q, callbacks[k]) \/ (UNCHANGED shown /\ ~ HasResult(q))
      BY <2>7 DEF ProfileEnds
    <3>. QED
      BY <2>7, <2>e, <3>2, <3>3, <3>4, <3>5, LoopStep DEF ProfileEnds
  <2>. QED
    BY <1>5, <2>1, <2>2, <2>3, <2>4, <2>5, <2>6, <2>7 DEF Tick, Profile
<1>6. CASE UNCHANGED vars
  BY <1>6 DEF vars, PageInv, ChainInv, PollerTypeOK, Unborn, OwnKeys, PanelsAreCurrent
<1>. QED
  BY <1>1, <1>2, <1>3, <1>4, <1>5, <1>6 DEF Next

(* The inductive invariant: one chain of each kind per poller, no poller    *)
(* without subscribers ever, and current panels.                            *)
THEOREM PageInvariant == Spec => []PageInv
  BY PageInvInit, PageInvStep, PTL DEF Spec

(* A key's chain of requests never forks and never ends (poller.js:1-4,     *)
(* 98-138), for any number of panels that come and go and any server.       *)
THEOREM ChainsNeverFork == Spec => []OneChain
<1>1. PageInv => OneChain
  BY DEF PageInv, ChainInv, PollerTypeOK, PollerRecord, Chained, MetricsChain, ProfileChain, OneChain
<1>. QED
  BY <1>1, PageInvariant, PTL

(* Every subscribed panel that does not throw shows what its poller has.    *)
THEOREM PanelsStayCurrent == Spec => []PanelsAreCurrent
<1>1. PageInv => PanelsAreCurrent
  BY DEF PageInv
<1>. QED
  BY <1>1, PageInvariant, PTL
=============================================================================
