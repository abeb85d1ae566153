--------------------------- MODULE SamplerProofs ---------------------------
(***************************************************************************)
(* Proofs about one sampling module, for every interval, capacity and clock, *)
(* and about the handlers that read it, for any clients.                    *)
(***************************************************************************)
EXTENDS MetricsAPI, Recursion, SequenceTheorems, TLAPS

(* What pushing one sample does to the history: it becomes the newest, the  *)
(* others move down if the buffer was full, and the capacity holds.         *)
LEMMA AppendShape ==
  ASSUME NEW s \in Seq(Samples), Len(s) <= Cap, NEW v \in Samples
  PROVE  LET t == BoundedAppend(s, v)
         IN  /\ t \in Seq(Samples) /\ Len(t) <= Cap /\ t # << >>
             /\ Len(t) = IF Len(s) < Cap THEN Len(s) + 1 ELSE Cap
             /\ t[Len(t)] = v
             /\ \A i \in 1 .. Len(t) - 1 : t[i] = s[i + Len(s) + 1 - Len(t)]
<1>. USE SamplerAssumption
<1>1. CASE Len(s) < Cap
  BY <1>1 DEF BoundedAppend
<1>2. CASE ~ (Len(s) < Cap)
  <2>1. s # << >> /\ Len(s) = Cap
    BY <1>2
  <2>2. /\ Tail(s) \in Seq(Samples) /\ Len(Tail(s)) = Cap - 1
        /\ \A i \in 1 .. Cap - 1 : Tail(s)[i] = s[i + 1]
    BY <2>1
  <2>. DEFINE t == Append(Tail(s), v)
  <2>3. t \in Seq(Samples) /\ Len(t) = Cap /\ t[Cap] = v
    BY <2>2
  <2>4. \A i \in 1 .. Cap - 1 : t[i] = s[i + 1]
    BY <2>2
  <2>5. t # << >>
    BY <2>3
  <2>6. BoundedAppend(s, v) = t
    BY <1>2 DEF BoundedAppend
  <2>. HIDE DEF t
  <2>. QED
    BY <2>1, <2>3, <2>4, <2>5, <2>6
<1>. QED
  BY <1>1, <1>2

(* New leaves nothing published before the first collection. *)
LEMMA SamplerInvInit == Init => SamplerInv
<1>. SUFFICES ASSUME Init PROVE SamplerInv
  OBVIOUS
<1>. USE SamplerAssumption DEF Init
<1>1. TypeOK
  <2>1. /\ now \in Nat /\ due \in Nat /\ began \in Nat /\ lastSample \in Nat /\ stamped \in Nat
        /\ buf \in Seq(Samples) /\ Len(buf) <= Cap
    OBVIOUS
  <2>2. pending \in BOOLEAN /\ started \in BOOLEAN /\ cancelled \in BOOLEAN
    OBVIOUS
  <2>3. /\ pc \in Working \cup {"built", "select", "returned"}
        /\ cur \in Samples \cup {None} /\ latest \in Samples \cup {None}
    BY DEF Working
  <2>. QED
    BY <2>1, <2>2, <2>3 DEF TypeOK
<1>2. LastId = 0 /\ NewestId = 0
  BY DEF LastId, NewestId
<1>3. LoopInv
  BY <1>2 DEF LoopInv, Publishing
<1>4. HistoryExact
  BY <1>2 DEF HistoryExact
<1>5. HangInv
  BY DEF HangInv
<1>. QED
  BY <1>1, <1>3, <1>4, <1>5 DEF SamplerInv

(* A step that publishes nothing keeps what depends on the published state. *)
LEMMA PublishedUnchanged ==
  ASSUME SamplerInv, UNCHANGED published
  PROVE  /\ LastId' = LastId /\ NewestId' = NewestId /\ HistoryExact'
         /\ LastId \in Nat
BY SamplerAssumption DEF SamplerInv, TypeOK, published, LastId, NewestId, HistoryExact, Samples

(* What a collector makes: values read at one of ReadTimes, and the stamp   *)
(* of its module.                                                           *)
LEMMA CollectedIs ==
  ASSUME NEW s \in Collected
  PROVE  \E t \in ReadTimes, failed \in BOOLEAN, stamp \in {ZeroTime, now, began} :
           /\ s = Sample(LastId + 1, t, stamp, failed)
           /\ Kind = "gpu" => stamp = began
           /\ Kind # "gpu" => stamp = now \/ (Kind = "cpu" /\ stamp = ZeroTime)
<1>. USE SamplerAssumption
<1>1. CASE Kind = "cpu"
  <2>1. PICK t \in ReadTimes, failed \in BOOLEAN : s = CpuSample(t, failed)
    BY <1>1 DEF Collected
  <2>2. PICK stamp \in {ZeroTime, now} : s = Sample(LastId + 1, t, stamp, failed)
    BY <2>1 DEF CpuSample
  <2>. QED
    BY <1>1, <2>2
<1>2. CASE Kind = "memory"
  <2>1. PICK t \in ReadTimes, failed \in BOOLEAN : s = MemorySample(t, failed)
    BY <1>2 DEF Collected
  <2>. QED
    BY <1>2, <2>1 DEF MemorySample
<1>3. CASE Kind = "storage"
  <2>1. PICK t \in ReadTimes, failed \in BOOLEAN : s = StorageSample(t, failed)
    BY <1>3 DEF Collected
  <2>. QED
    BY <1>3, <2>1 DEF StorageSample
<1>4. CASE Kind = "gpu"
  <2>1. PICK t \in ReadTimes, failed \in BOOLEAN : s = GpuSample(t, failed)
    <3>1. PICK t \in ReadTimes, failed \in GpuFails : s = GpuSample(t, failed)
      BY <1>4 DEF Collected
    <3>. QED
      BY <3>1 DEF GpuFails
  <2>. QED
    BY <1>4, <2>1 DEF GpuSample
<1>. QED
  BY <1>1, <1>2, <1>3, <1>4

(* Every step of the loop, of the clock and of main keeps SamplerInv. *)
LEMMA SamplerInvStep == SamplerInv /\ [Next]_svars => SamplerInv'
<1>. SUFFICES ASSUME SamplerInv, [Next]_svars PROVE SamplerInv'
  OBVIOUS
<1>. USE SamplerAssumption
<1>1. CASE Advance
  <2>1. TypeOK'
    <3>1. now' \in Nat /\ due' \in Nat
      BY <1>1 DEF SamplerInv, TypeOK, Advance
    <3>2. pending' \in BOOLEAN
      BY <1>1 DEF SamplerInv, TypeOK, Advance
    <3>. QED
      BY <1>1, <3>1, <3>2 DEF SamplerInv, TypeOK, Advance, published
  <2>2. LoopInv'
    BY <1>1, PublishedUnchanged DEF SamplerInv, LoopInv, Advance, published
  <2>3. HangInv'
    BY <1>1 DEF SamplerInv, TypeOK, HangInv, Advance, published
  <2>. QED
    BY <1>1, <2>1, <2>2, <2>3, PublishedUnchanged DEF SamplerInv, Advance
<1>2. CASE Cancel \/ Start \/ SelectTick \/ SelectDone
  <2>1. TypeOK'
    <3>1. CASE Cancel
      BY <3>1 DEF SamplerInv, TypeOK, Cancel, published
    <3>2. CASE Start
      <4>1. due' \in Nat
        BY <3>2 DEF SamplerInv, TypeOK, Start
      <4>. QED
        BY <3>2, <4>1 DEF SamplerInv, TypeOK, Start, published
    <3>3. CASE SelectTick
      BY <3>3 DEF SamplerInv, TypeOK, SelectTick, published, Working
    <3>4. CASE SelectDone
      BY <3>4 DEF SamplerInv, TypeOK, SelectDone, published
    <3>. QED
      BY <1>2, <3>1, <3>2, <3>3, <3>4
  <2>2. LoopInv'
    BY <1>2, PublishedUnchanged
       DEF SamplerInv, LoopInv, Cancel, Start, SelectTick, SelectDone, published, Publishing
  <2>3. HangInv'
    BY <1>2 DEF SamplerInv, TypeOK, HangInv, Cancel, Start, SelectTick, SelectDone, published, Working
  <2>. QED
    BY <1>2, <2>1, <2>2, <2>3, PublishedUnchanged
       DEF SamplerInv, Cancel, Start, SelectTick, SelectDone
<1>3. CASE Collect
  <2>1. UNCHANGED published
    BY <1>3 DEF Collect
  <2>2. cur' \in Samples /\ cur'.id = LastId + 1
    <3>1. cur' \in Collected /\ LastId \in Nat /\ now \in Nat /\ began \in Nat
      BY <1>3, <2>1, PublishedUnchanged DEF SamplerInv, TypeOK, Collect
    <3>2. \A failed \in BOOLEAN, t, stamp \in Nat :
              LET s == Sample(LastId + 1, t, stamp, failed)
              IN  s \in Samples /\ s.id = LastId + 1
      BY <3>1 DEF Sample, Samples
    <3>3. ReadTimes \subseteq Nat /\ {ZeroTime, now, began} \subseteq Nat
      BY <3>1, SamplerAssumption DEF ReadTimes, ZeroTime
    <3>4. PICK t \in ReadTimes, failed \in BOOLEAN, stamp \in {ZeroTime, now, began} :
                cur' = Sample(LastId + 1, t, stamp, failed)
      BY <3>1, CollectedIs
    <3>. QED
      BY <3>2, <3>3, <3>4
  <2>3. TypeOK'
    BY <1>3, <2>2 DEF SamplerInv, TypeOK, Collect, published, Working
  <2>4. LoopInv'
    BY <1>3, <2>1, <2>2, PublishedUnchanged DEF SamplerInv, LoopInv, Collect, published, Publishing
  <2>5. HangInv'
    BY <1>3 DEF SamplerInv, HangInv, Collect, published, Working
  <2>. QED
    BY <2>1, <2>3, <2>4, <2>5, PublishedUnchanged DEF SamplerInv
<1>4. CASE PublishLatest
  <2>1. cur \in Samples /\ cur # None /\ cur.id \in Nat
    BY <1>4 DEF SamplerInv, LoopInv, PublishLatest, Publishing, Samples
  <2>2. LastId' = cur.id /\ NewestId' = NewestId
    BY <1>4, <2>1 DEF PublishLatest, LastId, NewestId
  <2>3. TypeOK'
    BY <1>4, <2>1 DEF SamplerInv, TypeOK, PublishLatest, Working
  <2>4. LoopInv'
    BY <1>4, <2>1, <2>2 DEF SamplerInv, TypeOK, LoopInv, PublishLatest, Publishing
  <2>5. HistoryExact'
    BY <1>4, <2>2 DEF SamplerInv, HistoryExact, PublishLatest
  <2>6. HangInv'
    BY <1>4 DEF SamplerInv, HangInv, PublishLatest, Working
  <2>. QED
    BY <2>3, <2>4, <2>5, <2>6 DEF SamplerInv
<1>5. CASE PublishPush
  <2>1. /\ cur \in Samples /\ cur # None /\ cur.id \in Nat
        /\ latest = cur /\ NewestId = cur.id - 1 /\ stamped = cur.id - 1
    BY <1>5 DEF SamplerInv, LoopInv, PublishPush, Publishing, Samples
  <2>2. /\ buf \in Seq(Samples) /\ Len(buf) <= Cap
        /\ buf' = BoundedAppend(buf, cur)
    BY <1>5 DEF SamplerInv, TypeOK, PublishPush
  <2>3. /\ buf' \in Seq(Samples) /\ Len(buf') <= Cap /\ buf' # << >>
        /\ Len(buf') = IF Len(buf) < Cap THEN Len(buf) + 1 ELSE Cap
        /\ buf'[Len(buf')] = cur
        /\ \A i \in 1 .. Len(buf') - 1 : buf'[i] = buf[i + Len(buf) + 1 - Len(buf')]
    BY <2>1, <2>2, AppendShape
  <2>4. NewestId' = cur.id
    BY <2>3 DEF NewestId
  <2>5. TypeOK'
    BY <1>5, <2>3 DEF SamplerInv, TypeOK, PublishPush, Working
  <2>6. LoopInv'
    BY <1>5, <2>1, <2>4 DEF SamplerInv, LoopInv, PublishPush, Publishing
  <2>7. HistoryExact'
    <3>1. /\ \A i \in 1 .. Len(buf) : buf[i].id = NewestId - (Len(buf) - i)
          /\ Len(buf) = IF NewestId < Cap THEN NewestId ELSE Cap
      BY DEF SamplerInv, HistoryExact
    <3>2. Len(buf') = IF cur.id < Cap THEN cur.id ELSE Cap
      BY <2>1, <2>2, <2>3, <3>1
    <3>3. ASSUME NEW i \in 1 .. Len(buf') PROVE buf'[i].id = cur.id - (Len(buf') - i)
      <4>1. CASE i = Len(buf')
        BY <4>1, <2>1, <2>3
      <4>2. CASE i # Len(buf')
        <5>. DEFINE j == i + Len(buf) + 1 - Len(buf')
        <5>1. Len(buf) \in Nat /\ Len(buf') \in Nat
          BY <2>2, <2>3
        <5>2. i \in 1 .. Len(buf') - 1
          BY <4>2, <5>1
        <5>3. j \in 1 .. Len(buf)
          BY <5>1, <5>2, <2>3
        <5>4. buf[j].id = NewestId - (Len(buf) - j)
          BY <5>3, <3>1
        <5>5. buf'[i] = buf[j]
          BY <5>2, <2>3
        <5>6. NewestId - (Len(buf) - j) = cur.id - (Len(buf') - i)
          BY <5>1, <2>1
        <5>. QED
          BY <5>4, <5>5, <5>6
      <4>. QED
        BY <4>1, <4>2
    <3>. QED
      BY <3>2, <3>3, <2>4 DEF HistoryExact
  <2>8. HangInv'
    BY <1>5 DEF SamplerInv, HangInv, PublishPush, Working
  <2>. QED
    BY <2>5, <2>6, <2>7, <2>8 DEF SamplerInv
<1>6. CASE PublishStamp
  <2>1. cur \in Samples /\ cur # None /\ cur.id \in Nat /\ latest = cur /\ NewestId = cur.id
    BY <1>6 DEF SamplerInv, LoopInv, PublishStamp, Publishing, Samples
  <2>2. LastId' = cur.id /\ NewestId' = cur.id
    BY <1>6, <2>1 DEF PublishStamp, LastId, NewestId
  <2>3. TypeOK'
    BY <1>6, <2>1 DEF SamplerInv, TypeOK, PublishStamp, Working
  <2>4. LoopInv'
    BY <1>6, <2>1, <2>2 DEF SamplerInv, LoopInv, PublishStamp, Publishing
  <2>5. HistoryExact'
    BY <1>6, <2>1, <2>2 DEF SamplerInv, HistoryExact, PublishStamp
  <2>6. HangInv'
    BY <1>6 DEF SamplerInv, TypeOK, HangInv, PublishStamp, Working
  <2>. QED
    BY <2>3, <2>4, <2>5, <2>6 DEF SamplerInv
<1>7. CASE UNCHANGED svars
  BY <1>7, PublishedUnchanged
     DEF SamplerInv, TypeOK, LoopInv, HangInv, svars, published
<1>. QED
  BY <1>1, <1>2, <1>3, <1>4, <1>5, <1>6, <1>7
     DEF Next, SamplerNext, EnvNext, Work, Publish

(* SamplerInv is an invariant of the sampler. *)
THEOREM SamplerInvariant == Spec => []SamplerInv
BY SamplerInvInit, SamplerInvStep, PTL DEF Spec

(* The history a module holds is, at every instant and for every capacity,  *)
(* the newest samples with none missing, whatever ticks were dropped and    *)
(* whatever collections failed (base.go:42-47, RunLoop).                    *)
THEOREM HistoryIsExact == Spec => []HistoryExact
<1>1. SamplerInv => HistoryExact
  BY DEF SamplerInv
<1>. QED
  BY <1>1, SamplerInvariant, PTL

(* The three stores of Publish in terms of the place the loop has reached.  *)
LEMMA StoresInOrder == SamplerInv => PublishOrder
<1>. SUFFICES ASSUME SamplerInv PROVE PublishOrder
  OBVIOUS
<1>1. stamped \in Nat /\ pc \in Publishing \cup {"collect", "built", "select", "returned"}
  BY DEF SamplerInv, TypeOK, Working, Publishing
<1>2. CASE pc \notin Publishing
  BY <1>1, <1>2 DEF SamplerInv, LoopInv, PublishOrder
<1>3. CASE pc = "publish"
  BY <1>1, <1>3 DEF SamplerInv, LoopInv, PublishOrder
<1>4. CASE pc \in {"push", "stamp"}
  <2>1. cur \in Samples /\ cur # None /\ latest = cur
    BY <1>4, SamplerAssumption DEF SamplerInv, LoopInv, Publishing
  <2>2. LastId = cur.id /\ cur.id \in Nat
    BY <2>1 DEF LastId, Samples
  <2>. QED
    BY <1>1, <1>4, <2>2 DEF SamplerInv, LoopInv, PublishOrder
<1>. QED
  BY <1>1, <1>2, <1>3, <1>4 DEF Publishing

(* What Publish's three stores let a concurrent reader see: the age never   *)
(* belongs to a sample that is not in the history, the history never holds  *)
(* a sample newer than the latest, and each is at most one behind.          *)
THEOREM PublishIsOrdered == Spec => []PublishOrder
BY StoresInOrder, SamplerInvariant, PTL

(* /health tells: a collection that has lasted for more than two intervals  *)
(* makes the module stale, whatever the interval (health.go:59).            *)
THEOREM HangsAreReported == Spec => []HangIsReported
<1>1. SamplerInv => HangIsReported
  BY SamplerAssumption DEF SamplerInv, TypeOK, HangInv, HangIsReported, Stale, LastSampleAge
<1>. QED
  BY <1>1, SamplerInvariant, PTL

-----------------------------------------------------------------------------
(* PromptInv holds when New has begun. *)
LEMMA PromptInvInit == Init => PromptInv
BY SamplerAssumption DEF Init, PromptInv, Working

(* The clock cannot move while a prompt sampler is due to do something, so  *)
(* every step keeps PromptInv.                                              *)
LEMMA PromptInvStep ==
  ASSUME Prompt, SamplerInv, PromptInv, [Next]_svars
  PROVE  PromptInv'
<1>. USE SamplerAssumption DEF SamplerInv, TypeOK, HangInv
<1>1. CASE Advance
  <2>. DEFINE tick == started /\ Enabled /\ pc # "returned" /\ now + 1 = due
  <2>1. /\ now' = now + 1
        /\ UNCHANGED << started, cancelled, pc, began, lastSample >>
        /\ pc \in Working => now < began + CollectBound
        /\ pc = "built" => now < lastSample + StartDelay
        /\ pc = "select" => ~ pending
    BY <1>1 DEF Advance, Urgent, published
  <2>2. CASE tick
    <3>1. pending' /\ due' = due + Interval
      BY <1>1, <2>2 DEF Advance
    <3>. QED
      BY <2>1, <2>2, <3>1 DEF PromptInv, Working
  <2>3. CASE ~ tick
    <3>1. UNCHANGED << pending, due >>
      BY <1>1, <2>3 DEF Advance
    <3>2. (started /\ pc # "returned") => Enabled
      BY DEF PromptInv
    <3>. QED
      BY <2>1, <2>3, <3>1, <3>2 DEF PromptInv, Working
  <2>. QED
    BY <2>2, <2>3
<1>2. CASE Cancel
  BY <1>2 DEF PromptInv, Cancel, published
<1>3. CASE Start
  BY <1>3 DEF PromptInv, Start, Working, published
<1>4. CASE SelectTick
  BY <1>4 DEF PromptInv, SelectTick, Working, published
<1>5. CASE SelectDone
  BY <1>5 DEF PromptInv, SelectDone, Working, published
<1>6. CASE Collect
  BY <1>6 DEF PromptInv, Collect, Working, published
<1>7. CASE PublishLatest \/ PublishPush
  BY <1>7 DEF PromptInv, PublishLatest, PublishPush, Working
<1>8. CASE PublishStamp
  BY <1>8 DEF PromptInv, PublishStamp, Working
<1>9. CASE UNCHANGED svars
  BY <1>9 DEF PromptInv, svars, published
<1>. QED
  BY <1>1, <1>2, <1>3, <1>4, <1>5, <1>6, <1>7, <1>8, <1>9
     DEF Next, SamplerNext, EnvNext, Work, Publish

(* The factor two of the threshold (main.go:100) is enough: a sampler that  *)
(* keeps up, with StartDelay + CollectBound <= Interval, is reported "ok"   *)
(* at every instant between Start and the shutdown signal.                  *)
THEOREM NoFalseAlarms == ASSUME Prompt PROVE Spec => []NoFalseAlarm
<1>1. SamplerInv /\ PromptInv => NoFalseAlarm
  <2>. SUFFICES ASSUME SamplerInv, PromptInv,
                       StartDelay + CollectBound <= Interval, started, Enabled, ~ cancelled
                PROVE  ~ Stale
    BY DEF NoFalseAlarm
  <2>1. lastSample >= 1 /\ lastSample <= now /\ lastSample \in Nat /\ now \in Nat
    BY DEF SamplerInv, TypeOK, PromptInv, HangInv
  <2>2. pc \in Working \cup {"select"}
    BY DEF SamplerInv, TypeOK, PromptInv
  <2>3. now - lastSample <= 2 * Interval
    BY <2>2, SamplerAssumption DEF SamplerInv, TypeOK, PromptInv, HangInv
  <2>. QED
    BY <2>1, <2>3, SamplerAssumption DEF Stale, LastSampleAge
<1>. QED
  BY <1>1, PromptInvInit, PromptInvStep, SamplerInvariant, PTL DEF Spec
-----------------------------------------------------------------------------
(* The handlers *)

(* The handlers leave the module alone, so what is proved of it holds while *)
(* they run.                                                                *)
THEOREM HandlersOnlyRead == APISpec => Spec
<1>1. APIInit => Init
  BY DEF APIInit
<1>2. [APINext]_vars => [Next]_svars
  BY DEF APINext, ClientNext, GetLatest, GetHistory, HistorySnapshot, GetHealth, HealthCompare, vars
<1>. QED
  BY <1>1, <1>2, PTL DEF APISpec, Spec

(* Between the two reads of a /health request: unless something has been    *)
(* published since the first, the age can only have grown.                  *)
HealthInv ==
    /\ at \in [Clients -> {"idle", "snapshot", "compare"}]
    /\ age \in [Clients -> Int] /\ mark \in [Clients -> Nat]
    /\ DOMAIN reply = Clients
    /\ \A c \in Clients : at[c] = "compare" =>
          mark[c] <= stamped /\ (mark[c] = stamped => age[c] <= LastSampleAge)

LEMMA HealthInvInit == APIInit => HealthInv
  BY DEF APIInit, ClientInit, HealthInv

LEMMA AgeTyped ==
  ASSUME SamplerInv
  PROVE  stamped \in Nat /\ LastSampleAge \in Int
BY DEF SamplerInv, TypeOK, LastSampleAge

(* A step of the module: a publication has a new number, and otherwise the  *)
(* age does not shrink.                                                     *)
LEMMA AgeGrows ==
  ASSUME SamplerInv, [Next]_svars
  PROVE  /\ stamped' \in Nat /\ LastSampleAge' \in Int /\ stamped <= stamped'
         /\ stamped = stamped' => LastSampleAge <= LastSampleAge'
<1>1. SamplerInv'
  BY SamplerInvStep
<1>2. /\ now \in Nat /\ now' \in Nat /\ lastSample \in Nat /\ lastSample' \in Nat
      /\ stamped \in Nat /\ stamped' \in Nat
  BY <1>1 DEF SamplerInv, TypeOK
<1>. DEFINE Age(t, l) == IF l = 0 THEN -1 ELSE t - l
<1>a. LastSampleAge = Age(now, lastSample) /\ LastSampleAge' = Age(now', lastSample')
  BY DEF LastSampleAge
<1>b. \A t, l \in Nat : Age(t, l) \in Int
  OBVIOUS
<1>c. \A t, u, l \in Nat : t <= u => Age(t, l) <= Age(u, l)
  OBVIOUS
<1>. HIDE DEF Age
<1>3. CASE PublishStamp
  <2>1. stamped' = stamped + 1
    BY <1>3 DEF SamplerInv, TypeOK, LoopInv, PublishStamp, Publishing, Samples
  <2>. QED
    BY <1>2, <1>a, <1>b, <1>c, <2>1
<1>4. CASE ~ PublishStamp
  <2>1. UNCHANGED << stamped, lastSample >> /\ now <= now'
    BY <1>2, <1>4 DEF Next, SamplerNext, EnvNext, Work, Publish, Advance, Cancel, Start, SelectTick,
          SelectDone, Collect, PublishLatest, PublishPush, published, svars
  <2>. QED
    BY <1>2, <1>a, <1>b, <1>c, <2>1
<1>. QED
  BY <1>3, <1>4

LEMMA HealthInvStep == HealthInv /\ SamplerInv /\ [APINext]_vars => HealthInv'
<1>. SUFFICES ASSUME HealthInv, SamplerInv, [APINext]_vars PROVE HealthInv'
  OBVIOUS
<1>0. stamped \in Nat /\ LastSampleAge \in Int
  BY AgeTyped
<1>1. CASE [Next]_svars /\ UNCHANGED cvars
  BY <1>0, <1>1, AgeGrows DEF HealthInv, cvars
<1>2. ASSUME NEW c \in Clients, NEW r, Answer(c, r), UNCHANGED svars PROVE HealthInv'
  <2>1. UNCHANGED << stamped, LastSampleAge >>
    BY <1>2 DEF svars, published, LastSampleAge
  <2>. QED
    BY <1>2, <2>1 DEF HealthInv, Answer
<1>3. ASSUME NEW c \in Clients, ClientNext(c) PROVE HealthInv'
  <2>1. UNCHANGED << stamped, LastSampleAge >>
    BY <1>3 DEF ClientNext, GetLatest, GetHistory, HistorySnapshot, GetHealth, HealthCompare,
          svars, published, LastSampleAge
  <2>2. CASE GetLatest(c) \/ HistorySnapshot(c) \/ HealthCompare(c)
    BY <1>2, <2>2 DEF GetLatest, HistorySnapshot, HealthCompare
  <2>3. ASSUME NEW d, NEW n, GetHistory(c, d, n) PROVE HealthInv'
    <3>1. CASE ~ Enabled \/ d = BadWindow
      BY <1>2, <2>3, <3>1 DEF GetHistory
    <3>2. CASE ~ (~ Enabled \/ d = BadWindow)
      BY <2>1, <2>3, <3>2 DEF GetHistory, HealthInv
    <3>. QED
      BY <3>1, <3>2
  <2>4. CASE GetHealth(c)
    <3>1. CASE ~ Enabled
      BY <1>2, <2>4, <3>1 DEF GetHealth
    <3>2. CASE Enabled
      BY <1>0, <2>1, <2>4, <3>2 DEF GetHealth, HealthInv
    <3>. QED
      BY <3>1, <3>2
  <2>. QED
    BY <1>3, <2>2, <2>3, <2>4 DEF ClientNext
<1>4. CASE UNCHANGED vars
  BY <1>1, <1>4 DEF vars
<1>. QED
  BY <1>1, <1>3, <1>4 DEF APINext

(* A request that leaves the comparison does so by comparing. *)
LEMMA Compared ==
  ASSUME HealthInv, [APINext]_vars, NEW c \in Clients, at[c] = "compare", at'[c] = "idle"
  PROVE  /\ UNCHANGED svars
         /\ reply'[c] = HealthReply(Stale, age[c])
<1>1. PICK b \in Clients : ClientNext(b)
  BY DEF APINext, cvars, vars
<1>2. c = b
  BY <1>1 DEF HealthInv, ClientNext, GetLatest, GetHistory, HistorySnapshot, GetHealth, HealthCompare, Answer
<1>3. HealthCompare(c)
  BY <1>1, <1>2 DEF ClientNext, GetLatest, GetHistory, HistorySnapshot, GetHealth
<1>. QED
  BY <1>3 DEF HealthCompare, Answer, HealthInv

LEMMA OkMeansRecent ==
  ASSUME NEW ms, HealthReply(Stale, ms).code = 200
  PROVE  ~ Stale /\ HealthReply(Stale, ms).age = ms
BY DEF HealthReply, Reply

(* The two ages a /health request reads (health.go:57,59) contradict each   *)
(* other only if the module has published in between, for any clients and   *)
(* any interval.                                                            *)
THEOREM ContradictionsAreExplained == APISpec => HealthContradictionExplained
<1>1. ASSUME HealthInv, SamplerInv, [APINext]_vars, NEW c \in Clients, at[c] = "compare", at'[c] = "idle",
             reply'[c].code = 200, reply'[c].age > 2 * Interval
      PROVE  stamped > mark[c]
  <2>1. ~ Stale /\ reply'[c].age = age[c]
    BY <1>1, Compared, OkMeansRecent
  <2>2. mark[c] <= stamped /\ (mark[c] = stamped => age[c] <= LastSampleAge) /\ mark[c] \in Nat /\ age[c] \in Int
    BY <1>1 DEF HealthInv
  <2>3. stamped \in Nat /\ LastSampleAge \in Int
    BY <1>1, AgeTyped
  <2>4. LastSampleAge <= 2 * Interval
    BY <2>1, <2>3, SamplerAssumption DEF Stale
  <2>. QED
    BY <1>1, <2>1, <2>2, <2>3, <2>4, SamplerAssumption
<1>2. HealthInv /\ SamplerInv /\ [APINext]_vars =>
        [\A c \in Clients :
           (at[c] = "compare" /\ at'[c] = "idle" /\ reply'[c].code = 200 /\ reply'[c].age > 2 * Interval)
              => stamped > mark[c]]_vars
  BY <1>1
<1>. QED
  BY <1>2, HealthInvInit, HealthInvStep, HandlersOnlyRead, SamplerInvariant, PTL
     DEF APISpec, HealthContradictionExplained

-----------------------------------------------------------------------------
(* When the values of a prompt sampler were read: after the collection      *)
(* began, and at most CollectBound before they were published.              *)
ReadInv ==
    /\ pc \in Publishing => cur.at >= began
    /\ lastSample # 0 => latest # None
    /\ latest # None => latest.at + CollectBound >= lastSample
    /\ ~ started /\ pc \in Working => lastSample = 0

LEMMA ReadInvInit == Init => ReadInv
  BY DEF Init, ReadInv, Publishing

(* Every collector but that of the storage module reads its values while it *)
(* collects.                                                                *)
LEMMA CollectedAt ==
  ASSUME SamplerInv, Kind # "storage", NEW s \in Collected
  PROVE  s.at >= began /\ s.at \in Int
<1>1. now \in Nat /\ began \in Nat
  BY DEF SamplerInv, TypeOK
<1>2. s.at \in began .. now
  BY CollectedIs DEF ReadTimes, Sample
<1>. QED
  BY <1>1, <1>2

LEMMA ReadInvStep ==
  ASSUME Prompt, Kind # "storage", SamplerInv, PromptInv, ReadInv, [Next]_svars
  PROVE  ReadInv'
<1>. USE SamplerAssumption
<1>0. /\ began \in Nat /\ now \in Nat /\ lastSample \in Nat /\ CollectBound \in Nat
      /\ pc \in Publishing => cur \in Samples /\ cur # None /\ cur.at \in Int
      /\ Publishing \subseteq Working
      /\ latest # None => latest.at \in Int
  BY DEF SamplerInv, TypeOK, LoopInv, Publishing, Working, Samples
<1>1. CASE Advance \/ Cancel \/ Start \/ SelectTick \/ SelectDone \/ UNCHANGED svars
  <2>1. UNCHANGED << published, cur >>
    BY <1>1 DEF Advance, Cancel, Start, SelectTick, SelectDone, svars
  <2>2. pc' \in Publishing => pc \in Publishing /\ began' = began
    BY <1>1 DEF Advance, Cancel, Start, SelectTick, SelectDone, svars, Publishing
  <2>3. ~ started' /\ pc' \in Working => ~ started /\ pc \in Working
    BY <1>1 DEF PromptInv, Advance, Cancel, Start, SelectTick, SelectDone, svars, Working
  <2>. QED
    BY <2>1, <2>2, <2>3 DEF ReadInv, published
<1>2. CASE Collect
  <2>1. cur'.at >= began /\ UNCHANGED << published, began, started >> /\ pc = "collect"
    BY <1>2, CollectedAt DEF Collect
  <2>. QED
    BY <2>1 DEF ReadInv, published, Working
<1>3. CASE PublishLatest
  <2>1. /\ pc = "publish" /\ latest' = cur /\ pc' = "push"
        /\ UNCHANGED << began, cur, started, lastSample >>
    BY <1>3 DEF PublishLatest
  <2>2. lastSample <= began
    BY <1>0, <2>1 DEF ReadInv, SamplerInv, HangInv, Working
  <2>. QED
    BY <1>0, <2>1, <2>2 DEF ReadInv, Publishing, Working
<1>4. CASE PublishPush
  BY <1>0, <1>4 DEF ReadInv, PublishPush, Publishing, Working
<1>5. CASE PublishStamp
  <2>1. /\ pc = "stamp" /\ lastSample' = now /\ pc' \in {"select", "built"} /\ latest' = latest
    BY <1>5 DEF PublishStamp
  <2>2. latest = cur /\ now <= began + CollectBound /\ cur.at >= began
    BY <2>1 DEF SamplerInv, LoopInv, PromptInv, Working, ReadInv, Publishing
  <2>3. cur # None /\ cur.at \in Int
    BY <1>0, <2>1 DEF Publishing
  <2>. QED
    BY <1>0, <2>1, <2>2, <2>3 DEF ReadInv, Publishing, Working
<1>. QED
  BY <1>1, <1>2, <1>3, <1>4, <1>5 DEF Next, SamplerNext, EnvNext, Work, Publish

(* After "ok" from /health what GET /metrics/<name> serves of the cpu,      *)
(* memory and gpu modules has been read within the threshold and the time   *)
(* one collection takes, for every choice of the interval and the bounds of *)
(* a prompt sampler.                                                        *)
THEOREM HealthyIsFresh == ASSUME Prompt PROVE APISpec => HealthyMeansFresh
<1>1. ASSUME HealthInv, SamplerInv, ReadInv, [APINext]_vars, NEW c \in Clients,
             at[c] = "compare", at'[c] = "idle", reply'[c].code = 200
      PROVE  now - latest.at <= 2 * Interval + CollectBound
  <2>1. ~ Stale
    BY <1>1, Compared, OkMeansRecent
  <2>2. /\ now \in Nat /\ lastSample \in Nat
        /\ latest # None => latest.at \in Int
    BY <1>1 DEF SamplerInv, TypeOK, Samples
  <2>3. lastSample # 0 /\ now - lastSample <= 2 * Interval
    BY <2>1, <2>2, SamplerAssumption DEF Stale, LastSampleAge
  <2>. QED
    BY <1>1, <2>2, <2>3, SamplerAssumption DEF ReadInv
<1>2. HealthInv /\ SamplerInv /\ (Kind # "storage" => ReadInv) /\ [APINext]_vars =>
        [\A c \in Clients :
           (Prompt /\ Kind # "storage" /\ at[c] = "compare" /\ at'[c] = "idle" /\ reply'[c].code = 200)
              => now - latest.at <= 2 * Interval + CollectBound]_vars
  BY <1>1
<1>3. SamplerInv /\ PromptInv /\ (Kind # "storage" => ReadInv) /\ [Next]_svars => (Kind # "storage" => ReadInv)'
  BY ReadInvStep
<1>4. Spec => [](SamplerInv /\ PromptInv /\ (Kind # "storage" => ReadInv))
  BY <1>3, PromptInvInit, PromptInvStep, ReadInvInit, SamplerInvariant, PTL DEF Spec
<1>. QED
  BY <1>2, <1>4, HealthInvInit, HealthInvStep, HandlersOnlyRead, PTL DEF APISpec, HealthyMeansFresh

-----------------------------------------------------------------------------
(* What HistoryWithin and BuildHistoryResponse select *)

(* The loop of HistoryWithin: f[n] is what it has after n samples. *)
LEMMA KeepUnfolds ==
  ASSUME NEW s \in Seq(Samples), NEW t \in Int
  PROVE  \E f \in [0 .. Len(s) -> Seq(Samples)] :
           /\ Keep(s, t) = f[Len(s)]
           /\ f[0] = << >>
           /\ \A n \in 1 .. Len(s) : f[n] = IF s[n].ts >= t THEN Append(f[n - 1], s[n]) ELSE f[n - 1]
<1>. DEFINE N == Len(s)
            A == Seq(Samples)
            a == << >>
            Step(n, x) == IF s[n].ts >= t THEN Append(x, s[n]) ELSE x
            g == [n \in 1 .. N |-> [x \in A |-> Step(n, x)]]
            Eq(f) == f = [n \in 0 .. N |-> IF n = 0 THEN a ELSE Step(n, f[n - 1])]
<1>1. N \in Nat /\ a \in A
  OBVIOUS
<1>2. \A n \in 1 .. N, x \in A : Step(n, x) \in A
  OBVIOUS
<1>3. (\E f : Eq(f)) => \E f : Eq(f) /\ Keep(s, t) = f[N]
  BY Zenon DEF Keep
<1>. HIDE DEF N, A, a, Step
<1>4. Steps(g, N, A) /\ \A n \in 1 .. N, x \in A : g[n][x] = Step(n, x)
  BY <1>2 DEF Steps
<1>. HIDE DEF g
<1>5. \E f : Eq(f)
  <2>1. PICK f : Iterates(f, N, A, a, g)
    BY <1>1, <1>4, Iteration
  <2>2. \A n \in 0 .. N : f[n] = IF n = 0 THEN a ELSE Step(n, f[n - 1])
    BY <1>1, <1>4, <2>1 DEF Iterates
  <2>3. f = [n \in 0 .. N |-> f[n]]
    BY <2>1 DEF Iterates
  <2>4. Eq(f)
    BY <2>2, <2>3, Zenon
  <2>. QED
    BY <2>4
<1>6. PICK f : Eq(f) /\ Keep(s, t) = f[N]
  BY <1>3, <1>5
<1>7. f[0] = a /\ \A n \in 1 .. N : f[n] = Step(n, f[n - 1])
  BY <1>1, <1>6
<1>8. f = [n \in 0 .. N |-> f[n]]
  BY <1>6
<1>9. \A n \in 1 .. N : f[n - 1] \in A => f[n] = g[n][f[n - 1]]
  BY <1>4, <1>7
<1>10. Iterates(f, N, A, a, g)
  BY <1>1, <1>4, <1>7, <1>8, <1>9, IterationType
<1>11. f \in [0 .. N -> A]
  BY <1>10 DEF Iterates
<1>. QED
  BY <1>6, <1>7, <1>11 DEF N, A, a, Step

(* r is what passes of the first n entries of s, in order: ix[j] is where   *)
(* its j-th entry is in s.                                                  *)
Selects(ix, r, s, t, n) ==
    /\ ix \in [1 .. Len(r) -> 1 .. n]
    /\ \A j \in 1 .. Len(r) : r[j] = s[ix[j]] /\ s[ix[j]].ts >= t
    /\ \A j, k \in 1 .. Len(r) : j <= k => ix[k] - ix[j] >= k - j
    /\ \A i \in 1 .. n : s[i].ts >= t => \E j \in 1 .. Len(r) : ix[j] = i

(* One more entry, which passes, ... *)
LEMMA SelectsMore ==
  ASSUME NEW s \in Seq(Samples), NEW t \in Int, NEW r \in Seq(Samples), NEW ix,
         NEW n \in Nat, n + 1 \in 1 .. Len(s), Selects(ix, r, s, t, n), s[n + 1].ts >= t
  PROVE  \E iy : Selects(iy, Append(r, s[n + 1]), s, t, n + 1)
<1>. DEFINE L == Len(r)
            q == Append(r, s[n + 1])
            iy == [j \in 1 .. L + 1 |-> IF j <= L THEN ix[j] ELSE n + 1]
<1>1. L \in Nat /\ Len(q) = L + 1 /\ q[L + 1] = s[n + 1] /\ \A j \in 1 .. L : q[j] = r[j]
  OBVIOUS
<1>. HIDE DEF L, q
<1>2. /\ ix \in [1 .. L -> 1 .. n]
      /\ \A j \in 1 .. L : r[j] = s[ix[j]] /\ s[ix[j]].ts >= t
      /\ \A j, k \in 1 .. L : j <= k => ix[k] - ix[j] >= k - j
      /\ \A i \in 1 .. n : s[i].ts >= t => \E j \in 1 .. L : ix[j] = i
  BY DEF Selects, L
<1>3. iy \in [1 .. L + 1 -> 1 .. n + 1]
  BY <1>1, <1>2
<1>4. iy[L + 1] = n + 1 /\ \A j \in 1 .. L : iy[j] = ix[j] /\ ix[j] \in 1 .. n
  BY <1>1, <1>2
<1>5. \A j \in 1 .. L + 1 : j \in 1 .. L \/ j = L + 1
  BY <1>1
<1>6. L + 1 \in 1 .. L + 1 /\ 1 .. L \subseteq 1 .. L + 1
  BY <1>1
<1>. HIDE DEF iy
<1>7. \A j \in 1 .. L + 1 : q[j] = s[iy[j]] /\ s[iy[j]].ts >= t
  BY <1>1, <1>2, <1>4, <1>5
<1>8. ASSUME NEW j \in 1 .. L + 1, NEW k \in 1 .. L + 1, j <= k PROVE iy[k] - iy[j] >= k - j
  <2>1. CASE k \in 1 .. L
    <3>1. j \in 1 .. L
      BY <1>1, <1>8, <2>1
    <3>2. ix[k] - ix[j] >= k - j /\ iy[k] = ix[k] /\ iy[j] = ix[j]
      BY <1>2, <1>4, <1>8, <2>1, <3>1
    <3>. QED
      BY <3>2
  <2>2. CASE k = L + 1 /\ j = L + 1
    BY <1>1, <1>4, <2>2
  <2>3. CASE k = L + 1 /\ j \in 1 .. L
    <3>1. L \in 1 .. L /\ j <= L
      BY <1>1, <2>3
    <3>2. ix[L] - ix[j] >= L - j /\ ix[L] \in 1 .. n /\ ix[j] \in 1 .. n
      BY <1>2, <1>4, <2>3, <3>1
    <3>3. (n + 1) - ix[j] >= (L + 1) - j
      BY <1>1, <3>2
    <3>. QED
      BY <1>4, <2>3, <3>3
  <2>. QED
    BY <1>5, <2>1, <2>2, <2>3
<1>9. ASSUME NEW i \in 1 .. n + 1, s[i].ts >= t PROVE \E j \in 1 .. L + 1 : iy[j] = i
  <2>1. CASE i = n + 1
    BY <1>4, <1>6, <2>1
  <2>2. CASE i # n + 1
    <3>1. i \in 1 .. n
      BY <2>2
    <3>. QED
      BY <1>2, <1>4, <1>6, <1>9, <3>1
  <2>. QED
    BY <2>1, <2>2
<1>10. Selects(iy, q, s, t, n + 1)
  BY <1>1, <1>3, <1>7, <1>8, <1>9 DEF Selects
<1>. QED
  BY <1>10 DEF q

(* ... or does not. *)
LEMMA SelectsSame ==
  ASSUME NEW s \in Seq(Samples), NEW t \in Int, NEW r \in Seq(Samples), NEW ix,
         NEW n \in Nat, n + 1 \in 1 .. Len(s), Selects(ix, r, s, t, n), ~ (s[n + 1].ts >= t)
  PROVE  Selects(ix, r, s, t, n + 1)
<1>1. \A i \in 1 .. n + 1 : i \in 1 .. n \/ i = n + 1
  OBVIOUS
<1>2. 1 .. n \subseteq 1 .. n + 1
  OBVIOUS
<1>. QED
  BY <1>1, <1>2 DEF Selects

(* HistoryWithin returns exactly the entries that are not before the        *)
(* cutoff, in their order (base.go:84-105).                                 *)
LEMMA KeepSelects ==
  ASSUME NEW s \in Seq(Samples), NEW t \in Int
  PROVE  Keep(s, t) \in Seq(Samples) /\ \E ix : Selects(ix, Keep(s, t), s, t, Len(s))
<1>1. PICK f \in [0 .. Len(s) -> Seq(Samples)] :
           /\ Keep(s, t) = f[Len(s)]
           /\ f[0] = << >>
           /\ \A n \in 1 .. Len(s) : f[n] = IF s[n].ts >= t THEN Append(f[n - 1], s[n]) ELSE f[n - 1]
  BY KeepUnfolds
<1>. DEFINE N == Len(s)
            S == {n \in 0 .. N : \E ix : Selects(ix, f[n], s, t, n)}
<1>2. N \in Nat /\ 0 \in 0 .. N /\ N \in 0 .. N
  OBVIOUS
<1>3. 0 \in S
  <2>1. Len(<< >>) = 0 /\ 1 .. 0 = {}
    OBVIOUS
  <2>2. Selects([j \in 1 .. 0 |-> 0], f[0], s, t, 0)
    BY <1>1, <2>1 DEF Selects
  <2>. QED
    BY <1>2, <2>2
<1>4. ASSUME NEW n \in 0 .. N - 1, n \in S PROVE n + 1 \in S
  <2>1. PICK ix : Selects(ix, f[n], s, t, n)
    BY <1>4
  <2>2. n \in Nat /\ n + 1 \in 1 .. Len(s) /\ n + 1 \in 0 .. N /\ n \in 0 .. N
    BY <1>2
  <2>3. PICK m \in 1 .. Len(s) : m = n + 1 /\ m - 1 = n
    BY <2>2
  <2>4. f[n] \in Seq(Samples)
    BY <2>2
  <2>5. f[m] = IF s[m].ts >= t THEN Append(f[n], s[m]) ELSE f[n]
    BY <1>1, <2>3
  <2>6. \E iy : Selects(iy, f[n + 1], s, t, n + 1)
    <3>1. CASE s[m].ts >= t
      BY <2>1, <2>2, <2>3, <2>4, <2>5, <3>1, SelectsMore
    <3>2. CASE ~ (s[m].ts >= t)
      BY <2>1, <2>2, <2>3, <2>4, <2>5, <3>2, SelectsSame
    <3>. QED
      BY <3>1, <3>2
  <2>. QED
    BY <2>2, <2>6
<1>. HIDE DEF S
<1>5. \A n \in 0 .. N - 1 : n \in S => n + 1 \in S
  BY <1>4
<1>6. N \in S
  <2>. HIDE DEF N
  <2>. QED
    BY <1>2, <1>3, <1>5, SetInduction
<1>. QED
  BY <1>1, <1>2, <1>6 DEF S

(* The answer: the entries of s from the cutoff t on, the newest n of them  *)
(* if n is positive.                                                        *)
Answers(ix, items, s, t, n) ==
    /\ items \in Seq(Samples)
    /\ ix \in [1 .. Len(items) -> 1 .. Len(s)]
    /\ \A j \in 1 .. Len(items) : items[j] = s[ix[j]] /\ s[ix[j]].ts >= t
    /\ \A j, k \in 1 .. Len(items) : j < k => ix[j] < ix[k]
    /\ \A i \in 1 .. Len(s) : (s[i].ts >= t /\ (n = 0 \/ i > Len(s) - n))
          => \E j \in 1 .. Len(items) : ix[j] = i

LEMMA TrimIs ==
  ASSUME NEW r \in Seq(Samples), NEW n \in Nat
  PROVE  \E o \in Nat :
           /\ o = 0 \/ (n > 0 /\ o = Len(r) - n)
           /\ Trim(r, n) \in Seq(Samples) /\ Len(Trim(r, n)) = Len(r) - o
           /\ \A j \in 1 .. Len(r) - o : Trim(r, n)[j] = r[j + o]
<1>1. CASE n > 0 /\ Len(r) > n
  <2>. DEFINE o == Len(r) - n
  <2>1. o \in Nat /\ Len(r) \in Nat /\ o + 1 \in 1 .. Len(r) + 1 /\ Len(r) - (o + 1) + 1 = n
    BY <1>1
  <2>2. Trim(r, n) = SubSeq(r, o + 1, Len(r))
    BY <1>1 DEF Trim
  <2>3. /\ SubSeq(r, o + 1, Len(r)) \in Seq(Samples)
        /\ Len(SubSeq(r, o + 1, Len(r))) = n
        /\ \A j \in 1 .. n : SubSeq(r, o + 1, Len(r))[j] = r[j + o]
    BY <1>1
  <2>4. Len(r) - o = n
    OBVIOUS
  <2>. QED
    BY <1>1, <2>1, <2>2, <2>3, <2>4
<1>2. CASE ~ (n > 0 /\ Len(r) > n)
  <2>1. Trim(r, n) = r /\ Len(r) - 0 = Len(r) /\ \A j \in 1 .. Len(r) : j + 0 = j
    BY <1>2 DEF Trim
  <2>. QED
    BY <2>1
<1>. QED
  BY <1>1, <1>2

LEMMA HistoryAnswers ==
  ASSUME NEW s \in Seq(Samples), NEW t \in Int, NEW n \in Nat
  PROVE  \E ix : Answers(ix, Trim(Keep(s, t), n), s, t, n)
<1>. DEFINE r == Keep(s, t)
            items == Trim(r, n)
<1>1. r \in Seq(Samples) /\ Len(s) \in Nat
  <2>1. r \in Seq(Samples)
    BY KeepSelects, Zenon
  <2>2. Len(s) \in Nat
    OBVIOUS
  <2>. QED
    BY <2>1, <2>2
<1>2. PICK ir : Selects(ir, r, s, t, Len(s))
  BY KeepSelects
<1>. HIDE DEF r
<1>3. PICK o \in Nat :
           /\ o = 0 \/ (n > 0 /\ o = Len(r) - n)
           /\ items \in Seq(Samples) /\ Len(items) = Len(r) - o
           /\ \A j \in 1 .. Len(r) - o : items[j] = r[j + o]
  BY <1>1, TrimIs
<1>. HIDE DEF items
<1>. DEFINE L == Len(r)
            M == Len(items)
            ix == [j \in 1 .. M |-> ir[j + o]]
<1>4. L \in Nat /\ M \in Nat /\ M = L - o
  BY <1>1, <1>3
<1>t. ir \in [1 .. L -> 1 .. Len(s)]
  BY <1>2 DEF Selects
<1>5. /\ ir \in [1 .. L -> 1 .. Len(s)]
      /\ \A j \in 1 .. L : r[j] = s[ir[j]] /\ s[ir[j]].ts >= t
      /\ \A j, k \in 1 .. L : j <= k => ir[k] - ir[j] >= k - j
      /\ \A i \in 1 .. Len(s) : s[i].ts >= t => \E j \in 1 .. L : ir[j] = i
  BY <1>2 DEF Selects
<1>. HIDE DEF L, M
<1>6. \A j \in 1 .. M : j + o \in 1 .. L /\ items[j] = r[j + o]
  BY <1>3, <1>4 DEF L
<1>7. ix \in [1 .. M -> 1 .. Len(s)] /\ \A j \in 1 .. M : ix[j] = ir[j + o]
  BY <1>5, <1>6
<1>. HIDE DEF ix
<1>8. \A j \in 1 .. M : items[j] = s[ix[j]] /\ s[ix[j]].ts >= t
  BY <1>5, <1>6, <1>7
<1>9. ASSUME NEW j \in 1 .. M, NEW k \in 1 .. M, j < k PROVE ix[j] < ix[k]
  <2>1. j + o \in 1 .. L /\ k + o \in 1 .. L /\ j + o <= k + o
    BY <1>6, <1>9
  <2>2. ir[k + o] - ir[j + o] >= (k + o) - (j + o)
    BY <1>5, <2>1
  <2>a. ir[k + o] \in 1 .. Len(s) /\ ir[j + o] \in 1 .. Len(s)
    BY <1>t, <2>1, Zenon
  <2>b. ir[k + o] \in Int /\ ir[j + o] \in Int
    BY <1>1, <2>a
  <2>3. ix[j] = ir[j + o] /\ ix[k] = ir[k + o]
    BY <1>7
  <2>. QED
    BY <1>9, <2>2, <2>3, <2>b
<1>10. ASSUME NEW i \in 1 .. Len(s), s[i].ts >= t, n = 0 \/ i > Len(s) - n
       PROVE  \E j \in 1 .. M : ix[j] = i
  <2>1. PICK k \in 1 .. L : ir[k] = i
    BY <1>5, <1>10
  <2>2. k > o
    <3>1. CASE o = 0
      BY <1>4, <3>1
    <3>2. CASE n > 0 /\ o = L - n
      <4>1. L \in 1 .. L /\ k <= L
        BY <1>4
      <4>2. ir[L] - ir[k] >= L - k /\ ir[L] \in 1 .. Len(s)
        BY <1>5, <4>1
      <4>. QED
        BY <1>1, <1>4, <1>10, <2>1, <3>2, <4>2
    <3>. QED
      BY <1>3, <3>1, <3>2 DEF L
  <2>3. k - o \in 1 .. M /\ k - o + o = k
    BY <1>4, <2>2
  <2>4. ix[k - o] = ir[k]
    BY <1>7, <2>3
  <2>. QED
    BY <2>1, <2>3, <2>4
<1>11. Answers(ix, items, s, t, n)
  BY <1>3, <1>7, <1>8, <1>9, <1>10 DEF Answers, M
<1>. QED
  BY <1>11 DEF items, r

-----------------------------------------------------------------------------
(* How the stamp of a sample lies to the time of its values: the gpu module *)
(* takes it before it reads, the others after; only a failed cpu sample has *)
(* none.                                                                    *)
Stamped(s) ==
    /\ Kind # "cpu" => s.ts # ZeroTime
    /\ Kind = "gpu" => s.at >= s.ts
    /\ Kind # "gpu" => s.at <= s.ts \/ s.ts = ZeroTime

(* b is not stamped before a, unless it has no stamp. *)
NotBefore(a, b) == a.ts <= b.ts \/ b.ts = ZeroTime

(* The order of a module's samples in time: stamps do not go back. *)
TimeInv ==
    /\ Epoch <= began
    /\ \A i \in 1 .. Len(buf) : Stamped(buf[i]) /\ buf[i].ts <= now
    /\ \A i, j \in 1 .. Len(buf) : i <= j => NotBefore(buf[i], buf[j])
    /\ pc = "collect" => \A i \in 1 .. Len(buf) : buf[i].ts <= began
    /\ pc \in {"publish", "push"} =>
          /\ Stamped(cur) /\ cur.ts <= now
          /\ \A i \in 1 .. Len(buf) : NotBefore(buf[i], cur)

LEMMA TimeInvInit == Init => TimeInv
  BY SamplerAssumption DEF Init, TimeInv

LEMMA CollectedStamp ==
  ASSUME SamplerInv, Epoch <= began, NEW s \in Collected
  PROVE  Stamped(s) /\ s.ts <= now /\ (s.ts >= began \/ s.ts = ZeroTime) /\ s.ts \in Int
<1>. USE SamplerAssumption
<1>1. now \in Nat /\ began \in Nat /\ began <= now
  BY DEF SamplerInv, TypeOK, HangInv
<1>2. PICK t \in ReadTimes, failed \in BOOLEAN, stamp \in {ZeroTime, now, began} :
           /\ s = Sample(LastId + 1, t, stamp, failed)
           /\ Kind = "gpu" => stamp = began
           /\ Kind # "gpu" => stamp = now \/ (Kind = "cpu" /\ stamp = ZeroTime)
  BY CollectedIs
<1>3. s.at = t /\ s.ts = stamp
  BY <1>2 DEF Sample
<1>4. t \in Int /\ t <= now /\ (Kind = "gpu" => began <= t)
  BY <1>1 DEF ReadTimes
<1>. QED
  BY <1>1, <1>2, <1>3, <1>4 DEF Stamped, ZeroTime

LEMMA TimeInvStep ==
  ASSUME SamplerInv, TimeInv, [Next]_svars
  PROVE  TimeInv'
<1>. USE SamplerAssumption
<1>1. /\ now \in Nat /\ began \in Nat /\ began <= now
      /\ buf \in Seq(Samples) /\ Len(buf) \in Nat /\ Len(buf) <= Cap
      /\ \A i \in 1 .. Len(buf) : buf[i].ts \in Int
  <2>1. now \in Nat /\ began \in Nat /\ began <= now /\ buf \in Seq(Samples) /\ Len(buf) <= Cap
    BY DEF SamplerInv, TypeOK, HangInv
  <2>2. \A x \in Samples : x.ts \in Int
    BY DEF Samples
  <2>. QED
    BY <2>1, <2>2
<1>2. CASE Advance \/ Cancel \/ Start \/ SelectTick \/ SelectDone \/ UNCHANGED svars
  <2>1. UNCHANGED << buf, cur >> /\ now' \in Nat /\ now <= now' /\ began' \in {began, now}
    BY <1>1, <1>2 DEF Advance, Cancel, Start, SelectTick, SelectDone, svars, published
  <2>2. pc' = "collect" => (pc = "collect" /\ began' = began) \/ began' = now
    BY <1>2 DEF Advance, Cancel, Start, SelectTick, SelectDone, svars
  <2>3. pc' \in {"publish", "push"} => pc \in {"publish", "push"} /\ cur \in Samples
    BY <1>2 DEF Advance, Cancel, Start, SelectTick, SelectDone, svars, SamplerInv, LoopInv, Publishing
  <2>4. cur \in Samples => cur.ts \in Int
    BY DEF Samples
  <2>. QED
    BY <1>1, <2>1, <2>2, <2>3, <2>4 DEF TimeInv, Stamped, NotBefore
<1>3. CASE Collect
  <2>1. /\ pc = "collect" /\ pc' = "publish" /\ cur' \in Collected
        /\ UNCHANGED << buf, now, began >>
    BY <1>3 DEF Collect, published
  <2>2. /\ Stamped(cur') /\ cur'.ts <= now /\ cur'.ts \in Int
        /\ cur'.ts >= began \/ cur'.ts = ZeroTime
    BY <2>1, CollectedStamp DEF TimeInv
  <2>3. \A i \in 1 .. Len(buf) : NotBefore(buf[i], cur')
    BY <1>1, <2>1, <2>2 DEF TimeInv, NotBefore
  <2>. QED
    BY <2>1, <2>2, <2>3 DEF TimeInv, Stamped, NotBefore
<1>4. CASE PublishLatest
  BY <1>4 DEF TimeInv, PublishLatest, Stamped, NotBefore
<1>5. CASE PublishPush
  <2>1. /\ pc = "push" /\ pc' = "stamp" /\ buf' = BoundedAppend(buf, cur)
        /\ UNCHANGED << now, cur, began >> /\ cur \in Samples
    BY <1>5 DEF PublishPush, SamplerInv, LoopInv, Publishing
  <2>2. /\ Stamped(cur) /\ cur.ts <= now /\ cur.ts \in Int
        /\ \A i \in 1 .. Len(buf) : NotBefore(buf[i], cur)
    BY <2>1 DEF TimeInv, Samples
  <2>3. /\ buf' \in Seq(Samples) /\ buf'[Len(buf')] = cur
        /\ Len(buf') = IF Len(buf) < Cap THEN Len(buf) + 1 ELSE Cap
        /\ \A i \in 1 .. Len(buf') - 1 : buf'[i] = buf[i + Len(buf) + 1 - Len(buf')]
    BY <1>1, <2>1, AppendShape
  <2>. DEFINE K == Len(buf) + 1 - Len(buf')
  <2>4. /\ Len(buf') \in Nat /\ K \in Nat
        /\ \A i \in 1 .. Len(buf') : i = Len(buf') \/ (i \in 1 .. Len(buf') - 1 /\ i + K \in 1 .. Len(buf))
    BY <1>1, <2>3
  <2>5. ASSUME NEW i \in 1 .. Len(buf') - 1 PROVE buf'[i] = buf[i + K]
    <3>1. i + Len(buf) + 1 - Len(buf') = i + K
      BY <1>1, <2>4
    <3>2. buf'[i] = buf[i + Len(buf) + 1 - Len(buf')]
      BY <2>3
    <3>. QED
      BY <3>1, <3>2
  <2>. HIDE DEF K
  <2>6. \A i \in 1 .. Len(buf') : Stamped(buf'[i]) /\ buf'[i].ts <= now
    BY <2>2, <2>3, <2>4, <2>5 DEF TimeInv
  <2>7. ASSUME NEW i \in 1 .. Len(buf'), NEW j \in 1 .. Len(buf'), i <= j
        PROVE  NotBefore(buf'[i], buf'[j])
    <3>1. CASE i = Len(buf')
      <4>1. j = i
        BY <2>4, <2>7, <3>1
      <4>. QED
        BY <2>2, <2>3, <3>1, <4>1 DEF NotBefore
    <3>2. CASE i # Len(buf') /\ j = Len(buf')
      BY <2>2, <2>3, <2>4, <2>5, <3>2
    <3>3. CASE i # Len(buf') /\ j # Len(buf')
      <4>1. i + K \in 1 .. Len(buf) /\ j + K \in 1 .. Len(buf) /\ i + K <= j + K
        BY <2>4, <2>7, <3>3
      <4>. QED
        BY <2>4, <2>5, <3>3, <4>1 DEF TimeInv
    <3>. QED
      BY <3>1, <3>2, <3>3
  <2>. QED
    BY <2>1, <2>6, <2>7 DEF TimeInv, Stamped, NotBefore
<1>6. CASE PublishStamp
  BY <1>6 DEF TimeInv, PublishStamp, Stamped, NotBefore
<1>. QED
  BY <1>2, <1>3, <1>4, <1>5, <1>6 DEF Next, SamplerNext, EnvNext, Work, Publish

-----------------------------------------------------------------------------
LEMMA NewestTyped == SamplerInv => NewestId \in Nat
<1>. SUFFICES ASSUME SamplerInv PROVE NewestId \in Nat
  OBVIOUS
<1>1. buf \in Seq(Samples)
  BY DEF SamplerInv, TypeOK
<1>2. CASE buf = << >>
  BY <1>2 DEF NewestId
<1>3. CASE buf # << >>
  <2>1. buf[Len(buf)] \in Samples
    BY <1>1, <1>3
  <2>2. NewestId = buf[Len(buf)].id
    BY <1>3 DEF NewestId
  <2>. QED
    BY <2>1, <2>2 DEF Samples
<1>. QED
  BY <1>2, <1>3

(* The items are in order and within the window, with every sample of the   *)
(* window that the limit leaves.                                            *)
IsWindow(items, t, n) ==
    /\ \A i \in 1 .. Len(items) - 1 :
          items[i].id < items[i + 1].id /\ items[i].ts <= items[i + 1].ts
    /\ \A i \in 1 .. Len(items) :
          items[i].ts >= t /\ (Kind = "gpu" => items[i].at >= t)
    /\ \A i \in 1 .. Len(buf) :
          /\ buf[i].ts >= t \/ (Kind # "gpu" /\ buf[i].ts # ZeroTime /\ buf[i].at >= t)
          /\ n = 0 \/ i > Len(buf) - n
          => \E j \in 1 .. Len(items) : items[j] = buf[i]

(* A history answered at one instant is the window and, if it has a sample  *)
(* at all and all samples have stamps, the newest of the module is its end. *)
LEMMA HistoryShown ==
  ASSUME SamplerInv, TimeInv, NEW t \in Int, NEW n \in Nat,
         NEW items, items = Trim(Keep(buf, t), n)
  PROVE  /\ t > ZeroTime => IsWindow(items, t, n)
         /\ Kind # "cpu" /\ items # << >> => items[Len(items)].id = NewestId
<1>1. buf \in Seq(Samples) /\ Len(buf) \in Nat
  BY DEF SamplerInv, TypeOK
<1>2. PICK ix : Answers(ix, items, buf, t, n)
  BY <1>1, HistoryAnswers
<1>3. /\ items \in Seq(Samples) /\ Len(items) \in Nat
      /\ ix \in [1 .. Len(items) -> 1 .. Len(buf)]
      /\ \A j \in 1 .. Len(items) : items[j] = buf[ix[j]] /\ buf[ix[j]].ts >= t
      /\ \A j, k \in 1 .. Len(items) : j < k => ix[j] < ix[k]
      /\ \A i \in 1 .. Len(buf) : (buf[i].ts >= t /\ (n = 0 \/ i > Len(buf) - n))
            => \E j \in 1 .. Len(items) : ix[j] = i
  BY <1>2 DEF Answers
<1>4. /\ \A i \in 1 .. Len(buf) : Stamped(buf[i])
      /\ \A i, j \in 1 .. Len(buf) : i <= j => NotBefore(buf[i], buf[j])
  BY DEF TimeInv
<1>5. NewestId \in Int /\ \A i \in 1 .. Len(buf) : buf[i].id = NewestId - (Len(buf) - i)
  <2>1. NewestId \in Int
    BY NewestTyped
  <2>. QED
    BY <2>1 DEF SamplerInv, HistoryExact
<1>a. \A i \in 1 .. Len(buf) : buf[i].at \in Int /\ buf[i].ts \in Int
  <2>1. \A x \in Samples : x.at \in Int /\ x.ts \in Int
    BY DEF Samples
  <2>. QED
    BY <1>1, <2>1
<1>6. ASSUME t > ZeroTime, NEW i \in 1 .. Len(items) - 1
      PROVE  items[i].id < items[i + 1].id /\ items[i].ts <= items[i + 1].ts
  <2>1. i \in 1 .. Len(items) /\ i + 1 \in 1 .. Len(items) /\ i < i + 1
    BY <1>3
  <2>2. PICK p, q \in 1 .. Len(buf) :
              p < q /\ items[i] = buf[p] /\ items[i + 1] = buf[q] /\ buf[q].ts >= t
    BY <1>3, <2>1
  <2>3. buf[p].id < buf[q].id
    BY <1>1, <1>5, <2>2
  <2>4. buf[p].ts <= buf[q].ts
    <3>1. p <= q /\ buf[q].ts # ZeroTime
      BY <1>6, <1>a, <2>2 DEF ZeroTime
    <3>. QED
      BY <1>4, <3>1 DEF NotBefore
  <2>. QED
    BY <2>2, <2>3, <2>4
<1>7. \A i \in 1 .. Len(items) : items[i].ts >= t /\ (Kind = "gpu" => items[i].at >= t)
  BY <1>3, <1>4, <1>a DEF Stamped
<1>8. ASSUME NEW i \in 1 .. Len(buf),
             buf[i].ts >= t \/ (Kind # "gpu" /\ buf[i].ts # ZeroTime /\ buf[i].at >= t),
             n = 0 \/ i > Len(buf) - n
      PROVE  \E j \in 1 .. Len(items) : items[j] = buf[i]
  <2>1. buf[i].ts >= t
    BY <1>4, <1>8, <1>a DEF Stamped
  <2>. QED
    BY <1>3, <1>8, <2>1
<1>9. ASSUME Kind # "cpu", items # << >> PROVE items[Len(items)].id = NewestId
  <2>. DEFINE M == Len(items)
              B == Len(buf)
  <2>1. M \in 1 .. M /\ ix[M] \in 1 .. B
    BY <1>3, <1>9
  <2>2. B \in 1 .. B /\ ix[M] <= B /\ (n = 0 \/ B > B - n)
    BY <1>1, <2>1
  <2>. HIDE DEF M, B
  <2>3. buf[ix[M]].ts >= t /\ NotBefore(buf[ix[M]], buf[B]) /\ buf[B].ts # ZeroTime
    BY <1>3, <1>4, <1>9, <2>1, <2>2 DEF M, B, Stamped
  <2>4. buf[B].ts >= t
    <3>1. buf[ix[M]].ts \in Int /\ buf[B].ts \in Int
      BY <1>a, <2>1, <2>2 DEF B
    <3>. QED
      BY <2>3, <3>1 DEF NotBefore
  <2>5. PICK j \in 1 .. M : ix[j] = B
    BY <1>3, <2>2, <2>4 DEF M, B
  <2>6. j = M
    <3>1. SUFFICES ASSUME j < M PROVE FALSE
      BY <1>3 DEF M
    <3>2. ix[j] < ix[M]
      BY <1>3, <2>1, <3>1 DEF M
    <3>. QED
      BY <1>1, <2>1, <2>2, <2>5, <3>2 DEF B
  <2>7. items[M] = buf[B]
    BY <1>3, <2>1, <2>5, <2>6 DEF M
  <2>8. buf[B].id = NewestId - (B - B)
    BY <1>5, <2>2 DEF B
  <2>. QED
    BY <1>1, <1>5, <2>7, <2>8 DEF M, B
<1>. QED
  BY <1>6, <1>7, <1>8, <1>9 DEF IsWindow

(* What a client has been shown is among what the module has published. *)
SeenInv ==
    /\ cutoff \in [Clients -> Int] /\ limit \in [Clients -> Nat] /\ seen \in [Clients -> Nat]
    /\ \A c \in Clients : seen[c] <= LastId

LEMMA SeenInvInit == APIInit => SeenInv
  BY DEF APIInit, Init, ClientInit, SeenInv, LastId

LEMMA LastIdGrows ==
  ASSUME SamplerInv, [Next]_svars
  PROVE  LastId \in Nat /\ LastId' \in Nat /\ LastId <= LastId'
<1>. USE SamplerAssumption
<1>1. LastId \in Nat
  BY DEF SamplerInv, TypeOK, LastId, Samples
<1>2. CASE PublishLatest
  <2>1. cur \in Samples /\ cur # None /\ cur.id = LastId + 1
    BY <1>2 DEF SamplerInv, LoopInv, PublishLatest, Publishing
  <2>2. LastId' = LastId + 1
    BY <1>2, <2>1 DEF PublishLatest, LastId
  <2>. QED
    BY <1>1, <2>2
<1>3. CASE ~ PublishLatest
  <2>1. latest' = latest
    BY <1>3 DEF Next, SamplerNext, EnvNext, Work, Publish, Advance, Cancel, Start, SelectTick,
          SelectDone, Collect, PublishPush, PublishStamp, published, svars
  <2>2. LastId' = LastId
    BY <2>1 DEF LastId
  <2>. QED
    BY <1>1, <2>2
<1>. QED
  BY <1>2, <1>3

(* The answers that show something. *)
LEMMA LatestShown ==
  ASSUME SamplerInv, latest # None
  PROVE  << latest >>[Len(<< latest >>)].id = LastId
BY DEF LastId

LEMMA NotAhead ==
  ASSUME SamplerInv
  PROVE  NewestId <= LastId /\ LastId <= NewestId + 1 /\ NewestId \in Nat /\ LastId \in Nat
<1>1. stamped \in Nat /\ LastId \in Nat
  BY SamplerAssumption DEF SamplerInv, TypeOK, LastId, Samples
<1>. QED
  BY <1>1, NewestTyped, StoresInOrder DEF PublishOrder

Shows(r) == r.items # << >> =>
    r.items[Len(r.items)].id \in Nat /\ r.items[Len(r.items)].id <= LastId

LEMMA ShowsNothing ==
  ASSUME NEW route, NEW code, NEW ms
  PROVE  Shows(Reply(route, code, << >>, ms))
BY DEF Shows, Reply

LEMMA LatestShows ==
  ASSUME SamplerInv, latest # None
  PROVE  Shows(Reply("latest", 200, << latest >>, 0))
BY LatestShown, NotAhead DEF Shows, Reply

LEMMA HistoryShows ==
  ASSUME SamplerInv, NEW t \in Int, NEW n \in Nat
  PROVE  Shows(Reply("history", 200, Trim(Keep(buf, t), n), 0))
<1>. DEFINE items == Trim(Keep(buf, t), n)
<1>1. buf \in Seq(Samples) /\ Len(buf) \in Nat
  BY DEF SamplerInv, TypeOK
<1>2. PICK ix : Answers(ix, items, buf, t, n)
  BY <1>1, HistoryAnswers
<1>. HIDE DEF items
<1>3. ASSUME items # << >> PROVE items[Len(items)].id \in Nat /\ items[Len(items)].id <= NewestId
  <2>1. Len(items) \in 1 .. Len(items)
    BY <1>2, <1>3 DEF Answers
  <2>2. PICK i \in 1 .. Len(buf) : items[Len(items)] = buf[i]
    BY <1>2, <2>1 DEF Answers
  <2>3. buf[i].id = NewestId - (Len(buf) - i)
    BY DEF SamplerInv, HistoryExact
  <2>4. buf[i].id \in Nat
    <3>1. buf[i] \in Samples
      BY <1>1
    <3>. QED
      BY <3>1 DEF Samples
  <2>. QED
    BY <1>1, <2>2, <2>3, <2>4, NewestTyped
<1>4. Shows(Reply("history", 200, items, 0))
  BY <1>3, NotAhead DEF Shows, Reply
<1>. QED
  BY <1>4 DEF items

LEMMA SeenInvAnswer ==
  ASSUME SamplerInv, SeenInv, NEW c \in Clients, NEW r, Answer(c, r), UNCHANGED svars, Shows(r)
  PROVE  SeenInv'
<1>1. LastId' = LastId /\ LastId \in Nat
  BY NotAhead DEF svars, published, LastId
<1>2. cutoff' \in [Clients -> Int] /\ limit' \in [Clients -> Nat]
  BY DEF Answer, SeenInv
<1>3. seen' \in [Clients -> Nat] /\ \A b \in Clients : seen'[b] <= LastId
  <2>. DEFINE newest == r.items[Len(r.items)].id
  <2>1. CASE r.items = << >>
    BY <2>1 DEF Answer, SeenInv
  <2>2. CASE r.items # << >>
    <3>1. newest \in Nat /\ newest <= LastId
      BY <2>2 DEF Shows
    <3>2. seen' = [seen EXCEPT ![c] = IF newest > seen[c] THEN newest ELSE seen[c]]
      BY <2>2 DEF Answer
    <3>. HIDE DEF newest
    <3>. QED
      BY <1>1, <3>1, <3>2 DEF SeenInv
  <2>. QED
    BY <2>1, <2>2
<1>. QED
  BY <1>1, <1>2, <1>3 DEF SeenInv

LEMMA SeenInvStep ==
  ASSUME SamplerInv, SeenInv, [APINext]_vars
  PROVE  SeenInv'
<1>1. CASE [Next]_svars /\ UNCHANGED cvars
  <2>1. LastId \in Nat /\ LastId' \in Nat /\ LastId <= LastId'
    BY <1>1, LastIdGrows
  <2>. QED
    BY <1>1, <2>1 DEF SeenInv, cvars
<1>2. ASSUME NEW c \in Clients, ClientNext(c) PROVE SeenInv'
  <2>1. UNCHANGED svars
    BY <1>2 DEF ClientNext, GetLatest, GetHistory, HistorySnapshot, GetHealth, HealthCompare
  <2>2. CASE GetLatest(c)
    <3>1. PICK r : Answer(c, r) /\ Shows(r)
      <4>1. CASE ~ Enabled
        BY <2>2, <4>1, ShowsNothing DEF GetLatest
      <4>2. CASE Enabled /\ latest = None
        BY <2>2, <4>2, ShowsNothing DEF GetLatest
      <4>3. CASE Enabled /\ latest # None
        BY <2>2, <4>3, LatestShows DEF GetLatest
      <4>. QED
        BY <4>1, <4>2, <4>3
    <3>. QED
      BY <2>1, <3>1, SeenInvAnswer
  <2>3. ASSUME NEW d \in Windows \cup {BadWindow}, NEW n \in Limits, GetHistory(c, d, n) PROVE SeenInv'
    <3>1. CASE ~ Enabled \/ d = BadWindow
      <4>1. PICK code : Answer(c, Reply("history", code, << >>, 0))
        BY <2>3, <3>1 DEF GetHistory
      <4>. QED
        BY <2>1, <4>1, ShowsNothing, SeenInvAnswer
    <3>2. CASE ~ (~ Enabled \/ d = BadWindow)
      <4>1. d \in Nat /\ n \in Nat /\ now \in Nat
        BY <3>2, APIAssumption DEF SamplerInv, TypeOK
      <4>2. /\ cutoff' = [cutoff EXCEPT ![c] = now - d] /\ limit' = [limit EXCEPT ![c] = n]
            /\ seen' = seen
        BY <2>3, <3>2 DEF GetHistory
      <4>3. LastId' = LastId
        BY <2>1 DEF svars, published, LastId
      <4>. QED
        BY <4>1, <4>2, <4>3 DEF SeenInv
    <3>. QED
      BY <3>1, <3>2
  <2>4. CASE HistorySnapshot(c)
    <3>1. cutoff[c] \in Int /\ limit[c] \in Nat
      BY DEF SeenInv
    <3>. QED
      BY <2>1, <2>4, <3>1, HistoryShows, SeenInvAnswer DEF HistorySnapshot
  <2>5. CASE GetHealth(c)
    <3>1. CASE ~ Enabled
      <4>1. Answer(c, HealthReply(FALSE, 0))
        BY <2>5, <3>1 DEF GetHealth
      <4>2. Shows(HealthReply(FALSE, 0))
        BY ShowsNothing DEF HealthReply
      <4>. QED
        BY <2>1, <4>1, <4>2, SeenInvAnswer
    <3>2. CASE Enabled
      <4>1. UNCHANGED << cutoff, limit, seen >>
        BY <2>5, <3>2 DEF GetHealth
      <4>. QED
        BY <2>1, <4>1 DEF SeenInv, svars, published, LastId
    <3>. QED
      BY <3>1, <3>2
  <2>6. CASE HealthCompare(c)
    <3>1. Answer(c, HealthReply(Stale, age[c]))
      BY <2>6 DEF HealthCompare
    <3>2. Shows(HealthReply(Stale, age[c]))
      BY ShowsNothing DEF HealthReply
    <3>. QED
      BY <2>1, <3>1, <3>2, SeenInvAnswer
  <2>. QED
    BY <1>2, <2>2, <2>3, <2>4, <2>5, <2>6 DEF ClientNext
<1>3. CASE UNCHANGED vars
  BY <1>1, <1>3 DEF vars
<1>. QED
  BY <1>1, <1>2, <1>3 DEF APINext

(* An answer that shows something is the latest sample or a history. *)
LEMMA Shown ==
  ASSUME HealthInv, [APINext]_vars, NEW c \in Clients,
         reply'[c] # reply[c], reply'[c].items # << >>
  PROVE  \/ latest # None /\ reply'[c] = Reply("latest", 200, << latest >>, 0)
         \/ reply'[c] = Reply("history", 200, Trim(Keep(buf, cutoff[c]), limit[c]), 0)
<1>0. \A route, code, ms : Reply(route, code, << >>, ms).items = << >>
  BY DEF Reply
<1>1. PICK b \in Clients : ClientNext(b)
  BY DEF APINext, cvars, vars
<1>2. b = c
  <2>1. \A r : Answer(b, r) => \E x : reply' = [reply EXCEPT ![b] = x]
    BY DEF Answer
  <2>2. GetLatest(b) => \E x : reply' = [reply EXCEPT ![b] = x]
    BY <2>1 DEF GetLatest
  <2>3. ASSUME NEW d, NEW n, GetHistory(b, d, n) PROVE \E x : reply' = [reply EXCEPT ![b] = x]
    BY <2>1, <2>3 DEF GetHistory
  <2>4. HistorySnapshot(b) => \E x : reply' = [reply EXCEPT ![b] = x]
    BY <2>1 DEF HistorySnapshot
  <2>5. GetHealth(b) => \E x : reply' = [reply EXCEPT ![b] = x]
    BY <2>1 DEF GetHealth
  <2>6. HealthCompare(b) => \E x : reply' = [reply EXCEPT ![b] = x]
    BY <2>1 DEF HealthCompare
  <2>7. PICK x : reply' = [reply EXCEPT ![b] = x]
    BY <1>1, <2>2, <2>3, <2>4, <2>5, <2>6 DEF ClientNext
  <2>. QED
    BY <2>7 DEF HealthInv
<1>3. \A r : Answer(c, r) => reply'[c] = r
  BY DEF Answer, HealthInv
<1>4. CASE GetLatest(c)
  <2>1. CASE ~ Enabled
    BY <1>0, <1>3, <1>4, <2>1 DEF GetLatest
  <2>2. CASE Enabled /\ latest = None
    BY <1>0, <1>3, <1>4, <2>2 DEF GetLatest
  <2>3. CASE Enabled /\ latest # None
    BY <1>3, <1>4, <2>3 DEF GetLatest
  <2>. QED
    BY <2>1, <2>2, <2>3
<1>5. ASSUME NEW d, NEW n, GetHistory(c, d, n) PROVE FALSE
  <2>1. CASE ~ Enabled \/ d = BadWindow
    BY <1>0, <1>3, <1>5, <2>1 DEF GetHistory
  <2>2. CASE ~ (~ Enabled \/ d = BadWindow)
    <3>1. reply'[c] = NoReply
      BY <1>5, <2>2 DEF GetHistory, HealthInv
    <3>. QED
      BY <1>0, <3>1 DEF NoReply
  <2>. QED
    BY <2>1, <2>2
<1>6. CASE HistorySnapshot(c)
  BY <1>3, <1>6 DEF HistorySnapshot
<1>7. CASE GetHealth(c)
  <2>1. CASE Enabled
    <3>1. reply'[c] = NoReply
      BY <1>7, <2>1 DEF GetHealth, HealthInv
    <3>. QED
      BY <1>0, <3>1 DEF NoReply
  <2>2. CASE ~ Enabled
    <3>1. reply'[c] = HealthReply(FALSE, 0)
      BY <1>3, <1>7, <2>2 DEF GetHealth
    <3>. QED
      BY <1>0, <3>1 DEF HealthReply
  <2>. QED
    BY <2>1, <2>2
<1>8. CASE HealthCompare(c)
  <2>1. reply'[c] = HealthReply(Stale, age[c])
    BY <1>3, <1>8 DEF HealthCompare
  <2>. QED
    BY <1>0, <2>1 DEF HealthReply
<1>. QED
  BY <1>1, <1>2, <1>4, <1>5, <1>6, <1>7, <1>8 DEF ClientNext

(* A request that leaves the snapshot has been answered from it. *)
LEMMA Snapshotted ==
  ASSUME HealthInv, [APINext]_vars, NEW c \in Clients, at[c] = "snapshot", at'[c] = "idle"
  PROVE  reply'[c] = Reply("history", 200, Trim(Keep(buf, cutoff[c]), limit[c]), 0)
<1>1. PICK b \in Clients : ClientNext(b)
  BY DEF APINext, cvars, vars
<1>2. c = b
  BY <1>1 DEF HealthInv, ClientNext, GetLatest, GetHistory, HistorySnapshot, GetHealth, HealthCompare, Answer
<1>3. HistorySnapshot(c)
  BY <1>1, <1>2 DEF ClientNext, GetLatest, GetHistory, HealthCompare, GetHealth
<1>. QED
  BY <1>3 DEF HistorySnapshot, Answer, HealthInv

LEMMA ClientsInvariant == APISpec => [](HealthInv /\ SamplerInv /\ SeenInv)
  BY HandlersOnlyRead, SamplerInvariant, HealthInvInit, HealthInvStep, SeenInvInit, SeenInvStep, PTL
     DEF APISpec

(* A cutoff is later than the zero time. *)
CutoffInv ==
    /\ Epoch <= now
    /\ \A c \in Clients : at[c] = "snapshot" => cutoff[c] > ZeroTime

LEMMA CutoffInvInit == APIInit => CutoffInv
  BY SamplerAssumption DEF APIInit, Init, ClientInit, CutoffInv

LEMMA CutoffInvStep ==
  ASSUME HealthInv, SamplerInv, SeenInv, CutoffInv, [APINext]_vars
  PROVE  CutoffInv'
<1>. USE SamplerAssumption
<1>1. now \in Nat /\ Epoch <= now
  BY DEF SamplerInv, TypeOK, CutoffInv
<1>2. CASE [Next]_svars /\ UNCHANGED cvars
  <2>1. now' \in {now, now + 1} /\ UNCHANGED << at, cutoff >>
    BY <1>2 DEF cvars, svars, Next, SamplerNext, EnvNext, Work, Publish, Advance, Cancel, Start, SelectTick,
          SelectDone, Collect, PublishLatest, PublishPush, PublishStamp
  <2>. QED
    BY <1>1, <2>1 DEF CutoffInv
<1>3. ASSUME NEW c \in Clients, ClientNext(c) PROVE CutoffInv'
  <2>1. UNCHANGED now
    BY <1>3 DEF ClientNext, GetLatest, GetHistory, HistorySnapshot, GetHealth, HealthCompare, svars
  <2>2. ASSUME NEW r, Answer(c, r) PROVE CutoffInv'
    BY <2>1, <2>2 DEF CutoffInv, Answer, HealthInv, SeenInv
  <2>3. CASE GetLatest(c) \/ HistorySnapshot(c) \/ HealthCompare(c)
    BY <2>2, <2>3 DEF GetLatest, HistorySnapshot, HealthCompare
  <2>4. CASE GetHealth(c)
    BY <2>1, <2>2, <2>4 DEF GetHealth, CutoffInv, HealthInv
  <2>5. ASSUME NEW d \in Windows \cup {BadWindow}, NEW n \in Limits, GetHistory(c, d, n) PROVE CutoffInv'
    <3>1. CASE ~ Enabled \/ d = BadWindow
      BY <2>2, <2>5, <3>1 DEF GetHistory
    <3>2. CASE ~ (~ Enabled \/ d = BadWindow)
      <4>1. d \in Nat /\ now - d > ZeroTime
        BY <1>1, <3>2, APIAssumption DEF ZeroTime
      <4>2. /\ at' = [at EXCEPT ![c] = "snapshot"]
            /\ cutoff' = [cutoff EXCEPT ![c] = now - d]
        BY <2>5, <3>2 DEF GetHistory
      <4>. QED
        BY <2>1, <4>1, <4>2 DEF CutoffInv, HealthInv, SeenInv
    <3>. QED
      BY <3>1, <3>2
  <2>. QED
    BY <1>3, <2>3, <2>4, <2>5 DEF ClientNext
<1>4. CASE UNCHANGED vars
  BY <1>2, <1>4 DEF vars
<1>. QED
  BY <1>2, <1>3, <1>4 DEF APINext

LEMMA TimesAndClients == APISpec => [](HealthInv /\ SamplerInv /\ TimeInv /\ SeenInv /\ CutoffInv)
<1>1. Spec => [](SamplerInv /\ TimeInv)
  BY TimeInvInit, TimeInvStep, SamplerInvariant, PTL DEF Spec
<1>. QED
  BY <1>1, HandlersOnlyRead, ClientsInvariant, CutoffInvInit, CutoffInvStep, PTL DEF APISpec

(* Whatever the module, GET /metrics/<name> serves nothing older than the   *)
(* client has been shown before, on either route (base.go:42-47,            *)
(* RegisterRoutes).                                                         *)
THEOREM LatestNeverGoesBack ==
  APISpec => [][\A c \in Clients :
                  (reply'[c] # reply[c] /\ reply'[c].items # << >> /\ reply'[c].route = "latest")
                     => reply'[c].items[Len(reply'[c].items)].id >= seen[c]]_vars
<1>1. ASSUME HealthInv, SamplerInv, SeenInv, [APINext]_vars, NEW c \in Clients,
             reply'[c] # reply[c], reply'[c].items # << >>, reply'[c].route = "latest"
      PROVE  reply'[c].items[Len(reply'[c].items)].id >= seen[c]
  <2>1. seen[c] \in Nat /\ seen[c] <= LastId /\ LastId \in Nat
    BY <1>1, NotAhead DEF SeenInv
  <2>2. \A items : Reply("history", 200, items, 0).route = "history"
    BY DEF Reply
  <2>3. latest # None /\ reply'[c] = Reply("latest", 200, << latest >>, 0)
    BY <1>1, <2>2, Shown
  <2>4. reply'[c].items = << latest >>
    BY <2>3 DEF Reply
  <2>5. << latest >>[Len(<< latest >>)].id = LastId
    BY <1>1, <2>3, LatestShown
  <2>. QED
    BY <2>1, <2>4, <2>5
<1>2. HealthInv /\ SamplerInv /\ SeenInv /\ [APINext]_vars =>
        [\A c \in Clients :
           (reply'[c] # reply[c] /\ reply'[c].items # << >> /\ reply'[c].route = "latest")
              => reply'[c].items[Len(reply'[c].items)].id >= seen[c]]_vars
  BY <1>1
<1>. QED
  BY <1>2, ClientsInvariant, PTL DEF APISpec

(* A client is never shown an older sample after a newer one, for any       *)
(* number of clients, any interleaving of Publish's three stores            *)
(* (base.go:42-47) with the two routes, and every module whose samples all  *)
(* have a time (a failed cpu sample has none, cpu/collector.go).            *)
THEOREM ReadsNeverGoBack == ASSUME Kind # "cpu" PROVE APISpec => NoBackwardReads
<1>1. ASSUME HealthInv, SamplerInv, TimeInv, SeenInv, [APINext]_vars, NEW c \in Clients,
             reply'[c] # reply[c], reply'[c].items # << >>
      PROVE  reply'[c].items[Len(reply'[c].items)].id
                >= seen[c] - (IF reply'[c].route = "latest" THEN 0 ELSE 1)
  <2>1. seen[c] \in Nat /\ seen[c] <= LastId /\ cutoff[c] \in Int /\ limit[c] \in Nat
    BY <1>1 DEF SeenInv
  <2>2. NewestId <= LastId /\ LastId <= NewestId + 1 /\ NewestId \in Nat /\ LastId \in Nat
    BY <1>1, NotAhead
  <2>3. CASE latest # None /\ reply'[c] = Reply("latest", 200, << latest >>, 0)
    <3>1. reply'[c].items = << latest >> /\ reply'[c].route = "latest"
      BY <2>3 DEF Reply
    <3>2. << latest >>[Len(<< latest >>)].id = LastId
      BY <1>1, <2>3, LatestShown
    <3>. QED
      BY <2>1, <2>2, <3>1, <3>2
  <2>4. CASE reply'[c] = Reply("history", 200, Trim(Keep(buf, cutoff[c]), limit[c]), 0)
    <3>1. /\ reply'[c].items = Trim(Keep(buf, cutoff[c]), limit[c])
          /\ reply'[c].route = "history"
      BY <2>4 DEF Reply
    <3>2. reply'[c].items[Len(reply'[c].items)].id = NewestId
      BY <1>1, <2>1, <3>1, HistoryShown
    <3>. QED
      BY <2>1, <2>2, <3>1, <3>2
  <2>. QED
    BY <1>1, <2>3, <2>4, Shown
<1>2. HealthInv /\ SamplerInv /\ TimeInv /\ SeenInv /\ [APINext]_vars =>
        [\A c \in Clients :
           (reply'[c] # reply[c] /\ reply'[c].items # << >>) =>
              LET newest == reply'[c].items[Len(reply'[c].items)].id
              IN  newest >= seen[c] - (IF reply'[c].route = "latest" THEN 0 ELSE 1)]_vars
  BY <1>1
<1>. QED
  BY <1>2, TimesAndClients, PTL DEF APISpec, NoBackwardReads

(* A history is the window (module.go:34-36): whatever is published between *)
(* the cutoff and the snapshot, and however the limit cuts, the answer has  *)
(* the samples held that were stamped in the window and that the limit      *)
(* leaves, in order; the gpu module shows no value read before the window   *)
(* and the others miss none read in it.  For every module, duration, limit, *)
(* capacity and interval.                                                   *)
THEOREM HistoriesAreTheWindow == APISpec => HistoryIsTheWindow
<1>1. ASSUME HealthInv, SamplerInv, TimeInv, SeenInv, CutoffInv, [APINext]_vars, NEW c \in Clients,
             at[c] = "snapshot", at'[c] = "idle"
      PROVE  IsWindow(reply'[c].items, cutoff[c], limit[c])
  <2>1. cutoff[c] \in Int /\ limit[c] \in Nat /\ cutoff[c] > ZeroTime
    BY <1>1 DEF SeenInv, CutoffInv
  <2>2. PICK items : items = Trim(Keep(buf, cutoff[c]), limit[c])
    OBVIOUS
  <2>3. reply'[c] = Reply("history", 200, items, 0)
    BY <1>1, <2>2, Snapshotted, Zenon
  <2>4. reply'[c].items = items
    BY <2>3 DEF Reply
  <2>5. IsWindow(items, cutoff[c], limit[c])
    BY <1>1, <2>1, <2>2, HistoryShown
  <2>. QED
    BY <2>4, <2>5
<1>2. HealthInv /\ SamplerInv /\ TimeInv /\ SeenInv /\ CutoffInv /\ [APINext]_vars =>
        [\A c \in Clients :
           (at[c] = "snapshot" /\ at'[c] = "idle") =>
              LET items == reply'[c].items
                  readInWindow(s) == Kind # "gpu" /\ s.ts # ZeroTime /\ s.at >= cutoff[c]
              IN  /\ \A i \in 1 .. Len(items) - 1 :
                        items[i].id < items[i + 1].id /\ items[i].ts <= items[i + 1].ts
                  /\ \A i \in 1 .. Len(items) :
                        items[i].ts >= cutoff[c] /\ (Kind = "gpu" => items[i].at >= cutoff[c])
                  /\ \A i \in 1 .. Len(buf) :
                        /\ buf[i].ts >= cutoff[c] \/ readInWindow(buf[i])
                        /\ limit[c] = 0 \/ i > Len(buf) - limit[c]
                        => \E j \in 1 .. Len(items) : items[j] = buf[i]]_vars
  BY <1>1, Zenon DEF IsWindow
<1>. QED
  BY <1>2, TimesAndClients, PTL DEF APISpec, HistoryIsTheWindow
=============================================================================
