------------------------------ MODULE Sampler ------------------------------
(***************************************************************************)
(* One sampling module (cpu, memory, gpu or storage): its construction, the *)
(* background loop metrics.RunLoop, and the state it publishes through      *)
(* metrics.Base: the latest sample, the history buffer and the time of the  *)
(* last publication, written by Publish in three separate steps.            *)
(*                                                                         *)
(* Time is an integer clock.  Between two steps of a goroutine any amount   *)
(* of it may pass; when Prompt is TRUE the sampler is known to be quick:    *)
(* a collection and its publication take at most CollectBound, a ready      *)
(* select is served before the clock moves, and Start follows the first     *)
(* sample by at most StartDelay (the other modules are built in between).   *)
(***************************************************************************)
EXTENDS Integers, Sequences

CONSTANTS
    Kind,           \* which module: "cpu", "memory", "gpu" or "storage"
    Enabled,        \* FALSE: gpu whose NVML initialisation failed
    Interval,       \* sampler.interval
    Cap,            \* sampler.history_capacity
    Epoch,          \* the clock's first value
    MaxTime,        \* bound: the clock stops here
    Prompt,         \* TRUE: the sampler meets the three bounds above
    CollectBound,
    StartDelay,
    None            \* no sample yet (a nil *Sample)

Samples == [id : Nat, at : Int, ts : Int, err : BOOLEAN]

ASSUME SamplerAssumption ==
    /\ None \notin Samples
    /\ Kind \in {"cpu", "memory", "gpu", "storage"}
    /\ Enabled \in BOOLEAN /\ (Kind # "gpu" => Enabled)
    /\ Prompt \in BOOLEAN
    /\ Interval \in Nat \ {0} /\ Cap \in Nat \ {0} /\ Epoch \in Nat \ {0}
    /\ MaxTime \in Nat /\ CollectBound \in Nat /\ StartDelay \in Nat

VARIABLES
    now,            \* the clock
    due,            \* when the ticker fires next (meaningful once started)
    pending,        \* a tick waits in the ticker's channel (it holds one)
    started,        \* Start has been called
    cancelled,      \* the root context is done
    pc,             \* where the sampler is
    began,          \* when the current collection began
    cur,            \* the sample being published
    latest,         \* Base.latest
    buf,            \* Base.buf, as the bounded log RingBuffer.tla implements
    lastSample,     \* Base.lastSampleUnix; 0: nothing published
    stamped         \* history variable: id of the sample lastSample belongs to

published == << latest, buf, lastSample, stamped >>
svars == << now, due, pending, started, cancelled, pc, began, cur, published >>

(* Go's zero time.Time, before every instant of the clock. *)
ZeroTime == 0

(* id numbers the samples of a run; at is when the oldest of its values was *)
(* read (a history variable of the sample); ts is the Timestamp field.      *)
Sample(i, t, stamp, failed) == [id |-> i, at |-> t, ts |-> stamp, err |-> failed]

LastId == IF latest = None THEN 0 ELSE latest.id

BoundedAppend(s, v) == IF Len(s) < Cap THEN Append(s, v) ELSE Append(Tail(s), v)

(* New: the first sample is collected synchronously, before Start. *)
Init ==
    /\ now = Epoch
    /\ due = 0 /\ pending = FALSE
    /\ started = FALSE /\ cancelled = FALSE
    /\ pc = "collect" /\ began = Epoch
    /\ cur = None
    /\ latest = None /\ buf = << >> /\ lastSample = 0 /\ stamped = 0

-----------------------------------------------------------------------------
(* Mutants: what a mistake in base.go would do. *)

(* A failed sample does not replace the latest one. *)
PublishLatestSkipsErrors ==
    /\ pc = "publish"
    /\ latest' = IF cur.err THEN latest ELSE cur
    /\ pc' = "push"
    /\ UNCHANGED << now, due, pending, started, cancelled, began, cur, buf, lastSample, stamped >>

(* The time of publication is set only once (a CompareAndSwap for a Store). *)
PublishStampOnce ==
    /\ pc = "stamp"
    /\ lastSample' = (IF lastSample = 0 THEN now ELSE lastSample)
    /\ stamped' = (IF lastSample = 0 THEN cur.id ELSE stamped)
    /\ pc' = IF started THEN "select" ELSE "built"
    /\ UNCHANGED << now, due, pending, started, cancelled, began, cur, latest, buf >>

(* The gpu collector takes its timestamp after the devices were queried. *)
GpuSampleStampedLate(t, failed) ==
    [id |-> LastId + 1, at |-> t, ts |-> now, err |-> failed]

(* A full buffer starts over. *)
PublishPushLossy ==
    /\ pc = "push"
    /\ buf' = IF Len(buf) < Cap THEN Append(buf, cur) ELSE << cur >>
    /\ pc' = "stamp"
    /\ UNCHANGED << now, due, pending, started, cancelled, began, cur, latest, lastSample, stamped >>

-----------------------------------------------------------------------------
(* The clock and the ticker *)

Working == {"collect", "publish", "push", "stamp"}

(* The sampler has used up the time a prompt one is given. *)
Urgent ==
    /\ Prompt
    /\ \/ pc \in Working /\ now - began >= CollectBound
       \/ pc = "built" /\ now - lastSample >= StartDelay
       \/ pc = "select" /\ (pending \/ cancelled)

(* A tick that finds the previous one still in the channel is dropped. *)
Advance ==
    /\ now < MaxTime
    /\ ~ Urgent
    /\ now' = now + 1
    /\ IF started /\ Enabled /\ pc # "returned" /\ now + 1 = due
         THEN pending' = TRUE /\ due' = due + Interval
         ELSE UNCHANGED << pending, due >>
    /\ UNCHANGED << started, cancelled, pc, began, cur, published >>

(* The root context is cancelled by SIGINT or SIGTERM, also before Start. *)
Cancel ==
    /\ ~ cancelled
    /\ cancelled' = TRUE
    /\ UNCHANGED << now, due, pending, started, pc, began, cur, published >>

(* Start: launches the loop, unless the module is disabled. *)
Start ==
    /\ pc = "built"
    /\ started' = TRUE
    /\ pc' = IF Enabled THEN "select" ELSE "returned"
    /\ due' = now + Interval
    /\ UNCHANGED << now, pending, cancelled, began, cur, published >>

-----------------------------------------------------------------------------
(* RunLoop: a select with both cases ready takes either. *)

SelectTick ==
    /\ pc = "select" /\ pending
    /\ pending' = FALSE
    /\ pc' = "collect"
    /\ began' = now
    /\ UNCHANGED << now, due, started, cancelled, cur, published >>

SelectDone ==
    /\ pc = "select" /\ cancelled
    /\ pc' = "returned"
    /\ UNCHANGED << now, due, pending, started, cancelled, began, cur, published >>

(* The samples the four collectors make of values read at t.  The cpu,      *)
(* memory and storage modules take the timestamp when they have the values, *)
(* failed or not, but the cpu collector leaves it out of a failed sample.   *)
(* The gpu collector takes it before it queries the devices, and only the   *)
(* stub of a disabled module reports an error of its own.                   *)
CpuSample(t, failed) == Sample(LastId + 1, t, IF failed THEN ZeroTime ELSE now, failed)
MemorySample(t, failed) == Sample(LastId + 1, t, now, failed)
StorageSample(t, failed) == Sample(LastId + 1, t, now, failed)
GpuSample(t, failed) == Sample(LastId + 1, t, began, failed)

(* Values are read while the collection lasts, except that the storage      *)
(* module may be given the answer of a statvfs an earlier round began.      *)
ReadTimes == (IF Kind = "storage" THEN Epoch ELSE began) .. now

GpuFails == IF Enabled THEN {FALSE} ELSE BOOLEAN

Collected == CASE Kind = "cpu" -> {CpuSample(t, failed) : t \in ReadTimes, failed \in BOOLEAN}
               [] Kind = "memory" -> {MemorySample(t, failed) : t \in ReadTimes, failed \in BOOLEAN}
               [] Kind = "storage" -> {StorageSample(t, failed) : t \in ReadTimes, failed \in BOOLEAN}
               [] Kind = "gpu" -> {GpuSample(t, failed) : t \in ReadTimes, failed \in GpuFails}

(* collectOnce, up to the call of Publish. *)
Collect ==
    /\ pc = "collect"
    /\ cur' \in Collected
    /\ pc' = "publish"
    /\ UNCHANGED << now, due, pending, started, cancelled, began, published >>

(* Publish *)
PublishLatest ==
    /\ pc = "publish"
    /\ latest' = cur
    /\ pc' = "push"
    /\ UNCHANGED << now, due, pending, started, cancelled, began, cur, buf, lastSample, stamped >>

PublishPush ==
    /\ pc = "push"
    /\ buf' = BoundedAppend(buf, cur)
    /\ pc' = "stamp"
    /\ UNCHANGED << now, due, pending, started, cancelled, began, cur, latest, lastSample, stamped >>

PublishStamp ==
    /\ pc = "stamp"
    /\ lastSample' = now
    /\ stamped' = cur.id
    /\ pc' = IF started THEN "select" ELSE "built"
    /\ UNCHANGED << now, due, pending, started, cancelled, began, cur, latest, buf >>

-----------------------------------------------------------------------------
Publish == PublishLatest \/ PublishPush \/ PublishStamp
Work == Collect \/ Publish

SamplerNext == Start \/ SelectTick \/ SelectDone \/ Work
EnvNext == Advance \/ Cancel
Next == SamplerNext \/ EnvNext

Spec == Init /\ [][Next]_svars

(* The goroutine runs, a collector call returns, and a ready select takes   *)
(* one of its ready cases.                                                  *)
SamplerFairness == WF_svars(Start) /\ WF_svars(Work) /\ WF_svars(SelectTick \/ SelectDone)

-----------------------------------------------------------------------------
(* Properties *)

(* The state of Base, of the loop and of its ticker has its type.           *)
TypeOK ==
    /\ now \in Nat /\ due \in Nat /\ began \in Nat
    /\ pending \in BOOLEAN /\ started \in BOOLEAN /\ cancelled \in BOOLEAN
    /\ pc \in Working \cup {"built", "select", "returned"}
    /\ cur \in Samples \cup {None} /\ latest \in Samples \cup {None}
    /\ buf \in Seq(Samples) /\ Len(buf) <= Cap
    /\ lastSample \in Nat /\ stamped \in Nat

(* Base.LastSampleAge; -1 stands for the "never" of math.MaxInt64.          *)
LastSampleAge == IF lastSample = 0 THEN -1 ELSE now - lastSample

(* Mutants of Stale: a threshold of one interval, and one of four. *)
StaleTight == LastSampleAge = -1 \/ LastSampleAge > Interval
StaleLoose == LastSampleAge = -1 \/ LastSampleAge > 4 * Interval

(* The test of health.go:59 against 2 x interval (main.go:100).             *)
Stale == LastSampleAge = -1 \/ LastSampleAge > 2 * Interval

NewestId == IF buf = << >> THEN 0 ELSE buf[Len(buf)].id

(* Publish's three stores (base.go:42-47) become visible one at a time, but *)
(* always in this order: the age /health reports never belongs to a sample  *)
(* that the history does not hold yet, and the history never holds a sample *)
(* newer than the latest; each is at most one sample behind the other.      *)
PublishOrder ==
    /\ stamped <= NewestId
    /\ NewestId <= LastId
    /\ LastId <= stamped + 1

(* The history is exactly the newest samples: consecutive ones, ending with *)
(* the newest published, and as many as fit, however many ticks were        *)
(* dropped or collections failed.                                           *)
HistoryExact ==
    /\ \A i \in 1 .. Len(buf) : buf[i].id = NewestId - (Len(buf) - i)
    /\ Len(buf) = IF NewestId < Cap THEN NewestId ELSE Cap

(* A prompt sampler is never reported stale: from Start to the shutdown     *)
(* signal /health would answer "ok" at every instant, failed collections    *)
(* included, when StartDelay + CollectBound <= Interval.                    *)
NoFalseAlarm ==
    (Prompt /\ StartDelay + CollectBound <= Interval /\ started /\ Enabled /\ ~ cancelled)
        => ~ Stale

(* A stuck sampler is reported: a collection that has lasted for more than  *)
(* two intervals makes /health answer "degraded".                           *)
HangIsReported ==
    (started /\ pc \in Working /\ now - began > 2 * Interval) => Stale

Publishing == {"publish", "push", "stamp"}

(* How far the sample under way has got: which of latest, the history and   *)
(* the time stamp already belong to it.                                     *)
LoopInv ==
    /\ pc \in Publishing => cur \in Samples
    /\ pc \notin Publishing => NewestId = LastId /\ stamped = LastId
    /\ pc = "publish" => cur.id = LastId + 1 /\ NewestId = LastId /\ stamped = LastId
    /\ pc = "push" => latest = cur /\ NewestId = cur.id - 1 /\ stamped = cur.id - 1
    /\ pc = "stamp" => latest = cur /\ NewestId = cur.id /\ stamped = cur.id - 1

(* A collection begins after the last publication. *)
HangInv ==
    /\ lastSample <= now /\ began <= now
    /\ started /\ pc \in Working => lastSample <= began

(* The inductive invariant behind PublishOrder, HistoryExact and            *)
(* HangIsReported.                                                          *)
SamplerInv == TypeOK /\ LoopInv /\ HistoryExact /\ HangInv

(* The inductive invariant behind NoFalseAlarm: when the next tick is due,  *)
(* how long a collection has lasted, and how old the last publication can   *)
(* be at every place of the loop.                                           *)
PromptInv ==
    /\ now >= 1
    /\ pc = "built" => ~ started /\ lastSample >= 1 /\ now <= lastSample + StartDelay
    /\ pc = "select" => started
    /\ started => lastSample >= 1 /\ pc # "built"
    /\ pc = "returned" => cancelled \/ ~ Enabled
    /\ started /\ ~ Enabled => pc = "returned"
    /\ pc \in Working => now <= began + CollectBound
    /\ (started /\ pc # "returned") =>
          /\ now < due /\ due <= now + Interval
          /\ pc = "select" /\ ~ pending => lastSample >= due - Interval - StartDelay
          /\ pc = "select" /\ pending => lastSample >= now - Interval - StartDelay
          /\ pc \in Working => lastSample >= began - Interval - StartDelay

(* A tick that waits is turned into a sample, or the loop ends.             *)
TickIsServed ==
    \A i \in 0 .. MaxTime :
        (pending /\ pc = "select" /\ stamped = i) ~> (stamped > i \/ pc = "returned")
=============================================================================
