---------------------------- MODULE CombinedPeak ----------------------------
(***************************************************************************)
(* GET /metrics, with and without ?mode=peak, for every module: CpuPeak for *)
(* the cpu section, and here the Peak of the memory and gpu modules and the *)
(* storage module, which has none, behind CombinedHandler.  The handler     *)
(* asks one module after another and they share nothing, so a behaviour has *)
(* one module; its ring buffer's Snapshot is one instant (RingBuffer).      *)
(*                                                                         *)
(* For these modules the clock may move without a sample.  The five stress  *)
(* fields of a gpu device are treated alike and are one load here.          *)
(***************************************************************************)
EXTENDS CpuPeak, FiniteSetsExt

CONSTANTS
    Workloads,      \* modules, clients and readings of a behaviour
    Devices,        \* indices of the gpu devices, fixed when NVML is initialised
    Total,          \* bytes of memory
    Word,           \* 2 ^ the width of an unsigned integer
    MaxClock        \* bound: the last instant of a run

ASSUME CombinedAssumption ==
    /\ Total \in Nat /\ Word \in Nat /\ Total + 1 < Word /\ MaxClock \in Nat
    /\ \A w \in Workloads : /\ w.clients \subseteq Clients /\ w.widths \subseteq Nat \ {0}
                            /\ w.loads \subseteq Nat /\ w.overall \subseteq Nat

VARIABLES
    load,           \* the workload of this behaviour
    clock,
    hist,           \* hist[i]: the i-th sample of the memory, gpu or storage module
    ask,            \* ask[c]: c's Peak between its cutoff and its snapshot
    section         \* section[c]: that module's section of c's last answer

others == << load, clock, hist, ask, section >>
cvars == << vars, others >>

Nothing == [present |-> FALSE]
(* History: win, the samples of the snapshot in the window; last, the       *)
(* newest sample when the section's was read.                               *)
NoSection == [code |-> 0, sample |-> Nothing, peak |-> FALSE, win |-> {}, last |-> Nothing]
NotAsking == [at |-> "idle", cutoff |-> 0]

CombinedInit ==
    /\ Init
    /\ load \in Workloads
    /\ clock = 1 /\ hist = << >>
    /\ ask = [c \in Clients |-> NotAsking]
    /\ section = [c \in Clients |-> NoSection]

-----------------------------------------------------------------------------
(* Collecting *)

Minus(a, b) == (a - b) % Word

(* Mutant: the buffers are subtracted unchecked. *)
usedWithoutReclaimableUnchecked(vm) ==
    IF Total > 0 /\ vm.free > 0 /\ vm.free <= Total
      THEN Minus(Minus(Minus(Total, vm.free), vm.buffers), vm.cached)
      ELSE vm.used

(* memory/module.go: total less what is free, in buffers or cached, if the  *)
(* kernel's figures allow it, else less what is available, else as given.   *)
usedWithoutReclaimable(vm) ==
    LET taken == Minus(Total, vm.free)
        kept == Minus(taken, vm.buffers)
    IN  IF /\ Total > 0 /\ vm.free > 0 /\ vm.free <= Total
           /\ vm.buffers <= taken /\ vm.cached <= kept
          THEN Minus(kept, vm.cached)
          ELSE IF Total > 0 /\ vm.available > 0 /\ vm.available <= Total
          THEN Minus(Total, vm.available)
          ELSE vm.used

(* The kernel's figures need not be consistent with each other; gopsutil    *)
(* takes the used bytes to be the total less what is available, unsigned.   *)
VirtualMemory ==
    {vm \in [free : 0 .. Total + 1, buffers : 0 .. Total, cached : 0 .. Total,
             available : 0 .. Total + 1, used : 0 .. Word - 1] :
        vm.used = Minus(Total, vm.available)}

Publish(s) ==
    /\ Len(hist) < MaxSamples
    /\ hist' = Append(hist, s)
    /\ UNCHANGED << vars, load, clock, ask, section >>

Advance ==
    /\ load.module # "cpu" /\ clock < MaxClock
    /\ clock' = clock + 1
    /\ UNCHANGED << vars, load, hist, ask, section >>

MemorySample(vm) ==
    /\ load.module = "memory"
    /\ Publish([present |-> TRUE, ts |-> clock, ok |-> TRUE, total |-> Total,
                available |-> vm.available, used |-> usedWithoutReclaimable(vm), pct |-> 0])

(* A failed reading has the time and nothing else. *)
MemoryFails ==
    /\ load.module = "memory"
    /\ Publish([present |-> TRUE, ts |-> clock, ok |-> FALSE, total |-> 0,
                available |-> 0, used |-> 0, pct |-> 0])

(* Each device's utilisation is read, or fails and leaves zeros. *)
DeviceReadings == {d \in [load : Loads, err : BOOLEAN] : d.err => d.load = 0}

GpuSample(dev) ==
    /\ load.module \in {"gpu", "gpu disabled"}
    /\ load.module = "gpu disabled" => hist = << >>
    /\ Publish([present |-> TRUE, ts |-> clock, dev |-> dev])

StorageSample ==
    /\ load.module = "storage"
    /\ Publish([present |-> TRUE, ts |-> clock])

-----------------------------------------------------------------------------
(* Peak *)

Ring(h) == SubSeq(h, IF Len(h) < Cap THEN 1 ELSE Len(h) - Cap + 1, Len(h))

(* memory: a sample in the window is the seed or may raise the use.         *)
MemoryMerge(peak, s, cutoff) ==
    IF s.ts < cutoff THEN peak
    ELSE IF ~ peak.present THEN s
    ELSE [peak EXCEPT !.used = Raise(s.used, @)]

(* Mutant: oldest first, so that the oldest sample is the seed. *)
MemoryPeakOldestSeed(snap, cutoff) ==
    LET scan[n \in 0 .. Len(snap)] ==
          IF n = 0 THEN Nothing ELSE MemoryMerge(scan[n - 1], snap[n], cutoff)
    IN  scan[Len(snap)]

(* memory: newest first; the newest sample in the window gives the rest. *)
MemoryPeak(snap, cutoff) ==
    LET scan[n \in 0 .. Len(snap)] ==
          IF n = 0 THEN Nothing ELSE MemoryMerge(scan[n - 1], snap[Len(snap) - n + 1], cutoff)
        peak == scan[Len(snap)]
    IN  IF peak.present /\ peak.total > 0
          THEN [peak EXCEPT !.pct = (100 * peak.used) \div peak.total]
          ELSE peak

(* Mutant: a device's latest load wins. *)
GpuPeakLatest(snap, cutoff) ==
    LET window == {i \in 1 .. Len(snap) : snap[i].ts >= cutoff}
    IN  IF window = {} THEN Nothing ELSE snap[Max(window)]

(* gpu: everything but the loads is of the later sample. *)
GpuMerge(peak, s, cutoff) ==
    IF s.ts < cutoff THEN peak
    ELSE IF ~ peak.present THEN s
    ELSE [s EXCEPT !.dev = [i \in Devices |->
             [s.dev[i] EXCEPT !.load = Raise(@, peak.dev[i].load)]]]

(* gpu: oldest first, merged by device. *)
GpuPeak(snap, cutoff) ==
    LET scan[n \in 0 .. Len(snap)] ==
          IF n = 0 THEN Nothing ELSE GpuMerge(scan[n - 1], snap[n], cutoff)
    IN  scan[Len(snap)]

Latest == IF hist = << >> THEN Nothing ELSE hist[Len(hist)]

(* The storage module has no Peak. *)
PeakOf(snap, cutoff) ==
    CASE load.module = "memory" -> MemoryPeak(snap, cutoff)
      [] load.module = "gpu" -> GpuPeak(snap, cutoff)
      [] load.module = "storage" -> Nothing

(* The samples of a history in the window. *)
WindowOf(snap, cutoff) == {s \in {snap[i] : i \in 1 .. Len(snap)} : s.ts >= cutoff}

-----------------------------------------------------------------------------
(* CombinedHandler *)

Reply(c, s) == section' = [section EXCEPT ![c] = s]

(* New has published a first sample before the server starts. *)
Asking(c) == c \in load.clients /\ hist # << >> /\ ask[c].at = "idle"

AskPeak(c, d) ==
    /\ Asking(c) /\ load.module # "gpu disabled"
    /\ ask' = [ask EXCEPT ![c] = [at |-> "snapshot", cutoff |-> clock - d]]
    /\ Reply(c, NoSection)
    /\ UNCHANGED << vars, load, clock, hist >>

PeakSection(sample, win) == [code |-> 200, sample |-> sample, peak |-> TRUE, win |-> win, last |-> Latest]

(* Peak returns a sample; or nil, and the handler goes on to Latest.  The   *)
(* memory module's nil is a *Sample in a non-nil any: no fallback, and      *)
(* assignSample leaves the section out.                                     *)
AnswerPeak(c) ==
    /\ ask[c].at = "snapshot"
    /\ LET peak == PeakOf(Ring(hist), ask[c].cutoff)
       IN  IF peak.present \/ load.module = "memory"
             THEN /\ Reply(c, PeakSection(peak, WindowOf(Ring(hist), ask[c].cutoff)))
                  /\ ask' = [ask EXCEPT ![c] = NotAsking]
             ELSE /\ ask' = [ask EXCEPT ![c].at = "latest"]
                  /\ UNCHANGED section
    /\ UNCHANGED << vars, load, clock, hist >>

AnswerLatest(c) ==
    /\ ask[c].at = "latest"
    /\ Reply(c, PeakSection(Latest, {}))
    /\ ask' = [ask EXCEPT ![c] = NotAsking]
    /\ UNCHANGED << vars, load, clock, hist >>

(* Any other mode: the latest sample; a disabled module has no section. *)
AskLatest(c) ==
    /\ Asking(c)
    /\ Reply(c, [NoSection EXCEPT !.code = 200,
                    !.sample = IF load.module = "gpu disabled" THEN Nothing ELSE Latest])
    /\ UNCHANGED << vars, load, clock, hist, ask >>

BadWindow(c) ==
    /\ Asking(c)
    /\ Reply(c, [NoSection EXCEPT !.code = 400])
    /\ UNCHANGED << vars, load, clock, hist, ask >>

(* The cpu section: its latest sample is read through the shared array. *)
CpuLatest(c) ==
    /\ Now > 0 /\ req[c].at = "idle"
    /\ reply' = [reply EXCEPT ![c] =
          [NoReply EXCEPT !.code = 200, !.present = TRUE, !.ov = samples[Now].overall,
                          !.cores = cell[Now], !.win = {Now}]]
    /\ UNCHANGED << samples, cell, req >>

Cpu ==
    /\ load.module = "cpu"
    /\ \/ \E overall \in load.overall, per \in UNION {[1 .. n -> load.loads] : n \in load.widths} :
             Sample(overall, per)
       \/ SampleFails
       \/ \E c \in load.clients :
             \/ \E d \in Windows : Request(c, d)
             \/ TakeSnapshot(c) \/ Scan(c) \/ Merge(c) \/ Store(c) \/ Respond(c) \/ CpuLatest(c)
    /\ UNCHANGED others

CombinedNext ==
    \/ Cpu
    \/ Advance
    \/ \E vm \in VirtualMemory : MemorySample(vm)
    \/ MemoryFails
    \/ \E dev \in [Devices -> DeviceReadings] : GpuSample(dev)
    \/ StorageSample
    \/ \E c \in Clients : (\E d \in Windows : AskPeak(c, d)) \/ AnswerPeak(c) \/ AnswerLatest(c)
                          \/ AskLatest(c) \/ BadWindow(c)

CombinedSpec == CombinedInit /\ [][CombinedNext]_cvars

-----------------------------------------------------------------------------
(* Properties *)

Peaks == {section[c] : c \in {c \in Clients : section[c].peak /\ section[c].sample.present}}

(* The unsigned subtractions of memory/module.go add no overflow to what it *)
(* is given: a sample that uses more memory than there is has more than     *)
(* that available, so that the Used it falls back on had wrapped already;   *)
(* and a peak does, or is above 100 percent, only with such a sample in its *)
(* window, or if the newest sample in it failed and left a total of 0 next  *)
(* to an older sample's use (line 118).                                     *)
MemoryAddsNoOverflow ==
    load.module = "memory" =>
        /\ \A i \in 1 .. Len(hist) : hist[i].used > hist[i].total => hist[i].available > hist[i].total
        /\ \A a \in Peaks :
              a.sample.ok /\ (a.sample.used > a.sample.total \/ a.sample.pct > 100)
                  => \E s \in a.win : s.available > s.total

(* A memory peak is the largest use in the window, and everything else is   *)
(* of a sample with the newest time in it (memory/module.go:88-94); it is   *)
(* left out only if the window has no sample.                               *)
MemoryPeakExact ==
    load.module = "memory" =>
        /\ \A a \in Peaks :
              /\ a.sample.used = Max({s.used : s \in a.win})
              /\ a.sample.ts = Max({s.ts : s \in a.win})
              /\ \E s \in a.win : s.ts = a.sample.ts /\ s.ok = a.sample.ok /\ s.total = a.sample.total
        /\ \A c \in Clients : section[c].peak /\ section[c].win # {} => section[c].sample.present

(* A gpu peak is for each device the largest load in the window, and        *)
(* everything else in it is the newest sample's; with no sample in the      *)
(* window it is the newest sample as it is (gpu/module.go:109-118,          *)
(* combined.go:87-90).                                                      *)
GpuPeakExact ==
    load.module = "gpu" => \A c \in Clients : section[c].peak =>
        LET a == section[c]
        IN  /\ a.sample.present
            /\ a.win = {} => a.sample = a.last
            /\ a.win # {} =>
                  /\ a.sample.ts = a.last.ts
                  /\ \A i \in Devices :
                        /\ a.sample.dev[i].load = Max({s.dev[i].load : s \in a.win})
                        /\ a.sample.dev[i].err = a.last.dev[i].err
=============================================================================
