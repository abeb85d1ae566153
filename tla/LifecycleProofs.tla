-------------------------- MODULE LifecycleProofs --------------------------
(***************************************************************************)
(* Proofs about PidLock and Lifecycle, for any set of pids and any          *)
(* configuration files: what the PID file guarantees when starts neither    *)
(* overlap nor miss the holder, and what it guarantees always; that a running monitor uses the  *)
(* lock as PidLock describes; what an accepted configuration is good for;   *)
(* and what the shutdown keeps from the clients.                            *)
(***************************************************************************)
EXTENDS Lifecycle, TLAPS

-----------------------------------------------------------------------------
(* The lock *)

(* Before any monitor runs the invariant holds, whatever the file was left  *)
(* with.                                                                    *)
LEMMA IndInvInit == Init => IndInv
BY DEF Init, IndInv, TypeOK, SerialInv, Contents, Acquiring

(* Every step keeps the invariant. *)
LEMMA IndInvStep ==
    ASSUME IndInv, [Next]_vars
    PROVE  IndInv'
<1> USE PidAssumption DEF IndInv, TypeOK, SerialInv, Contents, Acquiring, Become
<1>1. ASSUME NEW p \in Pids, StartMonitor(p) PROVE IndInv'
  BY <1>1 DEF StartMonitor
<1>2. ASSUME NEW p \in Pids, StartOther(p) PROVE IndInv'
  BY <1>2 DEF StartOther
<1>3. ASSUME NEW p \in Pids, StopOther(p) PROVE IndInv'
  BY <1>3 DEF StopOther
<1>4. ASSUME NEW p \in Pids, Crash(p) PROVE IndInv'
  BY <1>4 DEF Crash
<1>5. ASSUME NEW p \in Pids, ReadFile(p) PROVE IndInv'
  BY <1>5 DEF ReadFile
<1>6. ASSUME NEW p \in Pids, Refuse(p) PROVE IndInv'
  BY <1>6 DEF Refuse
<1>7. ASSUME NEW p \in Pids, Check(p) PROVE IndInv'
  BY <1>7 DEF Check, pidRunning
<1>8. ASSUME NEW p \in Pids, Truncate(p) PROVE IndInv'
  BY <1>8 DEF Truncate
<1>9. ASSUME NEW p \in Pids, Write(p) PROVE IndInv'
  BY <1>9 DEF Write
<1>10. ASSUME NEW p \in Pids, WriteOrphan(p) PROVE IndInv'
  BY <1>10 DEF WriteOrphan
<1>11. ASSUME NEW p \in Pids, WriteFails(p) PROVE IndInv'
  BY <1>11 DEF WriteFails
<1>12. ASSUME NEW p \in Pids, Release(p) PROVE IndInv'
  BY <1>12 DEF Release
<1>13. ASSUME NEW p \in Pids, Exit(p) PROVE IndInv'
  BY <1>13 DEF Exit
<1>14. ASSUME NEW p \in Pids, ReadFails(p) PROVE IndInv'
  <2>1. proc' = [proc EXCEPT ![p] = "truncate"] /\ UNCHANGED << file, got, overlapped >>
    BY <1>14 DEF ReadFails
  <2>2. blind' \in BOOLEAN /\ (~ blind' => ~ blind /\ \A q \in Pids : proc[q] # "running")
    BY <1>14 DEF ReadFails, IsMonitor
  <2>. QED
    BY <1>14, <2>1, <2>2 DEF ReadFails
<1>15. ASSUME NEW p \in Pids, CheckDenied(p) PROVE IndInv'
  <2>1. proc' = [proc EXCEPT ![p] = "truncate"] /\ UNCHANGED << file, got, overlapped >>
    BY <1>15 DEF CheckDenied
  <2>2. blind' \in BOOLEAN /\ (~ blind' => ~ blind /\ proc[got[p]] # "running")
    BY <1>15 DEF CheckDenied, IsMonitor
  <2>. QED
    BY <1>15, <2>1, <2>2 DEF CheckDenied
<1>16. CASE UNCHANGED vars
  BY <1>16 DEF vars
<1> QED BY <1>1, <1>2, <1>3, <1>4, <1>5, <1>6, <1>7, <1>8, <1>9, <1>10, <1>11, <1>12, <1>13, <1>14,
           <1>15, <1>16
        DEF Next

(* Until two starts overlap, or one misses the holder, one process at a     *)
(* time is inside Acquire, and what it has read of the file is still true   *)
(* when it acts on it.                                                      *)
THEOREM LockInvariant == Spec => []IndInv
  BY IndInvInit, IndInvStep, PTL DEF Spec

(* lock.go keeps two monitors from running at once for as long as no        *)
(* monitor has been started while another was still inside Acquire, and     *)
(* none has been unable to read the file or to signal the holder.           *)
THEOREM ExclusionWhenSerial == Spec => []SerialExclusion
<1>1. IndInv => SerialExclusion
  BY PidAssumption DEF IndInv, SerialInv, SerialExclusion, MutualExclusion
<1> QED BY <1>1, LockInvariant, PTL

(* For as long the file names the running monitor: the next Acquire will    *)
(* find it.                                                                 *)
THEOREM HolderNamedWhenSerial == Spec => []HolderIsNamed
<1>1. IndInv => HolderIsNamed
  BY DEF IndInv, SerialInv, HolderIsNamed
<1> QED BY <1>1, LockInvariant, PTL

-----------------------------------------------------------------------------
(* With no assumption on how starts overlap *)

(* Every step keeps the types. *)
LEMMA TypeStep == TypeOK /\ [Next]_vars => TypeOK'
<1> SUFFICES ASSUME TypeOK, [Next]_vars PROVE TypeOK'
  OBVIOUS
<1> USE DEF TypeOK, Contents, Acquiring, Become
<1>1. ASSUME NEW p \in Pids,
             StartMonitor(p) \/ StartOther(p) \/ StopOther(p) \/ Crash(p) \/ Exit(p)
      PROVE  TypeOK'
  BY <1>1 DEF StartMonitor, StartOther, StopOther, Crash, Exit
<1>2. ASSUME NEW p \in Pids, ReadFile(p) \/ ReadFails(p) \/ Refuse(p) \/ Check(p) \/ CheckDenied(p) PROVE TypeOK'
  BY <1>2 DEF ReadFile, ReadFails, Refuse, Check, CheckDenied, IsMonitor
<1>3. ASSUME NEW p \in Pids, Truncate(p) \/ Write(p) \/ WriteOrphan(p) \/ WriteFails(p) PROVE TypeOK'
  BY <1>3 DEF Truncate, Write, WriteOrphan, WriteFails
<1>4. ASSUME NEW p \in Pids, Release(p) PROVE TypeOK'
  BY <1>4 DEF Release
<1>5. CASE UNCHANGED vars
  BY <1>5 DEF vars
<1> QED BY <1>1, <1>2, <1>3, <1>4, <1>5 DEF Next

(* A settled holder that goes on running stays settled, unless a start      *)
(* misses it.                                                               *)
LEMMA SettledStep ==
    ASSUME TypeOK, Next, NEW h \in Pids, Settled(h), proc'[h] = "running"
    PROVE  Settled(h)' \/ \E q \in Pids : ReadFails(q) \/ CheckDenied(q)
<1> USE PidAssumption DEF TypeOK, Settled, Contents, Acquiring, Become
<1>1. ASSUME NEW p \in Pids,
             StartMonitor(p) \/ StartOther(p) \/ StopOther(p) \/ Crash(p) \/ Exit(p)
      PROVE  Settled(h)'
  BY <1>1 DEF StartMonitor, StartOther, StopOther, Crash, Exit
<1>2. ASSUME NEW p \in Pids, ReadFile(p) PROVE Settled(h)'
  BY <1>2 DEF ReadFile
<1>3. ASSUME NEW p \in Pids, Refuse(p) PROVE Settled(h)'
  BY <1>3 DEF Refuse
<1>4. ASSUME NEW p \in Pids, Check(p) PROVE Settled(h)'
  BY <1>4 DEF Check, pidRunning
<1>5. ASSUME NEW p \in Pids, Truncate(p) \/ Write(p) \/ WriteOrphan(p) \/ WriteFails(p)
      PROVE  Settled(h)'
  BY <1>5 DEF Truncate, Write, WriteOrphan, WriteFails
<1>6. ASSUME NEW p \in Pids, Release(p) PROVE Settled(h)'
  BY <1>6 DEF Release
<1> QED BY <1>1, <1>2, <1>3, <1>4, <1>5, <1>6 DEF Next

(* A monitor that has the lock to itself keeps it, and stays named in the   *)
(* file, against any number of overlapping later starts that can read the   *)
(* file and signal it.                                                      *)
THEOREM SettledHolderKeepsLock == Spec => SettledHolderIsSafe
<1>1. Init => TypeOK
  BY DEF Init, TypeOK, Contents
<1>2. TypeOK /\ [Next]_vars =>
        [\A p \in Pids : Settled(p) /\ proc'[p] = "running"
           => Settled(p)' \/ \E q \in Pids : ReadFails(q) \/ CheckDenied(q)]_vars
  BY SettledStep
<1> QED BY <1>1, <1>2, TypeStep, PTL DEF Spec, SettledHolderIsSafe

-----------------------------------------------------------------------------
(* The monitor around the lock *)

(* Every step of a monitor's life is a step of the lock or leaves it alone. *)
LEMMA LockSees == [LifeNext]_lvars => [Next]_vars
<1>. SUFFICES ASSUME [LifeNext]_lvars PROVE Next \/ UNCHANGED vars
  OBVIOUS
<1>1. ASSUME NEW p \in Pids, Acquire(p) PROVE Next
  BY <1>1 DEF Acquire, Next
<1>2. ASSUME NEW p \in Pids, Killed(p) \/ DeferredRelease(p) \/ EndProcess(p) PROVE Next
  BY <1>2 DEF Killed, DeferredRelease, EndProcess, Next
<1>3. ASSUME NEW p \in Pids,
             \/ \E given \in BOOLEAN : ParseFlags(p, given)
             \/ LoadConfig(p)
             \/ \E found, mounted \in BOOLEAN : Build(p, found, mounted)
      PROVE  UNCHANGED vars
  BY <1>3 DEF ParseFlags, LoadConfig, Build, Set
<1>4. ASSUME NEW p \in Pids,
             SelectSignal(p) \/ SelectError(p) \/ Drained(p) \/ DrainTimesOut(p) \/ StopModules(p) \/ Signal(p)
      PROVE  UNCHANGED vars
  BY <1>4 DEF SelectSignal, SelectError, Drained, DrainTimesOut, StopModules, Signal, Set
<1>5. ASSUME NEW p \in Pids,
             Listen(p) \/ HandlerStarts(p) \/ HandlerAnswers(p) \/ LoopTick(p) \/ LoopDone(p) \/ LoopPublish(p)
      PROVE  UNCHANGED vars
  BY <1>5 DEF Listen, HandlerStarts, HandlerAnswers, LoopTick, LoopDone, LoopPublish, Set
<1>6. CASE UNCHANGED lvars
  BY <1>6 DEF lvars
<1>. QED
  BY <1>1, <1>2, <1>3, <1>4, <1>5, <1>6 DEF LifeNext, Main

(* main.run uses the lock as PidLock describes it: Acquire comes first and  *)
(* Release last, on every path out of run.                                  *)
THEOREM MonitorUsesLock == LifeSpec => Spec
<1>1. LifeInit => Init
  BY DEF LifeInit
<1>. QED
  BY <1>1, LockSees, PTL DEF LifeSpec, Spec

(* So a monitor's life is as exclusive as the lock, and a settled holder    *)
(* as safe, whatever else it and the others are doing.                      *)
THEOREM MonitorsAreExclusive == LifeSpec => []SerialExclusion /\ []HolderIsNamed /\ SettledHolderIsSafe
  BY MonitorUsesLock, ExclusionWhenSerial, HolderNamedWhenSerial, SettledHolderKeepsLock, PTL

-----------------------------------------------------------------------------
(* What an accepted configuration is good for, and what a shutdown shows *)

Places == {"none", "flags", "load", "build", "serve", "drain", "stop", "leave", "panic"}

Runs == [at : Places, c : Configs \cup {Unreadable}, sig : BOOLEAN,
         lis : {"none", "starting", "bound", "failed", "closed"}, nvml : {"off", "on", "released"},
         loop : {"none", "select", "collect", "ended"}, busy : BOOLEAN, late : BOOLEAN,
         bad : BOOLEAN, shown : BOOLEAN, code : {0, 1, 2}]

(* A configuration in use has been validated, and building from it never    *)
(* panics.                                                                  *)
SoundInv(r) == r.c # Unreadable => r.c \in Configs /\ Validate(r.c) /\ r.at # "panic"

(* NVML is released after the listener is closed and the handlers have been *)
(* waited for, so a handler that is still there has been given up on.       *)
ReleaseInv(r) ==
    /\ r.at \in {"drain", "stop"} => r.lis = "closed" /\ r.nvml # "released"
    /\ r.at = "stop" /\ r.busy => r.late
    /\ r.nvml = "released" => r.at = "leave" /\ r.lis = "closed" /\ (r.busy => r.late)
    /\ r.bad => r.nvml = "released"
    /\ r.shown => r.late

GoodRuns == {r \in Runs : SoundInv(r) /\ ReleaseInv(r)}

LifeInv == run \in [Pids -> GoodRuns]

LEMMA UnreadableIs == Unreadable.readable = FALSE /\ \A c \in Configs : c.readable /\ c # Unreadable
<1>1. Unreadable.readable = FALSE
  BY DEF Unreadable
<1>2. \A c \in Configs : c.readable = TRUE
  BY DEF Configs
<1>. QED
  BY <1>1, <1>2

(* The defaults keep the types; Load returns what it has validated. *)
LEMMA LoadIs ==
    \A raw \in RawConfigs :
        /\ Load(raw) \in Configs \cup {Unreadable}
        /\ Load(raw) # Unreadable => Validate(Load(raw))
<1>. TAKE raw \in RawConfigs
<1>1. CASE ~ (raw.readable /\ Validate(applyDefaults(raw)))
  BY <1>1 DEF Load
<1>2. CASE raw.readable /\ Validate(applyDefaults(raw))
  <2>1. raw \in Configs
    BY <1>2, UnreadableIs, RawConfigAssumption
  <2>2. applyDefaults(raw) \in Configs
    <3>0. \A c \in Configs, h \in {Loopback} \cup STRING : [c EXCEPT !.host = h] \in Configs
      BY DEF Configs
    <3>1. \A c \in Configs, n \in Int, e \in SUBSET (Routes \cup STRING) :
            /\ [c EXCEPT !.interval = n] \in Configs /\ [c EXCEPT !.capacity = n] \in Configs
            /\ [c EXCEPT !.rps = n] \in Configs /\ [c EXCEPT !.burst = n] \in Configs
            /\ [c EXCEPT !.exempt = e] \in Configs
      BY DEF Configs
    <3>2. /\ raw.interval \in Int /\ raw.capacity \in Int /\ raw.rps \in Int /\ raw.burst \in Int
          /\ raw.exempt \in SUBSET (Routes \cup STRING) /\ raw.host \in {Loopback} \cup STRING
      BY <2>1 DEF Configs
    <3>. DEFINE h == IF raw.host = "" THEN Loopback ELSE raw.host
                i == IF raw.interval = 0 THEN 1000 ELSE raw.interval
                n == IF raw.capacity <= 0 THEN 60 ELSE raw.capacity
                l == IF raw.rps = 0 THEN 10 ELSE raw.rps
                b == IF raw.burst = 0 THEN 20 ELSE raw.burst
                e == IF raw.exempt = {} THEN {"/health"} ELSE raw.exempt
    <3>3. i \in Int /\ n \in Int /\ l \in Int /\ b \in Int
      BY <3>2
    <3>4. e \in SUBSET (Routes \cup STRING)
      BY <3>2 DEF Routes
    <3>. DEFINE c0 == [raw EXCEPT !.host = h]
                c1 == [c0 EXCEPT !.interval = i]
                c2 == [c1 EXCEPT !.capacity = n]
                c3 == [c2 EXCEPT !.rps = l]
                c4 == [c3 EXCEPT !.burst = b]
                c5 == [c4 EXCEPT !.exempt = e]
    <3>5. applyDefaults(raw) = c5
      BY DEF applyDefaults
    <3>. HIDE DEF i, n, l, b, e
    <3>11. h \in {Loopback} \cup STRING
      BY <3>2
    <3>. HIDE DEF h
    <3>12. c0 \in Configs
      BY <2>1, <3>0, <3>11, Zenon
    <3>. HIDE DEF c0
    <3>6. c1 \in Configs
      BY <3>1, <3>3, <3>4, <3>12
    <3>. HIDE DEF c1
    <3>7. c2 \in Configs
      BY <3>1, <3>3, <3>4, <3>6
    <3>. HIDE DEF c2
    <3>8. c3 \in Configs
      BY <3>1, <3>3, <3>4, <3>7
    <3>. HIDE DEF c3
    <3>9. c4 \in Configs
      BY <3>1, <3>3, <3>4, <3>8
    <3>. HIDE DEF c4
    <3>10. c5 \in Configs
      BY <3>1, <3>3, <3>4, <3>9
    <3>. QED
      BY <3>5, <3>10
  <2>. QED
    BY <1>2, <2>2 DEF Load
<1>. QED
  BY <1>1, <1>2

(* A validated configuration panics neither a ring buffer nor a ticker. *)
LEMMA ValidNeverPanics ==
    \A c \in Configs : Validate(c) => ~ RingBufferPanics(c) /\ ~ TickerPanics(c)
<1>. SUFFICES ASSUME NEW c \in Configs, Validate(c) PROVE ~ RingBufferPanics(c) /\ ~ TickerPanics(c)
  OBVIOUS
<1>1. c.capacity \in Int /\ c.interval \in Int
  BY DEF Configs
<1>2. c.capacity >= 1 /\ c.interval >= 100
  BY <1>1 DEF Validate
<1>3. ~ (c.capacity <= 0) /\ ~ (c.interval <= 0)
  BY <1>1, <1>2
<1>. QED
  BY <1>3 DEF RingBufferPanics, TickerPanics

(* What one step of a good run may make of it. *)
LEMMA AtIs ==
    \A r \in GoodRuns, at \in Places \ {"panic", "drain", "stop"} :
        r.nvml # "released" => [r EXCEPT !.at = at] \in GoodRuns
  BY DEF GoodRuns, Runs, SoundInv, ReleaseInv

LEMMA NoRunIs == NoRun \in GoodRuns /\ [NoRun EXCEPT !.at = "flags"] \in GoodRuns
<1>1. ASSUME NEW b \in BOOLEAN, b = FALSE, NEW u \in Configs \cup {Unreadable}, u = Unreadable
      PROVE  [at |-> "none", c |-> u, sig |-> b, lis |-> "none", nvml |-> "off",
              loop |-> "none", busy |-> b, late |-> b, bad |-> b, shown |-> b, code |-> 0] \in GoodRuns
  <2>. DEFINE r == [at |-> "none", c |-> u, sig |-> b, lis |-> "none", nvml |-> "off",
                    loop |-> "none", busy |-> b, late |-> b, bad |-> b, shown |-> b, code |-> 0]
  <2>1. r \in Runs
    BY DEF Runs, Places
  <2>2. r.c = Unreadable /\ r.nvml = "off" /\ r.at = "none" /\ ~ r.bad /\ ~ r.shown
    BY <1>1
  <2>. HIDE DEF r
  <2>3. r \in GoodRuns
    BY <2>1, <2>2 DEF GoodRuns, SoundInv, ReleaseInv
  <2>. QED
    BY <2>3 DEF r
<1>2. NoRun \in GoodRuns
  BY <1>1, Zenon DEF NoRun
<1>3. NoRun.nvml # "released" /\ "flags" \in Places \ {"panic", "drain", "stop"}
  BY DEF NoRun, Places
<1>. QED
  BY <1>2, <1>3, AtIs

(* One field at a time: what keeps a run good. *)
LEMMA LeaveIs ==
    \A r \in GoodRuns, code \in {0, 1, 2} :
        r.nvml # "released" => Leaving(r, code) \in GoodRuns
<1>. TAKE r \in GoodRuns, code \in {0, 1, 2}
<1>. HAVE r.nvml # "released"
<1>. DEFINE s == [r EXCEPT !.at = "leave"]
<1>1. s \in GoodRuns
  BY AtIs DEF Places
<1>2. Leaving(r, code) = [s EXCEPT !.code = code]
  BY DEF Leaving
<1>. HIDE DEF s
<1>3. [s EXCEPT !.code = code] \in GoodRuns
  BY <1>1 DEF GoodRuns, Runs, SoundInv, ReleaseInv
<1>. QED
  BY <1>2, <1>3

LEMMA PanicIs ==
    \A r \in GoodRuns : r.nvml # "released" /\ r.c = Unreadable => [r EXCEPT !.at = "panic"] \in GoodRuns
  BY DEF GoodRuns, Runs, Places, SoundInv, ReleaseInv

LEMMA SigIs == \A r \in GoodRuns, b \in BOOLEAN : [r EXCEPT !.sig = b] \in GoodRuns
  BY DEF GoodRuns, Runs, SoundInv, ReleaseInv

LEMMA LoopIs ==
    \A r \in GoodRuns, l \in {"none", "select", "collect", "ended"} : [r EXCEPT !.loop = l] \in GoodRuns
  BY DEF GoodRuns, Runs, SoundInv, ReleaseInv

LEMMA LisIs ==
    \A r \in GoodRuns, l \in {"none", "starting", "bound", "failed", "closed"} :
        r.nvml # "released" /\ r.at \notin {"drain", "stop"} => [r EXCEPT !.lis = l] \in GoodRuns
  BY DEF GoodRuns, Runs, SoundInv, ReleaseInv

LEMMA ConfigIs ==
    \A r \in GoodRuns, c \in Configs \cup {Unreadable} :
        r.at # "panic" /\ (c # Unreadable => Validate(c)) => [r EXCEPT !.c = c] \in GoodRuns
  BY DEF GoodRuns, Runs, SoundInv, ReleaseInv

LEMMA NvmlIs ==
    \A r \in GoodRuns, n \in {"off", "on"} : r.nvml # "released" => [r EXCEPT !.nvml = n] \in GoodRuns
  BY DEF GoodRuns, Runs, SoundInv, ReleaseInv

LEMMA BusyIs ==
    \A r \in GoodRuns, b \in BOOLEAN :
        (b => r.lis # "closed") => [r EXCEPT !.busy = b] \in GoodRuns
  BY DEF GoodRuns, Runs, SoundInv, ReleaseInv

LEMMA ShownIs ==
    \A r \in GoodRuns, b \in BOOLEAN : (b => r.late) => [r EXCEPT !.shown = b] \in GoodRuns
  BY DEF GoodRuns, Runs, SoundInv, ReleaseInv

LEMMA BadIs ==
    \A r \in GoodRuns, b \in BOOLEAN : (b => r.nvml = "released") => [r EXCEPT !.bad = b] \in GoodRuns
  BY DEF GoodRuns, Runs, SoundInv, ReleaseInv

LEMMA LateIs == \A r \in GoodRuns, b \in BOOLEAN : (r.late => b) => [r EXCEPT !.late = b] \in GoodRuns
  BY DEF GoodRuns, Runs, SoundInv, ReleaseInv

(* The shutdown's two steps and the release. *)
LEMMA ClosedIs ==
    \A r \in GoodRuns : r.at = "serve" => [r EXCEPT !.at = "drain", !.lis = "closed"] \in GoodRuns
<1>. TAKE r \in GoodRuns
<1>. HAVE r.at = "serve"
<1>. DEFINE s == [r EXCEPT !.at = "drain"]
            t == [s EXCEPT !.lis = "closed"]
<1>1. /\ s \in Runs /\ s.at = "drain" /\ s.c = r.c /\ s.nvml = r.nvml
      /\ (s.bad <=> r.bad) /\ (s.shown <=> r.shown) /\ (s.late <=> r.late)
  BY DEF GoodRuns, Runs, Places
<1>. HIDE DEF s
<1>2. /\ t \in Runs /\ t.at = s.at /\ t.c = s.c /\ t.nvml = s.nvml /\ t.lis = "closed"
      /\ (t.bad <=> s.bad) /\ (t.shown <=> s.shown) /\ (t.late <=> s.late)
  BY <1>1 DEF Runs
<1>. HIDE DEF t
<1>3. t \in GoodRuns
  BY <1>1, <1>2 DEF GoodRuns, SoundInv, ReleaseInv
<1>. QED
  BY <1>3 DEF s, t

LEMMA StopIs ==
    \A r \in GoodRuns : r.at = "drain" /\ (r.busy => r.late) => [r EXCEPT !.at = "stop"] \in GoodRuns
  BY DEF GoodRuns, Runs, Places, SoundInv, ReleaseInv

LEMMA ReleasedIs ==
    \A r \in GoodRuns : r.at = "stop" => Leaving([r EXCEPT !.nvml = "released"], 0) \in GoodRuns
  BY DEF GoodRuns, Runs, Places, SoundInv, ReleaseInv, Leaving

(* A step of one run. *)
LEMMA OneRun ==
    ASSUME LifeInv, NEW p \in Pids, NEW r \in GoodRuns, run' = [run EXCEPT ![p] = r]
    PROVE  LifeInv'
  BY DEF LifeInv

LEMMA StartUpKeeps ==
    ASSUME LifeInv, NEW p \in Pids,
           \/ \E given \in BOOLEAN : ParseFlags(p, given)
           \/ LoadConfig(p)
    PROVE  LifeInv'
<1>0. run[p] \in GoodRuns
  BY DEF LifeInv
<1>1. run[p].at \in {"flags", "load"} /\ run[p].nvml # "released"
  BY <1>0 DEF ParseFlags, LoadConfig, In, GoodRuns, ReleaseInv
<1>. DEFINE r == run[p]
<1>2. Leaving(r, 1) \in GoodRuns /\ Leaving(r, 2) \in GoodRuns
  BY <1>0, <1>1, LeaveIs
<1>3. [r EXCEPT !.at = "load"] \in GoodRuns
  BY <1>0, <1>1, AtIs DEF Places
<1>4. ASSUME NEW raw \in RawConfigs PROVE [r EXCEPT !.at = "build", !.c = Load(raw)] \in GoodRuns
  <2>. DEFINE s == [r EXCEPT !.at = "build"]
  <2>1. s \in GoodRuns
    BY <1>0, <1>1, AtIs DEF Places
  <2>2. s.at = "build"
    BY <1>0 DEF GoodRuns, Runs
  <2>. HIDE DEF s
  <2>3. [s EXCEPT !.c = Load(raw)] \in GoodRuns
    BY <2>1, <2>2, LoadIs, ConfigIs
  <2>. QED
    BY <2>3 DEF s
<1>5. ASSUME NEW given \in BOOLEAN, ParseFlags(p, given) PROVE LifeInv'
  BY <1>2, <1>3, <1>5, OneRun DEF ParseFlags, Set
<1>6. ASSUME LoadConfig(p) PROVE LifeInv'
  BY <1>2, <1>4, <1>6, OneRun DEF LoadConfig, Set
<1>. QED
  BY <1>5, <1>6

LEMMA BuildKeeps ==
    ASSUME LifeInv, NEW p \in Pids, NEW found \in BOOLEAN, NEW mounted \in BOOLEAN, Build(p, found, mounted)
    PROVE  LifeInv'
<1>. DEFINE r == run[p]
            c == r.c
            on == found /\ "gpu" \in c.modules
            up == [r EXCEPT !.nvml = IF on THEN "on" ELSE "off"]
            serving == [up EXCEPT !.at = "serve", !.lis = "starting", !.loop = IF on THEN "select" ELSE "none"]
<1>0. r \in GoodRuns /\ r.at = "build" /\ r.nvml # "released" /\ r \in Runs
  BY DEF LifeInv, Build, In, GoodRuns, ReleaseInv
<1>. HIDE DEF r
<1>1. c # Unreadable => ~ RingBufferPanics(c) /\ ~ TickerPanics(c)
  BY <1>0, ValidNeverPanics DEF GoodRuns, SoundInv
<1>2. /\ up \in GoodRuns /\ up.nvml # "released" /\ up.c = c /\ up.at = "build"
  <2>. DEFINE n == IF on THEN "on" ELSE "off"
  <2>1. n \in {"off", "on"}
    OBVIOUS
  <2>. HIDE DEF n
  <2>2. [r EXCEPT !.nvml = n] \in GoodRuns
    BY <1>0, <2>1, NvmlIs
  <2>3. /\ [r EXCEPT !.nvml = n].nvml = n /\ [r EXCEPT !.nvml = n].c = c
        /\ [r EXCEPT !.nvml = n].at = "build"
    BY <1>0 DEF Runs
  <2>. QED
    BY <2>1, <2>2, <2>3 DEF n
<1>3. serving \in GoodRuns
  <2>. HIDE DEF up
  <2>. DEFINE s == [up EXCEPT !.at = "serve"]
              t == [s EXCEPT !.lis = "starting"]
              l == IF on THEN "select" ELSE "none"
  <2>1. s \in GoodRuns
    BY <1>2, AtIs DEF Places
  <2>2. s.nvml # "released" /\ s.at = "serve"
    BY <1>2 DEF GoodRuns, Runs
  <2>. HIDE DEF s
  <2>3. t \in GoodRuns
    BY <2>1, <2>2, LisIs
  <2>. HIDE DEF t
  <2>4. l \in {"none", "select", "collect", "ended"}
    OBVIOUS
  <2>. HIDE DEF l
  <2>5. [t EXCEPT !.loop = l] \in GoodRuns
    BY <2>3, <2>4, LoopIs
  <2>. QED
    BY <2>5 DEF s, t, l
<1>4. Leaving(up, 1) \in GoodRuns
  <2>. HIDE DEF up
  <2>. QED
    BY <1>2, LeaveIs
<1>5. c = Unreadable => [r EXCEPT !.at = "panic"] \in GoodRuns /\ [up EXCEPT !.at = "panic"] \in GoodRuns
  <2>. HIDE DEF up
  <2>. QED
    BY <1>0, <1>2, PanicIs
<1>6. \/ run' = [run EXCEPT ![p] = Leaving(up, 1)]
      \/ run' = [run EXCEPT ![p] = serving]
      \/ /\ c = Unreadable
         /\ \/ run' = [run EXCEPT ![p] = [r EXCEPT !.at = "panic"]]
            \/ run' = [run EXCEPT ![p] = [up EXCEPT !.at = "panic"]]
  BY <1>1 DEF Build, Set, r
<1>. HIDE DEF up, serving
<1>. QED
  BY <1>3, <1>4, <1>5, <1>6, OneRun

LEMMA GoroutinesKeep ==
    ASSUME LifeInv, NEW p \in Pids,
           Signal(p) \/ Listen(p) \/ HandlerStarts(p) \/ HandlerAnswers(p) \/ LoopTick(p) \/ LoopDone(p) \/ LoopPublish(p)
    PROVE  LifeInv'
<1>. DEFINE r == run[p]
<1>0. r \in GoodRuns /\ r \in Runs /\ ReleaseInv(r)
  BY DEF LifeInv, GoodRuns
<1>1. CASE Signal(p)
  <2>1. [r EXCEPT !.sig = TRUE] \in GoodRuns
    BY <1>0, SigIs
  <2>. QED
    BY <1>1, <2>1, OneRun DEF Signal, Set
<1>2. CASE Listen(p)
  <2>1. r.nvml # "released" /\ r.at \notin {"drain", "stop"}
    BY <1>0, <1>2 DEF Listen, ReleaseInv
  <2>2. [r EXCEPT !.lis = "bound"] \in GoodRuns /\ [r EXCEPT !.lis = "failed"] \in GoodRuns
    BY <1>0, <2>1, LisIs
  <2>. QED
    BY <1>2, <2>2, OneRun DEF Listen, Set
<1>3. CASE HandlerStarts(p)
  <2>1. [r EXCEPT !.busy = TRUE] \in GoodRuns
    BY <1>0, <1>3, BusyIs DEF HandlerStarts
  <2>. QED
    BY <1>3, <2>1, OneRun DEF HandlerStarts, Set
<1>4. CASE HandlerAnswers(p)
  <2>. DEFINE s == [r EXCEPT !.busy = FALSE]
              b == r.shown \/ r.bad
  <2>1. s \in GoodRuns
    BY <1>0, BusyIs
  <2>2. (s.late <=> r.late) /\ (s.shown <=> r.shown)
    BY <1>0 DEF Runs
  <2>3. b => r.late
    BY <1>0, <1>4 DEF HandlerAnswers, ReleaseInv
  <2>4. b \in BOOLEAN
    OBVIOUS
  <2>5. run' = [run EXCEPT ![p] = [s EXCEPT !.shown = b]]
    BY <1>4, <2>2 DEF HandlerAnswers, Set
  <2>. HIDE DEF s, b
  <2>6. [s EXCEPT !.shown = b] \in GoodRuns
    BY <2>1, <2>2, <2>3, <2>4, ShownIs
  <2>. QED
    BY <2>5, <2>6, OneRun
<1>5. CASE LoopTick(p)
  <2>1. [r EXCEPT !.loop = "collect"] \in GoodRuns
    BY <1>0, LoopIs
  <2>. QED
    BY <1>5, <2>1, OneRun DEF LoopTick, Set
<1>6. CASE LoopDone(p)
  <2>1. [r EXCEPT !.loop = "ended"] \in GoodRuns
    BY <1>0, LoopIs
  <2>. QED
    BY <1>6, <2>1, OneRun DEF LoopDone, Set
<1>7. CASE LoopPublish(p)
  <2>. DEFINE s == [r EXCEPT !.loop = "select"]
              b == r.bad \/ r.nvml = "released"
  <2>1. s \in GoodRuns
    BY <1>0, LoopIs
  <2>2. s.nvml = r.nvml /\ (s.bad <=> r.bad)
    BY <1>0 DEF Runs
  <2>3. b => r.nvml = "released"
    BY <1>0 DEF ReleaseInv
  <2>4. b \in BOOLEAN
    OBVIOUS
  <2>5. run' = [run EXCEPT ![p] = [s EXCEPT !.bad = b]]
    BY <1>7, <2>2 DEF LoopPublish, Set
  <2>. HIDE DEF s, b
  <2>6. [s EXCEPT !.bad = b] \in GoodRuns
    BY <2>1, <2>2, <2>3, <2>4, BadIs
  <2>. QED
    BY <2>5, <2>6, OneRun
<1>. QED
  BY <1>1, <1>2, <1>3, <1>4, <1>5, <1>6, <1>7

LEMMA ShutdownKeeps ==
    ASSUME LifeInv, NEW p \in Pids,
           SelectSignal(p) \/ SelectError(p) \/ Drained(p) \/ DrainTimesOut(p) \/ StopModules(p)
    PROVE  LifeInv'
<1>. DEFINE r == run[p]
<1>0. r \in GoodRuns /\ r \in Runs /\ ReleaseInv(r)
  BY DEF LifeInv, GoodRuns
<1>1. CASE SelectSignal(p)
  <2>1. [r EXCEPT !.at = "drain", !.lis = "closed"] \in GoodRuns
    BY <1>0, <1>1, ClosedIs DEF SelectSignal, In
  <2>. QED
    BY <1>1, <2>1, OneRun DEF SelectSignal, Set
<1>2. CASE SelectError(p)
  <2>1. r.nvml # "released"
    BY <1>0, <1>2 DEF SelectError, ReleaseInv
  <2>2. Leaving(r, 1) \in GoodRuns
    BY <1>0, <2>1, LeaveIs
  <2>. QED
    BY <1>2, <2>2, OneRun DEF SelectError, Set
<1>3. CASE Drained(p)
  <2>1. [r EXCEPT !.at = "stop"] \in GoodRuns
    BY <1>0, <1>3, StopIs DEF Drained, In
  <2>. QED
    BY <1>3, <2>1, OneRun DEF Drained, Set
<1>4. CASE DrainTimesOut(p)
  <2>. DEFINE s == [r EXCEPT !.late = TRUE]
  <2>1. s \in GoodRuns
    BY <1>0, LateIs
  <2>2. s.at = "drain" /\ s.late
    BY <1>0, <1>4 DEF DrainTimesOut, In, Runs
  <2>3. [r EXCEPT !.at = "stop", !.late = TRUE] = [s EXCEPT !.at = "stop"]
    BY <1>0 DEF Runs
  <2>. HIDE DEF s
  <2>4. [s EXCEPT !.at = "stop"] \in GoodRuns
    BY <2>1, <2>2, StopIs
  <2>. QED
    BY <1>4, <2>3, <2>4, OneRun DEF DrainTimesOut, Set
<1>5. CASE StopModules(p)
  <2>1. r.at = "stop" /\ r.nvml \in {"off", "on"}
    BY <1>0, <1>5 DEF StopModules, In, Runs, ReleaseInv
  <2>2. CASE r.nvml = "on"
    <3>1. Leaving([r EXCEPT !.nvml = "released"], 0) \in GoodRuns
      BY <1>0, <2>1, ReleasedIs
    <3>2. [r EXCEPT !.nvml = IF @ = "on" THEN "released" ELSE @] = [r EXCEPT !.nvml = "released"]
      BY <2>2
    <3>. QED
      BY <1>5, <3>1, <3>2, OneRun DEF StopModules, Set
  <2>3. CASE r.nvml = "off"
    <3>1. Leaving(r, 0) \in GoodRuns
      BY <1>0, <2>3, LeaveIs
    <3>2. [r EXCEPT !.nvml = IF @ = "on" THEN "released" ELSE @] = r
      BY <1>0, <2>3 DEF Runs
    <3>. QED
      BY <1>5, <3>1, <3>2, OneRun DEF StopModules, Set
  <2>. QED
    BY <2>1, <2>2, <2>3
<1>. QED
  BY <1>1, <1>2, <1>3, <1>4, <1>5

LEMMA LifeInvStep == LifeInv /\ [LifeNext]_lvars => LifeInv'
<1>. SUFFICES ASSUME LifeInv, [LifeNext]_lvars PROVE LifeInv'
  OBVIOUS
<1>1. ASSUME NEW p \in Pids, Acquire(p) PROVE LifeInv'
  <2>1. CASE UNCHANGED run
    BY <2>1 DEF LifeInv
  <2>2. CASE run' = [run EXCEPT ![p] = [NoRun EXCEPT !.at = "flags"]]
    BY <2>2, NoRunIs, OneRun
  <2>. QED
    BY <1>1, <2>1, <2>2 DEF Acquire
<1>2. ASSUME NEW p \in Pids, Killed(p) \/ EndProcess(p) PROVE LifeInv'
  BY <1>2, NoRunIs, OneRun DEF Killed, EndProcess
<1>3. ASSUME NEW p \in Pids, DeferredRelease(p) PROVE LifeInv'
  BY <1>3 DEF DeferredRelease, LifeInv
<1>4. CASE UNCHANGED lvars
  BY <1>4 DEF lvars, LifeInv
<1>. QED
  BY <1>1, <1>2, <1>3, <1>4, StartUpKeeps, BuildKeeps, GoroutinesKeep, ShutdownKeeps DEF LifeNext, Main

(* Every run is good: what it uses has been validated, and it shuts down in *)
(* the order that keeps released reads from the clients.                    *)
THEOREM LifeInvariant == LifeSpec => []LifeInv
<1>1. LifeInit => LifeInv
  BY NoRunIs DEF LifeInit, LifeInv
<1>. QED
  BY <1>1, LifeInvStep, PTL DEF LifeSpec

(* No configuration that Load accepts makes the program panic or leaves a   *)
(* security setting that is on without effect, and no mount is listed twice.*)
THEOREM AcceptedIsSound == LifeSpec => []AcceptedMeansSound
<1>1. LifeInv => AcceptedMeansSound
  <2>. SUFFICES ASSUME LifeInv, NEW p \in Pids, run[p].c.readable
                PROVE  LET c == run[p].c IN
                         /\ run[p].at # "panic"
                         /\ c.limit => LimiterActive(c)
                         /\ c.cors => Patterns(c.origins) = {Parse(c.origins[i]) : i \in 1 .. Len(c.origins)}
                         /\ "storage" \in c.modules =>
                               \A i, j \in 1 .. Len(c.mounts) : i # j => c.mounts[i].path # c.mounts[j].path
    BY DEF AcceptedMeansSound
  <2>. DEFINE c == run[p].c
  <2>1. c # Unreadable
    BY UnreadableIs
  <2>2. Validate(c) /\ run[p].at # "panic"
    BY <2>1 DEF LifeInv, GoodRuns, SoundInv
  <2>. HIDE DEF c
  <2>3. c.limit => LimiterActive(c)
    BY <2>2 DEF Validate, SecurityValid, LimiterActive
  <2>4. c.cors => Patterns(c.origins) = {Parse(c.origins[i]) : i \in 1 .. Len(c.origins)}
    <3>1. c.cors => \A i \in 1 .. Len(c.origins) : Parse(c.origins[i]).ok
      BY <2>2 DEF Validate, SecurityValid
    <3>2. c.cors => {i \in 1 .. Len(c.origins) : Parse(c.origins[i]).ok} = 1 .. Len(c.origins)
      BY <3>1
    <3>. QED
      BY <3>2 DEF Patterns
  <2>5. "storage" \in c.modules =>
          \A i, j \in 1 .. Len(c.mounts) : i # j => c.mounts[i].path # c.mounts[j].path
    BY <2>2 DEF Validate, MountsValid
  <2>. QED
    BY <2>2, <2>3, <2>4, <2>5 DEF c
<1>. QED
  BY <1>1, LifeInvariant, PTL

(* What the gpu module reads from an NVML already released is served only   *)
(* by a handler the server's shutdown has given up on.                      *)
THEOREM ReleasedReadsStayUnseen == LifeSpec => []ReleasedReadsUnseen
<1>1. LifeInv => ReleasedReadsUnseen
  BY DEF LifeInv, GoodRuns, ReleaseInv, ReleasedReadsUnseen
<1>. QED
  BY <1>1, LifeInvariant, PTL
=============================================================================
