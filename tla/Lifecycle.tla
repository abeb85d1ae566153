----------------------------- MODULE Lifecycle -----------------------------
(***************************************************************************)
(* cmd/monitor/main.go: run, from the PID lock to the exit status.  The     *)
(* processes and the lock are PidLock's; here each process that holds the   *)
(* lock loads its configuration, builds and starts its modules, serves,     *)
(* and shuts down, while the kernel sends it signals, another monitor may   *)
(* own its port, and the gpu module's sampling goroutine uses NVML, the one *)
(* resource a module's Shutdown gives back.                                 *)
(*                                                                         *)
(* One handler per process stands for all of its handlers.  The other       *)
(* modules' Shutdown is a no-op and their sampling is Sampler's.            *)
(***************************************************************************)
EXTENDS PidLock, Config

CONSTANTS RawConfigs    \* what the configuration file may hold

ASSUME RawConfigAssumption == RawConfigs \subseteq Configs \cup {Unreadable}

VARIABLE run            \* run[p]: the state of p's main.run and of its goroutines

lvars == << vars, run >>

(* at: where run is; c: cfg; sig: rootCtx is done; lis: the listener; nvml  *)
(* and loop: the gpu module; busy: a handler is at work; late: http's       *)
(* Shutdown gave up on it; bad: the latest gpu sample was read from an NVML *)
(* already released; shown: such a sample was served; code: exit status.    *)
NoRun == [at |-> "none", c |-> Unreadable, sig |-> FALSE, lis |-> "none", nvml |-> "off",
          loop |-> "none", busy |-> FALSE, late |-> FALSE, bad |-> FALSE,
          shown |-> FALSE, code |-> 0]

LifeInit == Init /\ run = [p \in Pids |-> NoRun]

In(p, place) == proc[p] = "running" /\ run[p].at = place
Set(p, r) == run' = [run EXCEPT ![p] = r] /\ UNCHANGED vars

(* return code: what is left are the deferred calls, of which only Release  *)
(* matters to anybody else.                                                 *)
Leaving(r, code) == [r EXCEPT !.at = "leave", !.code = code]

(* The address of p's configuration is taken by another process. *)
PortTaken(p) == \E q \in Pids \ {p} : run[q].lis = "bound" /\ SameAddr(run[q].c, run[p].c)

(* Where run calls the gpu's library: gpu.New initialises NVML and collects *)
(* a first sample, Shutdown releases it.  Neither has a deadline.           *)
InGpu(p) ==
    \/ In(p, "build") /\ "gpu" \in run[p].c.modules
    \/ In(p, "stop") /\ run[p].nvml = "on"

-----------------------------------------------------------------------------
(* The lock: until Acquire succeeds, and from the deferred Release on.      *)

Acquire(p) ==
    \/ /\ \/ StartMonitor(p) \/ StartOther(p) \/ StopOther(p) \/ ReadFile(p) \/ ReadFails(p)
          \/ Refuse(p) \/ Check(p) \/ CheckDenied(p) \/ Truncate(p) \/ WriteFails(p)
       /\ UNCHANGED run
    \/ /\ Write(p) \/ WriteOrphan(p)
       /\ run' = [run EXCEPT ![p] = [NoRun EXCEPT !.at = "flags"]]

DeferredRelease(p) == In(p, "leave") /\ Release(p) /\ UNCHANGED run

EndProcess(p) == Exit(p) /\ run' = [run EXCEPT ![p] = NoRun]

Killed(p) == Crash(p) /\ run' = [run EXCEPT ![p] = NoRun]

-----------------------------------------------------------------------------
(* Start-up *)

ParseFlags(p, given) ==
    /\ In(p, "flags")
    /\ Set(p, IF given THEN [run[p] EXCEPT !.at = "load"] ELSE Leaving(run[p], 2))

LoadConfig(p) ==
    /\ In(p, "load")
    /\ \E raw \in RawConfigs :
          Set(p, IF Load(raw).readable
                   THEN [run[p] EXCEPT !.at = "build", !.c = Load(raw)]
                   ELSE Leaving(run[p], 1))

(* SIGINT or SIGTERM once NotifyContext has been called; before that it is  *)
(* Killed.                                                                  *)
Signal(p) ==
    /\ proc[p] = "running" /\ run[p].at \notin {"flags", "load", "panic"} /\ ~ run[p].sig
    /\ Set(p, [run[p] EXCEPT !.sig = TRUE])

(* buildModules and the start of the listener.  found: NVML initialises;    *)
(* mounted: the storage module accepts its mounts.  A failure leaves NVML   *)
(* to the exit of the process.                                              *)
Build(p, found, mounted) ==
    /\ In(p, "build")
    /\ LET c == run[p].c
           on == found /\ "gpu" \in c.modules
           up == [run[p] EXCEPT !.nvml = IF on THEN "on" ELSE "off"]
       IN  Set(p, IF RingBufferPanics(c) THEN [run[p] EXCEPT !.at = "panic"]
                  ELSE IF "storage" \in c.modules /\ ~ mounted THEN Leaving(up, 1)
                  ELSE IF (on \/ c.modules \ {"gpu"} # {}) /\ TickerPanics(c) THEN [up EXCEPT !.at = "panic"]
                  ELSE [up EXCEPT !.at = "serve", !.lis = "starting",
                                  !.loop = IF on THEN "select" ELSE "none"])

-----------------------------------------------------------------------------
(* The goroutine of ListenAndServe, and a handler *)

(* It fails if the port is taken, and may fail for other reasons. *)
Listen(p) ==
    /\ proc[p] = "running" /\ run[p].lis = "starting"
    /\ \/ ~ PortTaken(p) /\ Set(p, [run[p] EXCEPT !.lis = "bound"])
       \/ Set(p, [run[p] EXCEPT !.lis = "failed"])

HandlerStarts(p) ==
    /\ proc[p] = "running" /\ run[p].lis = "bound" /\ ~ run[p].busy
    /\ Set(p, [run[p] EXCEPT !.busy = TRUE])

(* It serves the latest gpu sample, among others. *)
HandlerAnswers(p) ==
    /\ proc[p] = "running" /\ run[p].busy
    /\ Set(p, [run[p] EXCEPT !.busy = FALSE, !.shown = @ \/ run[p].bad])

-----------------------------------------------------------------------------
(* The gpu module's RunLoop *)

LoopTick(p) ==
    /\ proc[p] = "running" /\ run[p].loop = "select"
    /\ Set(p, [run[p] EXCEPT !.loop = "collect"])

LoopDone(p) ==
    /\ proc[p] = "running" /\ run[p].loop = "select" /\ run[p].sig
    /\ Set(p, [run[p] EXCEPT !.loop = "ended"])

(* Collect returns and its sample is published. *)
LoopPublish(p) ==
    /\ proc[p] = "running" /\ run[p].loop = "collect"
    /\ Set(p, [run[p] EXCEPT !.loop = "select", !.bad = @ \/ run[p].nvml = "released"])

-----------------------------------------------------------------------------
(* Mutants of the shutdown below: the modules are shut down before the      *)
(* server; the server is given no deadline; its error is logged only.       *)
SelectSignalModulesFirst(p) ==
    /\ In(p, "serve") /\ run[p].sig
    /\ Set(p, [run[p] EXCEPT !.at = "drain", !.lis = "closed",
                             !.nvml = IF @ = "on" THEN "released" ELSE @])

DrainTimesOutNever(p) == FALSE /\ UNCHANGED lvars

SelectErrorGoesOn(p) ==
    /\ In(p, "serve") /\ run[p].lis = "failed"
    /\ Set(p, [run[p] EXCEPT !.lis = "closed"])

(* The select of run; when both are ready it takes either.  The server's    *)
(* Shutdown first closes the listener, or keeps it from being opened.       *)
SelectSignal(p) ==
    /\ In(p, "serve") /\ run[p].sig
    /\ Set(p, [run[p] EXCEPT !.at = "drain", !.lis = "closed"])

SelectError(p) ==
    /\ In(p, "serve") /\ run[p].lis = "failed"
    /\ Set(p, Leaving(run[p], 1))

(* It returns when no handler is left or after ten seconds. *)
Drained(p) ==
    /\ In(p, "drain") /\ ~ run[p].busy
    /\ Set(p, [run[p] EXCEPT !.at = "stop"])

DrainTimesOut(p) ==
    /\ In(p, "drain") /\ run[p].busy
    /\ Set(p, [run[p] EXCEPT !.at = "stop", !.late = TRUE])

(* The modules' Shutdown: the gpu module releases NVML, whatever its loop   *)
(* is doing.                                                                *)
StopModules(p) ==
    /\ In(p, "stop")
    /\ Set(p, Leaving([run[p] EXCEPT !.nvml = IF @ = "on" THEN "released" ELSE @], 0))

-----------------------------------------------------------------------------
(* What run does by itself. *)
Main(p) ==
    \/ \E given \in BOOLEAN : ParseFlags(p, given)
    \/ LoadConfig(p)
    \/ \E found, mounted \in BOOLEAN : Build(p, found, mounted)
    \/ SelectSignal(p) \/ SelectError(p) \/ Drained(p) \/ DrainTimesOut(p) \/ StopModules(p)
    \/ DeferredRelease(p) \/ EndProcess(p)

LifeNext == \E p \in Pids :
    \/ Acquire(p) \/ Killed(p) \/ Main(p) \/ Signal(p)
    \/ Listen(p) \/ HandlerStarts(p) \/ HandlerAnswers(p)
    \/ LoopTick(p) \/ LoopDone(p) \/ LoopPublish(p)

(* run and the listener's goroutine make progress, run as long as it does   *)
(* not wait for the gpu; nothing is assumed of handlers, whose client may   *)
(* be slow, or of the gpu, which may hang wherever it is called.            *)
LifeSpec ==
    /\ LifeInit /\ [][LifeNext]_lvars
    /\ \A p \in Pids : WF_lvars(Main(p) /\ ~ InGpu(p)) /\ WF_lvars(Listen(p))

-----------------------------------------------------------------------------
(* Properties *)

(* "the process either starts in a known-good state or fails fast"          *)
(* (config.go:3-4): no configuration that Load accepts makes a ring buffer  *)
(* or a ticker built from it panic; a security setting that is enabled is   *)
(* in force, with a limiter that is not the no-op and no listed origin      *)
(* skipped at request time (origin.go:1-5); and no mount is sampled twice.  *)
AcceptedMeansSound ==
    \A p \in Pids : LET c == run[p].c IN c.readable =>
        /\ run[p].at # "panic"
        /\ c.limit => LimiterActive(c)
        /\ c.cors => Patterns(c.origins) = {Parse(c.origins[i]) : i \in 1 .. Len(c.origins)}
        /\ "storage" \in c.modules =>
              \A i, j \in 1 .. Len(c.mounts) : i # j => c.mounts[i].path # c.mounts[j].path

(* NVML is released while the sampling goroutine may still be reading it;   *)
(* what that reads is never served, unless the server's graceful shutdown   *)
(* ran out of time with a request still being handled.                      *)
ReleasedReadsUnseen == \A p \in Pids : run[p].shown => run[p].late

(* A monitor that has been signalled stops, though a handler never answers, *)
(* and though its sampling loop hangs in the gpu; only run itself, waiting  *)
(* for the gpu in gpu.New or in Shutdown (main.go:88, 138-142), keeps it.   *)
SignalEndsMonitor == \A p \in Pids : run[p].sig ~> (proc[p] # "running" \/ InGpu(p))

Rivals(p, q) ==
    /\ proc[p] = "running" /\ proc[q] = "running"
    /\ run[p].c.readable /\ run[q].c.readable /\ SameAddr(run[p].c, run[q].c)

(* When two starts have slipped past the lock together, the address         *)
(* decides: two monitors that listen on the same one do not keep running    *)
(* side by side, unless one hangs in a call of the gpu's library.           *)
RaceResolves ==
    []<>(\A p, q \in Pids : Rivals(p, q) => p = q \/ InGpu(p) \/ InGpu(q))
=============================================================================
