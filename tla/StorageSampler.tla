--------------------------- MODULE StorageSampler ---------------------------
(***************************************************************************)
(* The storage module (internal/storage/module.go and mounts.go) on top of  *)
(* its DiskCollector: the configured paths are checked against the mount    *)
(* table once, then every collectOnce asks for each mount in turn, with a   *)
(* deadline each, and publishes one sample for all of them.  The sampling   *)
(* goroutine is the collector's only caller; its ticks come at any time     *)
(* between two rounds.                                                      *)
(***************************************************************************)
EXTENDS DiskCollector, Sequences, FiniteSets

CONSTANTS
    Goroutine,      \* the caller that samples
    Configs,        \* the mount point lists of the configuration
    Tables          \* the sets of paths the mount table may hold

ASSUME StorageAssumption ==
    /\ Callers = {Goroutine}
    /\ \A cfg \in Configs : cfg \in Seq(Paths)
    /\ \A table \in Tables : table \subseteq Paths

VARIABLES
    stage,          \* "boot", "round", "idle" or "failed"
    mounts,         \* Module.mounts
    disks,          \* collectOnce's disks so far
    sample          \* the latest published sample

storage == << stage, mounts, disks, sample >>
vars == << dvars, storage >>

Disk(p, r) == [path |-> p, ok |-> r.ok, ver |-> r.ver]
NoSample == [disks |-> << >>, err |-> FALSE]

Init ==
    /\ DiskInit
    /\ stage = "boot"
    /\ mounts = << >> /\ disks = << >>
    /\ sample = NoSample

-----------------------------------------------------------------------------
(* Mutants *)

(* The first mount that fails ends the round. *)
PublishSampleEarly ==
    /\ stage = "round" /\ disks # << >> /\ pc[Goroutine] = "idle"
    /\ Len(disks) = Len(mounts) \/ ~ disks[Len(disks)].ok
    /\ sample' = [disks |-> disks, err |-> \A i \in 1 .. Len(disks) : ~ disks[i].ok]
    /\ disks' = << >>
    /\ stage' = "idle"
    /\ UNCHANGED << dvars, mounts >>

-----------------------------------------------------------------------------
(* validateMountPoints: one path that is not in the mount table refuses all. *)
Validated(cfg, table) == \A i \in 1 .. Len(cfg) : cfg[i] \in table

(* NewWithDeps: an empty list and a path that is not mounted are fatal. *)
Boot(cfg, table) ==
    /\ stage = "boot"
    /\ IF cfg # << >> /\ Validated(cfg, table)
         THEN stage' = "round" /\ mounts' = cfg
         ELSE stage' = "failed" /\ UNCHANGED mounts
    /\ UNCHANGED << dvars, disks, sample >>

(* A tick starts collectOnce. *)
Tick ==
    /\ stage = "idle"
    /\ stage' = "round"
    /\ UNCHANGED << dvars, mounts, disks, sample >>

(* The next mount is asked for. *)
AskMount ==
    /\ stage = "round" /\ Len(disks) < Len(mounts)
    /\ LET p == mounts[Len(disks) + 1]
       IN  Join(Goroutine, p) \/ \E k \in Calls : Create(Goroutine, p, k)
    /\ UNCHANGED storage

SpawnWorker == Spawn(Goroutine) /\ UNCHANGED storage

(* Usage returns and its result, or its error, becomes the mount's entry. *)
AnswerMount ==
    /\ stage = "round"
    /\ Wait(Goroutine)
    /\ disks' = Append(disks, Disk(mounts[Len(disks) + 1], answer'[Goroutine]))
    /\ UNCHANGED << stage, mounts, sample >>

(* The sample is published; it has an error of its own if every mount failed. *)
PublishSample ==
    /\ stage = "round" /\ Len(disks) = Len(mounts)
    /\ sample' = [disks |-> disks, err |-> \A i \in 1 .. Len(disks) : ~ disks[i].ok]
    /\ disks' = << >>
    /\ stage' = "idle"
    /\ UNCHANGED << dvars, mounts >>

-----------------------------------------------------------------------------
RoundStep == AskMount \/ SpawnWorker \/ AnswerMount \/ PublishSample
Environment == (KernelNext \/ \E k \in Calls : Worker(k)) /\ UNCHANGED storage

Next ==
    \/ \E cfg \in Configs, table \in Tables : Boot(cfg, table)
    \/ Tick
    \/ RoundStep
    \/ Environment

Spec == Init /\ [][Next]_vars

(* The goroutine and the workers run, deadlines pass, and a statvfs on a    *)
(* mount that answers for good returns; nothing is assumed of one that hangs. *)
LiveSpec ==
    /\ Spec
    /\ WF_vars(RoundStep)
    /\ \A k \in Calls : WF_vars(Worker(k) /\ UNCHANGED storage)

-----------------------------------------------------------------------------
(* Properties *)

(* Every published sample has one entry for each configured mount, in the   *)
(* configured order, whichever of them timed out or failed                  *)
(* (module.go:134-187), and never more workers exist than distinct mounts   *)
(* are configured: rounds over a hung mount do not pile up goroutines.      *)
RoundIsComplete ==
    /\ sample # NoSample =>
          /\ Len(sample.disks) = Len(mounts)
          /\ \A i \in 1 .. Len(mounts) : sample.disks[i].path = mounts[i]
    /\ Cardinality({k \in Calls : phase[k] \in Live})
          <= Cardinality({mounts[i] : i \in 1 .. Len(mounts)})

(* "a slow or unresponsive NFS mount cannot block the sampler"              *)
(* (types.go:8-10): every round ends, even if every mount hangs for ever.   *)
RoundEnds == stage = "round" ~> stage = "idle"
=============================================================================
