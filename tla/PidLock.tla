------------------------------ MODULE PidLock ------------------------------
(***************************************************************************)
(* internal/lock/lock.go: the PID file that keeps two monitors from running *)
(* on one host, as monitors start, stop, crash and have their pids reused.  *)
(* Acquire reads the file, asks whether the recorded pid is alive, and      *)
(* writes its own pid with os.WriteFile, which truncates first: four steps  *)
(* that another process may come between.                                   *)
(***************************************************************************)
EXTENDS Integers

CONSTANTS
    Pids,           \* process ids
    Absent,         \* the file does not exist
    Empty,          \* the file exists and is empty
    Garbled         \* the file does not hold one number

ASSUME PidAssumption ==
    /\ Absent \notin Pids /\ Empty \notin Pids /\ Garbled \notin Pids
    /\ Absent # Empty /\ Absent # Garbled /\ Empty # Garbled

VARIABLES
    file,           \* content of the PID file
    proc,           \* proc[p]: what process p is doing, "free" if there is none
    got,            \* got[p]: the content p's Acquire read
    overlapped,     \* history variable: a start has begun while another was in Acquire
    blind           \* history variable: a start has gone past a monitor it could not see

vars == << file, proc, got, overlapped, blind >>

Contents == Pids \cup {Absent, Empty, Garbled}

(* The places where a monitor is inside Acquire. *)
Acquiring == {"read", "check", "truncate", "write", "orphan"}

IsMonitor(p) == proc[p] \notin {"free", "other"}

Become(p, state) == proc' = [proc EXCEPT ![p] = state]

(* The file may be left over from an earlier boot. *)
Init ==
    /\ file \in Contents
    /\ proc = [p \in Pids |-> "free"]
    /\ got = [p \in Pids |-> Absent]
    /\ overlapped = FALSE /\ blind = FALSE

(* A mutant of pidRunning: a recorded pid is always taken for dead. *)
pidRunningNever(p) == FALSE

(* process.Signal(0) succeeds: the pid belongs to some process, of a user   *)
(* the caller may signal (CheckDenied).                                     *)
pidRunning(p) == proc[p] # "free"

-----------------------------------------------------------------------------
(* Mutants *)

(* The file is opened without O_TRUNC. *)
TruncateForgotten(p) ==
    /\ proc[p] = "truncate"
    /\ Become(p, "write")
    /\ UNCHANGED << file, got, overlapped, blind >>

(* The error path of a refused start removes the file. *)
RefuseReleases(p) ==
    /\ proc[p] = "check"
    /\ got[p] \in Pids /\ proc[got[p]] # "free"
    /\ Become(p, "refused")
    /\ file' = Absent
    /\ got' = [got EXCEPT ![p] = Absent]
    /\ UNCHANGED << overlapped, blind >>

-----------------------------------------------------------------------------
(* Processes come and go *)

StartMonitor(p) ==
    /\ proc[p] = "free"
    /\ Become(p, "read")
    /\ overlapped' = (overlapped \/ \E q \in Pids : proc[q] \in Acquiring)
    /\ UNCHANGED << file, got, blind >>

StartOther(p) ==
    /\ proc[p] = "free"
    /\ Become(p, "other")
    /\ UNCHANGED << file, got, overlapped, blind >>

StopOther(p) ==
    /\ proc[p] = "other"
    /\ Become(p, "free")
    /\ UNCHANGED << file, got, overlapped, blind >>

(* A monitor is killed; nothing is cleaned up. *)
Crash(p) ==
    /\ proc[p] \notin {"free", "other"}
    /\ Become(p, "free")
    /\ got' = [got EXCEPT ![p] = Absent]
    /\ UNCHANGED << file, overlapped, blind >>

-----------------------------------------------------------------------------
(* Acquire *)

ReadFile(p) ==
    /\ proc[p] = "read"
    /\ got' = [got EXCEPT ![p] = file]
    /\ Become(p, "check")
    /\ UNCHANGED << file, overlapped, blind >>

(* The file is there and cannot be read; Acquire goes on as if there were   *)
(* none.                                                                    *)
ReadFails(p) ==
    /\ proc[p] = "read" /\ file # Absent
    /\ Become(p, "truncate")
    /\ blind' = (blind \/ \E q \in Pids \ {p} : IsMonitor(q))
    /\ UNCHANGED << file, got, overlapped >>

(* A live recorded pid ends the start with an error... *)
Refuse(p) ==
    /\ proc[p] = "check"
    /\ got[p] \in Pids /\ pidRunning(got[p])
    /\ Become(p, "refused")
    /\ got' = [got EXCEPT ![p] = Absent]
    /\ UNCHANGED << file, overlapped, blind >>

(* ... anything else (no file, no number, a dead pid) is overwritten. *)
Check(p) ==
    /\ proc[p] = "check"
    /\ ~ (got[p] \in Pids /\ pidRunning(got[p]))
    /\ Become(p, "truncate")
    /\ UNCHANGED << file, got, overlapped, blind >>

(* The recorded process is alive and belongs to another user: Signal fails  *)
(* with EPERM, which pidRunning takes for dead.                             *)
CheckDenied(p) ==
    /\ proc[p] = "check"
    /\ got[p] \in Pids \ {p} /\ proc[got[p]] # "free"
    /\ Become(p, "truncate")
    /\ blind' = (blind \/ IsMonitor(got[p]))
    /\ UNCHANGED << file, got, overlapped >>

(* os.WriteFile opens with O_TRUNC ... *)
Truncate(p) ==
    /\ proc[p] = "truncate"
    /\ file' = Empty
    /\ Become(p, "write")
    /\ UNCHANGED << got, overlapped, blind >>

(* ... and writes at offset 0: over another pid, written since, the result  *)
(* may be a mixture of both.                                                *)
Write(p) ==
    /\ proc[p] = "write"
    /\ file' \in IF file = Empty THEN {p} ELSE {p, Garbled}
    /\ got' = [got EXCEPT ![p] = Absent]
    /\ Become(p, "running")
    /\ UNCHANGED << overlapped, blind >>

(* The file was removed after it was opened: the pid goes into an unlinked  *)
(* file that nobody will read.                                              *)
WriteOrphan(p) ==
    /\ proc[p] = "orphan"
    /\ got' = [got EXCEPT ![p] = Absent]
    /\ Become(p, "running")
    /\ UNCHANGED << file, overlapped, blind >>

(* Opening or writing the file fails; main prints the error and exits. *)
WriteFails(p) ==
    /\ proc[p] \in {"truncate", "write", "orphan"}
    /\ Become(p, "refused")
    /\ got' = [got EXCEPT ![p] = Absent]
    /\ UNCHANGED << file, overlapped, blind >>

(* Release, deferred by main.run: removes the file, whoever wrote it. *)
Release(p) ==
    /\ proc[p] = "running"
    /\ file' = Absent
    /\ proc' = [q \in Pids |-> IF q = p THEN "released"
                              ELSE IF proc[q] = "write" THEN "orphan" ELSE proc[q]]
    /\ UNCHANGED << got, overlapped, blind >>

Exit(p) ==
    /\ proc[p] \in {"released", "refused"}
    /\ Become(p, "free")
    /\ UNCHANGED << file, got, overlapped, blind >>

-----------------------------------------------------------------------------
Next == \E p \in Pids :
    \/ StartMonitor(p) \/ StartOther(p) \/ StopOther(p) \/ Crash(p)
    \/ ReadFile(p) \/ ReadFails(p) \/ Refuse(p) \/ Check(p) \/ CheckDenied(p)
    \/ Truncate(p) \/ Write(p) \/ WriteOrphan(p) \/ WriteFails(p) \/ Release(p) \/ Exit(p)

Spec == Init /\ [][Next]_vars

-----------------------------------------------------------------------------
(* Properties *)

(* The file, the processes and what they read have their types.             *)
TypeOK ==
    /\ file \in Contents
    /\ proc \in [Pids -> Acquiring \cup {"free", "other", "refused", "running", "released"}]
    /\ got \in [Pids -> Contents]
    /\ overlapped \in BOOLEAN /\ blind \in BOOLEAN

(* "Single-instance enforcement" (lock.go:1-4): two monitors never hold the *)
(* lock at the same time, where a start can read the file and signal the    *)
(* process it names.                                                        *)
MutualExclusion ==
    ~ blind => \A p, q \in Pids : proc[p] = "running" /\ proc[q] = "running" => p = q

(* What lock.go does guarantee: as long as no start has begun while another *)
(* was inside Acquire, and none has gone past a holder it could not see, no *)
(* crash, restart, foreign process or reused pid lets two monitors hold the *)
(* lock.                                                                    *)
SerialExclusion == ~ overlapped => MutualExclusion

(* As long as that is so, the file names the monitor that runs, so that the *)
(* next start can find it: nobody else's write, truncation or Release takes *)
(* it away.                                                                 *)
HolderIsNamed ==
    ~ overlapped /\ ~ blind => \A p \in Pids : proc[p] = "running" => file = p

(* Acquire "returns an error if another running process already holds the   *)
(* lock" (lock.go:20-21): a start is refused only while a process other     *)
(* than itself is alive.                                                    *)
RefusedOnlyByAnother ==
    [][\A p \in Pids : Refuse(p) => \E q \in Pids \ {p} : proc[q] # "free"]_vars

(* p holds the lock, the file says so, and no start that saw anything else  *)
(* is under way.                                                            *)
Settled(p) ==
    /\ proc[p] = "running" /\ file = p
    /\ \A q \in Pids \ {p} : proc[q] \notin {"truncate", "write", "orphan", "running"}
    /\ \A q \in Pids : proc[q] = "check" => got[q] = p

(* However many starts overlap later, a holder that has once been alone     *)
(* stays the only one, and stays named, until it stops or is killed: only a *)
(* start that cannot read the file or signal the holder gets past it.       *)
SettledHolderIsSafe ==
    [][\A p \in Pids : Settled(p) /\ proc'[p] = "running"
         => Settled(p)' \/ \E q \in Pids : ReadFails(q) \/ CheckDenied(q)]_vars

(* While starts have neither overlapped nor passed a holder unseen: one     *)
(* process at a time is in Acquire; a holder is named in the file; a        *)
(* starter that has decided to write found nobody running and finds the     *)
(* file as it left it, and one that is about to decide has read the         *)
(* holder's pid if there is a holder.                                       *)
SerialInv ==
    /\ \A p, q \in Pids : proc[p] \in Acquiring /\ proc[q] \in Acquiring => p = q
    /\ \A p \in Pids : proc[p] = "running" => file = p
    /\ \A p \in Pids : proc[p] # "orphan" /\ (proc[p] = "write" => file = Empty)
    /\ \A p \in Pids : proc[p] \in {"truncate", "write"} =>
          \A q \in Pids : proc[q] # "running"
    /\ \A p \in Pids : proc[p] = "check" =>
          \A q \in Pids : proc[q] = "running" => got[p] = q

(* The inductive strengthening of SerialExclusion and HolderIsNamed.        *)
IndInv == TypeOK /\ (~ overlapped /\ ~ blind => SerialInv)
=============================================================================
