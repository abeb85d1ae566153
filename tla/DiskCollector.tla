--------------------------- MODULE DiskCollector ---------------------------
(***************************************************************************)
(* internal/storage/collector.go: Usage with a deadline on top of a statvfs *)
(* that cannot be interrupted.  A call for a path joins the diskUsageCall   *)
(* that is in flight for it, or registers a new one and spawns its worker;  *)
(* the caller waits for the worker or for its own deadline, whichever comes *)
(* first, and an abandoned worker goes on until the kernel answers, however *)
(* long the mount hangs.                                                    *)
(*                                                                         *)
(* A file system's usage is a version number that only grows; a statvfs     *)
(* returns a version the file system had while the call lasted.  Version 0  *)
(* is the zero Usage of a diskUsageCall that nobody has filled in yet.      *)
(***************************************************************************)
EXTENDS Integers

CONSTANTS
    Paths,          \* the mount points
    Callers,        \* the goroutines that call Usage
    Calls,          \* diskUsageCall objects; one more than can be in use is enough
    MaxVersion,     \* bound: the file systems change this often
    None            \* no call

ASSUME DiskAssumption == Paths # {} /\ None \notin Calls /\ MaxVersion \in Nat \ {0}

VARIABLES
    version,        \* version[p]: the current usage of p's file system
    hung,           \* hung[p]: the mount does not answer
    inFlight,       \* inFlight[p]: the map entry of p, or None
    phase,          \* phase[k]: where the worker of call k is; "gone": none
    on,             \* on[k]: the path the worker of k asks about
    base,           \* base[k]: history variable, version when its stat began
    res,            \* res[k]: the usage or error it has stored
    pc,             \* pc[c]: where caller c is
    mine,           \* mine[c]: the call c waits for
    answer,         \* answer[c]: what c's last Usage returned
    newest          \* newest[c][p]: history variable, newest version c was given

kernel == << version, hung >>
workers == << inFlight, phase, on, base, res >>
callers == << pc, mine, answer, newest >>
dvars == << version, hung, inFlight, phase, on, base, res, pc, mine, answer, newest >>

Result(ok, v) == [ok |-> ok, ver |-> v]
Failure == Result(FALSE, 0)
ZeroUsage == Result(TRUE, 0)

(* The phases of a worker: registered, in statvfs, about to close done,     *)
(* about to remove its entry.                                               *)
Live == {"new", "stat", "close", "remove"}

DiskInit ==
    /\ version = [p \in Paths |-> 1]
    /\ hung \in [Paths -> BOOLEAN]
    /\ inFlight = [p \in Paths |-> None]
    /\ phase = [k \in Calls |-> "gone"]
    /\ on = [k \in Calls |-> CHOOSE p \in Paths : TRUE]
    /\ base = [k \in Calls |-> 0]
    /\ res = [k \in Calls |-> ZeroUsage]
    /\ pc = [c \in Callers |-> "idle"]
    /\ mine = [c \in Callers |-> None]
    /\ answer = [c \in Callers |-> Failure]
    /\ newest = [c \in Callers |-> [p \in Paths |-> 1]]

(* A mutant of Closed: done is closed before the result is stored. *)
ClosedEarly(k) == phase[k] \in {"stat", "close", "remove", "gone"}

(* call.done is closed. *)
Closed(k) == phase[k] \in {"remove", "gone"}

(* No goroutine refers to k any more. *)
Free(k) == phase[k] = "gone" /\ \A c \in Callers : mine[c] # k

-----------------------------------------------------------------------------
(* Mutants *)

(* The map is not looked at: every call spawns a worker. *)
CreateAlways(c, p, k) ==
    /\ pc[c] = "idle" /\ Free(k)
    /\ inFlight' = [inFlight EXCEPT ![p] = k]
    /\ phase' = [phase EXCEPT ![k] = "new"]
    /\ on' = [on EXCEPT ![k] = p]
    /\ base' = [base EXCEPT ![k] = 0]
    /\ res' = [res EXCEPT ![k] = ZeroUsage]
    /\ mine' = [mine EXCEPT ![c] = k]
    /\ pc' = [pc EXCEPT ![c] = "spawn"]
    /\ UNCHANGED << kernel, answer, newest >>

(* The worker leaves its entry behind. *)
RemoveForgotten(k) ==
    /\ phase[k] = "remove"
    /\ phase' = [phase EXCEPT ![k] = "gone"]
    /\ UNCHANGED << kernel, inFlight, on, base, res, callers >>

(* The caller waits for the worker only. *)
TimeoutIgnored(c) ==
    /\ pc[c] = "wait" /\ Closed(mine[c])
    /\ answer' = [answer EXCEPT ![c] = Failure]
    /\ pc' = [pc EXCEPT ![c] = "idle"]
    /\ mine' = [mine EXCEPT ![c] = None]
    /\ UNCHANGED << kernel, workers, newest >>

-----------------------------------------------------------------------------
(* The kernel: file systems change, mounts hang and come back. *)

Change(p) ==
    /\ version[p] < MaxVersion
    /\ version' = [version EXCEPT ![p] = @ + 1]
    /\ UNCHANGED << hung, workers, callers >>

Hang(p) ==
    /\ ~ hung[p]
    /\ hung' = [hung EXCEPT ![p] = TRUE]
    /\ UNCHANGED << version, workers, callers >>

ComeBack(p) ==
    /\ hung[p]
    /\ hung' = [hung EXCEPT ![p] = FALSE]
    /\ UNCHANGED << version, workers, callers >>

-----------------------------------------------------------------------------
(* Usage and callFor; callFor's critical section is one step. *)

Join(c, p) ==
    /\ pc[c] = "idle" /\ inFlight[p] # None
    /\ mine' = [mine EXCEPT ![c] = inFlight[p]]
    /\ pc' = [pc EXCEPT ![c] = "wait"]
    /\ UNCHANGED << kernel, workers, answer, newest >>

Create(c, p, k) ==
    /\ pc[c] = "idle" /\ inFlight[p] = None /\ Free(k)
    /\ inFlight' = [inFlight EXCEPT ![p] = k]
    /\ phase' = [phase EXCEPT ![k] = "new"]
    /\ on' = [on EXCEPT ![k] = p]
    /\ base' = [base EXCEPT ![k] = 0]
    /\ res' = [res EXCEPT ![k] = ZeroUsage]
    /\ mine' = [mine EXCEPT ![c] = k]
    /\ pc' = [pc EXCEPT ![c] = "spawn"]
    /\ UNCHANGED << kernel, answer, newest >>

(* The go statement, outside the critical section. *)
Spawn(c) ==
    /\ pc[c] = "spawn"
    /\ phase' = [phase EXCEPT ![mine[c]] = "stat"]
    /\ base' = [base EXCEPT ![mine[c]] = version[on[mine[c]]]]
    /\ pc' = [pc EXCEPT ![c] = "wait"]
    /\ UNCHANGED << kernel, inFlight, on, res, mine, answer, newest >>

Return(c) ==
    /\ pc' = [pc EXCEPT ![c] = "idle"]
    /\ mine' = [mine EXCEPT ![c] = None]
    /\ UNCHANGED << kernel, workers >>

(* case <-call.done *)
Deliver(c) ==
    /\ pc[c] = "wait" /\ Closed(mine[c])
    /\ answer' = [answer EXCEPT ![c] = res[mine[c]]]
    /\ newest' = IF res[mine[c]].ok /\ res[mine[c]].ver > newest[c][on[mine[c]]]
                   THEN [newest EXCEPT ![c][on[mine[c]]] = res[mine[c]].ver]
                   ELSE newest
    /\ Return(c)

(* case <-ctx.Done(): the deadline may pass at any moment, also when the    *)
(* call is done, and select takes either ready case.                        *)
Timeout(c) ==
    /\ pc[c] = "wait"
    /\ answer' = [answer EXCEPT ![c] = Failure]
    /\ UNCHANGED newest
    /\ Return(c)

-----------------------------------------------------------------------------
(* The worker *)

(* statvfs returns, with an error or with a usage of the time it took. *)
StatReturns(k) ==
    /\ phase[k] = "stat" /\ ~ hung[on[k]]
    /\ \E r \in {Failure} \cup {Result(TRUE, v) : v \in base[k] .. version[on[k]]} :
          res' = [res EXCEPT ![k] = r]
    /\ phase' = [phase EXCEPT ![k] = "close"]
    /\ UNCHANGED << kernel, inFlight, on, base, callers >>

Close(k) ==
    /\ phase[k] = "close"
    /\ phase' = [phase EXCEPT ![k] = "remove"]
    /\ UNCHANGED << kernel, inFlight, on, base, res, callers >>

(* The entry is removed if it is still this call's. *)
Remove(k) ==
    /\ phase[k] = "remove"
    /\ inFlight' = IF inFlight[on[k]] = k THEN [inFlight EXCEPT ![on[k]] = None] ELSE inFlight
    /\ phase' = [phase EXCEPT ![k] = "gone"]
    /\ UNCHANGED << kernel, on, base, res, callers >>

-----------------------------------------------------------------------------
KernelNext == \E p \in Paths : Change(p) \/ Hang(p) \/ ComeBack(p)
Worker(k) == StatReturns(k) \/ Close(k) \/ Remove(k)
Wait(c) == Deliver(c) \/ Timeout(c)

DiskNext ==
    \/ KernelNext
    \/ \E c \in Callers : \/ \E p \in Paths : Join(c, p) \/ \E k \in Calls : Create(c, p, k)
                          \/ Spawn(c)
                          \/ Wait(c)
    \/ \E k \in Calls : Worker(k)

DiskSpec == DiskInit /\ [][DiskNext]_dvars

-----------------------------------------------------------------------------
(* Properties *)

Results == [ok : BOOLEAN, ver : 0 .. MaxVersion]

(* The map, the calls and the callers have their types.                     *)
DiskTypeOK ==
    /\ version \in [Paths -> 0 .. MaxVersion]
    /\ hung \in [Paths -> BOOLEAN]
    /\ inFlight \in [Paths -> Calls \cup {None}]
    /\ phase \in [Calls -> Live \cup {"gone"}]
    /\ on \in [Calls -> Paths]
    /\ base \in [Calls -> 0 .. MaxVersion]
    /\ res \in [Calls -> Results]
    /\ pc \in [Callers -> {"idle", "spawn", "wait"}]
    /\ mine \in [Callers -> Calls \cup {None}]
    /\ answer \in [Callers -> Results]
    /\ newest \in [Callers -> [Paths -> 0 .. MaxVersion]]

(* "at most one in-flight worker per path" (collector.go:50-53), however    *)
(* many callers come and give up while the mount hangs.                     *)
OneWorkerPerPath ==
    \A j, k \in Calls : (phase[j] \in Live /\ phase[k] \in Live /\ on[j] = on[k]) => j = k

(* An entry is in the map exactly as long as its worker exists: a path is   *)
(* never left with a finished call, which would be its answer for ever.     *)
EntryHasWorker ==
    /\ \A p \in Paths : inFlight[p] # None =>
          phase[inFlight[p]] \in Live /\ on[inFlight[p]] = p
    /\ \A k \in Calls : phase[k] \in Live => inFlight[on[k]] = k

(* The inductive strengthening: the callers that have registered a call and *)
(* not yet started its worker are its creators, one each.                   *)
DiskInv ==
    /\ DiskTypeOK
    /\ EntryHasWorker
    /\ \A c \in Callers : pc[c] # "idle" => mine[c] \in Calls
    /\ \A c \in Callers : pc[c] = "spawn" => phase[mine[c]] = "new"
    /\ \A c, d \in Callers : (pc[c] = "spawn" /\ pc[d] = "spawn" /\ mine[c] = mine[d]) => c = d

(* The usages one caller is given for a path never go back in time, though  *)
(* answers come from workers started by other callers, long ago, or after   *)
(* this caller had given up on them; nor is the zero Usage ever returned    *)
(* for a real one.                                                          *)
AnswersNeverGoBack ==
    [][\A c \in Callers :
         (pc[c] = "wait" /\ pc'[c] = "idle" /\ answer'[c].ok)
            => answer'[c].ver >= newest[c][on[mine[c]]]]_dvars

(* A mount that comes back for good is asked afresh, again and again: the   *)
(* call that was stuck in it is always removed in the end.                  *)
HungMountRecovers ==
    \A p \in Paths : <>[](~ hung[p]) => []<>(inFlight[p] = None)
=============================================================================
