--------------------------- MODULE StorageProofs ---------------------------
(***************************************************************************)
(* Proofs about DiskCollector and StorageSampler.  For any paths, callers   *)
(* and calls a path never has two workers and its answers never go back;    *)
(* for any mount points the sampling goroutine uses the collector as        *)
(* DiskCollector describes it, and its samples are complete.                *)
(***************************************************************************)
EXTENDS StorageSampler, FiniteSetTheorems, TLAPS

-----------------------------------------------------------------------------
(* The collector *)

(* DiskInv holds of a collector nobody has called. *)
LEMMA DiskInvInit == DiskInit => DiskInv
<1>. SUFFICES ASSUME DiskInit PROVE DiskInv
  OBVIOUS
<1>. USE DiskAssumption DEF DiskInit, Result, Failure, ZeroUsage
<1>1. (CHOOSE p \in Paths : TRUE) \in Paths
  OBVIOUS
<1>2. DiskTypeOK
  <2>1. on \in [Calls -> Paths]
    BY <1>1
  <2>2. hung \in [Paths -> BOOLEAN]
    BY Zenon
  <2>3. res \in [Calls -> Results] /\ answer \in [Callers -> Results]
    BY DEF Results
  <2>4. newest \in [Callers -> [Paths -> 0 .. MaxVersion]]
    OBVIOUS
  <2>5. phase \in [Calls -> Live \cup {"gone"}] /\ pc \in [Callers -> {"idle", "spawn", "wait"}]
    OBVIOUS
  <2>6. /\ version \in [Paths -> 0 .. MaxVersion] /\ base \in [Calls -> 0 .. MaxVersion]
        /\ inFlight \in [Paths -> Calls \cup {None}] /\ mine \in [Callers -> Calls \cup {None}]
    OBVIOUS
  <2>. QED
    BY ONLY <2>1, <2>2, <2>3, <2>4, <2>5, <2>6 DEF DiskTypeOK
<1>3. EntryHasWorker
  BY DEF EntryHasWorker, Live
<1>. QED
  BY <1>2, <1>3 DEF DiskInv

(* Every step of a caller, of a worker or of the kernel keeps DiskInv. *)
LEMMA DiskInvStep == DiskInv /\ [DiskNext]_dvars => DiskInv'
<1>. SUFFICES ASSUME DiskInv, [DiskNext]_dvars PROVE DiskInv'
  OBVIOUS
<1>. USE DiskAssumption
<1>1. ASSUME NEW p \in Paths, Change(p) PROVE DiskInv'
  <2>1. DiskTypeOK'
    BY <1>1 DEF DiskInv, DiskTypeOK, Change, workers, callers
  <2>. QED
    BY <1>1, <2>1 DEF DiskInv, EntryHasWorker, Change, workers, callers
<1>2. ASSUME NEW p \in Paths, Hang(p) \/ ComeBack(p) PROVE DiskInv'
  <2>1. DiskTypeOK'
    BY <1>2 DEF DiskInv, DiskTypeOK, Hang, ComeBack, workers, callers
  <2>. QED
    BY <1>2, <2>1 DEF DiskInv, EntryHasWorker, Hang, ComeBack, workers, callers
<1>3. ASSUME NEW c \in Callers, NEW p \in Paths, Join(c, p) PROVE DiskInv'
  <2>1. DiskTypeOK'
    BY <1>3 DEF DiskInv, DiskTypeOK, Join, kernel, workers
  <2>. QED
    BY <1>3, <2>1 DEF DiskInv, DiskTypeOK, EntryHasWorker, Join, kernel, workers
<1>4. ASSUME NEW c \in Callers, NEW p \in Paths, NEW k \in Calls, Create(c, p, k)
      PROVE  DiskInv'
  <2>1. DiskTypeOK'
    BY <1>4 DEF DiskInv, DiskTypeOK, Create, kernel, Live, Results, ZeroUsage, Result
  <2>2. EntryHasWorker'
    BY <1>4 DEF DiskInv, DiskTypeOK, EntryHasWorker, Create, Free, Live
  <2>3. \A d \in Callers : mine[d] # k
    BY <1>4 DEF Create, Free
  <2>. QED
    BY <1>4, <2>1, <2>2, <2>3 DEF DiskInv, DiskTypeOK, Create
<1>5. ASSUME NEW c \in Callers, Spawn(c) PROVE DiskInv'
  <2>1. mine[c] \in Calls /\ phase[mine[c]] = "new"
    BY <1>5 DEF DiskInv, Spawn
  <2>2. DiskTypeOK'
    BY <1>5, <2>1 DEF DiskInv, DiskTypeOK, Spawn, kernel, Live
  <2>3. EntryHasWorker'
    BY <1>5, <2>1 DEF DiskInv, DiskTypeOK, EntryHasWorker, Spawn, Live
  <2>. QED
    BY <1>5, <2>1, <2>2, <2>3 DEF DiskInv, DiskTypeOK, Spawn
<1>6. ASSUME NEW c \in Callers, Wait(c) PROVE DiskInv'
  <2>1. mine[c] \in Calls
    BY <1>6 DEF DiskInv, Wait, Deliver, Timeout
  <2>2. DiskTypeOK'
    <3>1. CASE Deliver(c)
      <4>. DEFINE k == mine[c]
      <4>1. k \in Calls /\ on[k] \in Paths /\ res[k] \in Results /\ res[k].ver \in 0 .. MaxVersion
        BY <2>1 DEF DiskInv, DiskTypeOK, Results
      <4>2. newest' \in [Callers -> [Paths -> 0 .. MaxVersion]]
        BY <3>1, <4>1 DEF DiskInv, DiskTypeOK, Deliver
      <4>3. answer' \in [Callers -> Results]
        BY <3>1, <4>1 DEF DiskInv, DiskTypeOK, Deliver
      <4>. QED
        BY <3>1, <4>2, <4>3 DEF DiskInv, DiskTypeOK, Deliver, Return, kernel, workers
    <3>2. CASE Timeout(c)
      BY <3>2 DEF DiskInv, DiskTypeOK, Results, Timeout, Return, Failure, Result, kernel, workers
    <3>. QED
      BY <1>6, <3>1, <3>2 DEF Wait
  <2>3. /\ pc' = [pc EXCEPT ![c] = "idle"] /\ mine' = [mine EXCEPT ![c] = None]
        /\ UNCHANGED << inFlight, phase, on >>
    BY <1>6 DEF Wait, Deliver, Timeout, Return, kernel, workers
  <2>4. EntryHasWorker'
    BY <2>3 DEF DiskInv, EntryHasWorker
  <2>. QED
    BY <2>2, <2>3, <2>4 DEF DiskInv, DiskTypeOK
<1>7. ASSUME NEW k \in Calls, StatReturns(k) PROVE DiskInv'
  <2>1. DiskTypeOK'
    <3>1. PICK r \in {Failure} \cup {Result(TRUE, v) : v \in base[k] .. version[on[k]]} :
              res' = [res EXCEPT ![k] = r]
      BY <1>7 DEF StatReturns
    <3>2. base[k] \in 0 .. MaxVersion /\ version[on[k]] \in 0 .. MaxVersion
      BY DEF DiskInv, DiskTypeOK
    <3>3. r \in Results
      <4>1. CASE r = Failure
        BY <4>1 DEF Results, Failure, Result
      <4>2. ASSUME NEW v \in base[k] .. version[on[k]], r = Result(TRUE, v) PROVE r \in Results
        <5>1. v \in 0 .. MaxVersion
          BY <3>2
        <5>. QED
          BY <4>2, <5>1 DEF Results, Result
      <4>. QED
        BY <4>1, <4>2
    <3>4. res' \in [Calls -> Results]
      BY <3>1, <3>3 DEF DiskInv, DiskTypeOK
    <3>. QED
      BY <1>7, <3>4 DEF DiskInv, DiskTypeOK, StatReturns, Live, kernel, callers
  <2>. QED
    BY <1>7, <2>1 DEF DiskInv, DiskTypeOK, EntryHasWorker, StatReturns, Live, kernel, callers
<1>8. ASSUME NEW k \in Calls, Close(k) PROVE DiskInv'
  <2>1. DiskTypeOK'
    BY <1>8 DEF DiskInv, DiskTypeOK, Close, Live, kernel, callers
  <2>. QED
    BY <1>8, <2>1 DEF DiskInv, DiskTypeOK, EntryHasWorker, Close, Live, kernel, callers
<1>9. ASSUME NEW k \in Calls, Remove(k) PROVE DiskInv'
  <2>1. DiskTypeOK'
    BY <1>9 DEF DiskInv, DiskTypeOK, Remove, Live, kernel, callers
  <2>. QED
    BY <1>9, <2>1 DEF DiskInv, DiskTypeOK, EntryHasWorker, Remove, Live, kernel, callers
<1>10. CASE UNCHANGED dvars
  BY <1>10 DEF DiskInv, DiskTypeOK, EntryHasWorker, dvars
<1>. QED
  BY <1>1, <1>2, <1>3, <1>4, <1>5, <1>6, <1>7, <1>8, <1>9, <1>10
     DEF DiskNext, KernelNext, Worker

(* The entries of the in-flight map and the workers that exist correspond,  *)
(* one to one: no path is left with a call that has ended.                  *)
THEOREM EntriesHaveWorkers == DiskSpec => []DiskInv
  BY DiskInvInit, DiskInvStep, PTL DEF DiskSpec

(* "at most one in-flight worker per path" (collector.go:50-53): however    *)
(* many goroutines call Usage, give up and call again while mounts hang and *)
(* come back.                                                               *)
THEOREM AtMostOneWorker == DiskSpec => []OneWorkerPerPath
<1>1. DiskInv => OneWorkerPerPath
  BY DEF DiskInv, EntryHasWorker, OneWorkerPerPath
<1>. QED
  BY <1>1, EntriesHaveWorkers, PTL

-----------------------------------------------------------------------------
(* What a caller knows of a path, and what a call has stored, is no newer   *)
(* than the file system; ...                                                *)
KnownInv ==
    /\ \A c \in Callers, p \in Paths : newest[c][p] <= version[p]
    /\ \A k \in Calls : phase[k] # "new" => base[k] <= version[on[k]]
    /\ \A k \in Calls : (phase[k] \in {"close", "remove", "gone"} /\ res[k].ok)
          => base[k] <= res[k].ver /\ res[k].ver <= version[on[k]]

(* ... a call that can answer c, now or later, answers with nothing older   *)
(* than what c has; ...                                                     *)
CanAnswer(k, c) == phase[k] \in {"stat", "close", "remove"}
                   \/ (phase[k] = "gone" /\ pc[c] = "wait" /\ mine[c] = k)
OrderInv ==
    \A k \in Calls, c \in Callers : CanAnswer(k, c) =>
        \/ newest[c][on[k]] <= base[k]
        \/ phase[k] \in {"remove", "gone"} /\ res[k].ok /\ newest[c][on[k]] <= res[k].ver

(* ... and a call that somebody still waits for after its worker has gone   *)
(* has nothing newer than the version at which a later call for the path    *)
(* began.                                                                   *)
LateInv ==
    \A c \in Callers, j, k \in Calls :
        (/\ pc[c] = "wait" /\ mine[c] = k /\ phase[k] = "gone" /\ res[k].ok
         /\ phase[j] \in {"stat", "close", "remove"} /\ on[j] = on[k])
            => res[k].ver <= base[j]

FreshInv == DiskInv /\ KnownInv /\ OrderInv /\ LateInv

(* A worker asks for the path of its call, and is the only one to.          *)
LEMMA Alone ==
    ASSUME DiskInv, NEW j \in Calls, NEW k \in Calls,
           phase[j] \in Live, phase[k] \in Live, on[j] = on[k]
    PROVE  j = k
BY DEF DiskInv, EntryHasWorker

(* At first nobody waits and every call has gone.                           *)
LEMMA FreshInvInit == DiskInit => FreshInv
<1>. SUFFICES ASSUME DiskInit PROVE FreshInv
  OBVIOUS
<1>1. DiskInv
  BY DiskInvInit
<1>2. \A k \in Calls : on[k] \in Paths /\ base[k] = 0 /\ phase[k] = "gone" /\ res[k].ver = 0
  BY <1>1 DEF DiskInit, DiskInv, DiskTypeOK, ZeroUsage, Result
<1>3. \A p \in Paths : version[p] = 1 /\ \A c \in Callers : newest[c][p] = 1
  BY DEF DiskInit
<1>4. KnownInv
  BY <1>2, <1>3 DEF KnownInv
<1>5. \A c \in Callers : pc[c] = "idle"
  BY DEF DiskInit
<1>6. OrderInv /\ LateInv
  BY <1>2, <1>5 DEF OrderInv, CanAnswer, LateInv
<1>. QED
  BY <1>1, <1>4, <1>6 DEF FreshInv

(* Numbers for the arithmetic of the steps.                                 *)
LEMMA Numbers ==
    ASSUME DiskInv
    PROVE  /\ \A p \in Paths : version[p] \in Nat
           /\ \A k \in Calls : base[k] \in Nat /\ on[k] \in Paths /\ res[k].ver \in Nat /\ res[k].ok \in BOOLEAN
           /\ \A c \in Callers, p \in Paths : newest[c][p] \in Nat
<1>1. MaxVersion \in Nat /\ \A n \in 0 .. MaxVersion : n \in Nat
  BY DiskAssumption
<1>2. \A p \in Paths : version[p] \in 0 .. MaxVersion
  BY DEF DiskInv, DiskTypeOK
<1>3. \A k \in Calls : base[k] \in 0 .. MaxVersion /\ on[k] \in Paths /\ res[k] \in Results
  BY DEF DiskInv, DiskTypeOK
<1>4. \A r \in Results : r.ver \in 0 .. MaxVersion /\ r.ok \in BOOLEAN
  BY DEF Results
<1>5. \A c \in Callers, p \in Paths : newest[c][p] \in 0 .. MaxVersion
  BY DEF DiskInv, DiskTypeOK
<1>. QED
  BY <1>1, <1>2, <1>3, <1>4, <1>5

(* Every step keeps it: a call begins at the newest version there is, and   *)
(* ends before the next one for its path begins.                            *)
LEMMA FreshInvStep == FreshInv /\ [DiskNext]_dvars => FreshInv'
<1>. SUFFICES ASSUME FreshInv, [DiskNext]_dvars PROVE FreshInv'
  OBVIOUS
<1>0. DiskInv /\ KnownInv /\ OrderInv /\ LateInv /\ DiskInv'
  BY DiskInvStep DEF FreshInv
<1>n. /\ \A p \in Paths : version[p] \in Nat
      /\ \A k \in Calls : base[k] \in Nat /\ on[k] \in Paths /\ res[k].ver \in Nat /\ res[k].ok \in BOOLEAN
      /\ \A c \in Callers, p \in Paths : newest[c][p] \in Nat
  BY <1>0, Numbers
<1>. SUFFICES KnownInv' /\ OrderInv' /\ LateInv'
  BY <1>0 DEF FreshInv
<1>t. /\ pc \in [Callers -> {"idle", "spawn", "wait"}] /\ mine \in [Callers -> Calls \cup {None}]
      /\ phase \in [Calls -> Live \cup {"gone"}] /\ base \in [Calls -> 0 .. MaxVersion]
      /\ res \in [Calls -> Results] /\ on \in [Calls -> Paths]
      /\ newest \in [Callers -> [Paths -> 0 .. MaxVersion]]
      /\ \A c \in Callers : pc[c] # "idle" => mine[c] \in Calls
  BY <1>0 DEF DiskInv, DiskTypeOK
<1>1. ASSUME NEW p \in Paths, Change(p) \/ Hang(p) \/ ComeBack(p) PROVE KnownInv' /\ OrderInv' /\ LateInv'
  <2>1. UNCHANGED << inFlight, phase, on, base, res, pc, mine, newest >>
    BY <1>1 DEF Change, Hang, ComeBack, workers, callers
  <2>2. \A q \in Paths : version[q] <= version'[q] /\ version'[q] \in Nat
    <3>1. version \in [Paths -> 0 .. MaxVersion]
      BY <1>0 DEF DiskInv, DiskTypeOK
    <3>2. version' = version \/ version' = [version EXCEPT ![p] = @ + 1]
      BY <1>1 DEF Change, Hang, ComeBack
    <3>. QED
      BY <1>n, <3>1, <3>2
  <2>3. KnownInv'
    BY <1>0, <1>n, <2>1, <2>2 DEF KnownInv
  <2>. QED
    BY <1>0, <2>1, <2>3 DEF OrderInv, LateInv, CanAnswer
<1>2. ASSUME NEW c \in Callers, NEW p \in Paths, Join(c, p) PROVE KnownInv' /\ OrderInv' /\ LateInv'
  <2>1. UNCHANGED << version, phase, on, base, res, newest >>
    BY <1>2 DEF Join, kernel, workers
  <2>2. mine' = [mine EXCEPT ![c] = inFlight[p]] /\ pc' = [pc EXCEPT ![c] = "wait"] /\ inFlight[p] # None
    BY <1>2 DEF Join
  <2>3. phase[inFlight[p]] # "gone"
    BY <1>0, <2>2 DEF DiskInv, EntryHasWorker, Live
  <2>4. \A d \in Callers, k \in Calls :
           (pc'[d] = "wait" /\ mine'[d] = k /\ phase[k] = "gone") => pc[d] = "wait" /\ mine[d] = k
    BY <1>t, <2>2, <2>3
  <2>5. KnownInv'
    BY <1>0, <2>1 DEF KnownInv
  <2>6. OrderInv'
    BY <1>0, <2>1, <2>4 DEF OrderInv, CanAnswer
  <2>7. LateInv'
    BY <1>0, <2>1, <2>4 DEF LateInv
  <2>. QED
    BY <2>5, <2>6, <2>7
<1>3. ASSUME NEW c \in Callers, NEW p \in Paths, NEW k \in Calls, Create(c, p, k)
      PROVE  KnownInv' /\ OrderInv' /\ LateInv'
  <2>1. /\ UNCHANGED << version, newest >> /\ phase'[k] = "new"
        /\ \A j \in Calls \ {k} : phase'[j] = phase[j] /\ on'[j] = on[j] /\ base'[j] = base[j] /\ res'[j] = res[j]
    BY <1>3, <1>t DEF Create, kernel
  <2>2. \A d \in Callers : pc'[d] = "wait" => pc[d] = "wait" /\ mine'[d] = mine[d]
    BY <1>3, <1>t DEF Create
  <2>3. KnownInv'
    BY <1>0, <2>1 DEF KnownInv
  <2>4. OrderInv'
    BY <1>0, <2>1, <2>2 DEF OrderInv, CanAnswer
  <2>5. LateInv'
    BY <1>0, <2>1, <2>2 DEF LateInv
  <2>. QED
    BY <2>3, <2>4, <2>5
<1>4. ASSUME NEW c \in Callers, Spawn(c) PROVE KnownInv' /\ OrderInv' /\ LateInv'
  <2>. DEFINE k == mine[c]
  <2>1. k \in Calls /\ phase[k] = "new"
    BY <1>0, <1>4 DEF Spawn, DiskInv
  <2>2. /\ UNCHANGED << version, on, res, mine, newest >>
        /\ phase'[k] = "stat" /\ base'[k] = version[on[k]]
        /\ \A j \in Calls \ {k} : phase'[j] = phase[j] /\ base'[j] = base[j]
        /\ \A d \in Callers \ {c} : pc'[d] = pc[d]
    BY <1>4, <1>t, <2>1 DEF Spawn, kernel
  <2>3. \A d \in Callers, j \in Calls : (pc'[d] = "wait" /\ mine[d] = j /\ phase[j] = "gone") => pc[d] = "wait"
    BY <2>1, <2>2
  <2>. HIDE DEF k
  <2>4. KnownInv'
    BY <1>0, <1>n, <2>1, <2>2 DEF KnownInv
  <2>5. OrderInv'
    BY <1>0, <1>n, <2>1, <2>2, <2>3 DEF OrderInv, CanAnswer, KnownInv
  <2>6. LateInv'
    <3>. SUFFICES ASSUME NEW d \in Callers, NEW i \in Calls, NEW j \in Calls,
                         pc'[d] = "wait", mine[d] = j, phase'[j] = "gone", res[j].ok,
                         phase'[i] \in {"stat", "close", "remove"}, on[i] = on[j]
                  PROVE  res[j].ver <= base'[i]
      BY <2>2 DEF LateInv
    <3>1. j # k /\ phase[j] = "gone" /\ pc[d] = "wait"
      BY <2>1, <2>2, <2>3
    <3>2. CASE i = k
      BY <1>0, <2>2, <3>1, <3>2 DEF KnownInv
    <3>3. CASE i # k
      BY <1>0, <2>2, <3>1, <3>3 DEF LateInv
    <3>. QED
      BY <3>2, <3>3
  <2>. QED
    BY <2>4, <2>5, <2>6
<1>5. ASSUME NEW c \in Callers, Deliver(c) PROVE KnownInv' /\ OrderInv' /\ LateInv'
  <2>. DEFINE k == mine[c]
  <2>. DEFINE q == on[k]
  <2>1. /\ k \in Calls /\ q \in Paths /\ phase[k] \in {"remove", "gone"} /\ pc[c] = "wait" /\ mine[c] = k
        /\ UNCHANGED << version, phase, on, base, res >>
    BY <1>5, <1>t DEF Deliver, Return, Closed, kernel, workers
  <2>2. /\ pc'[c] = "idle"
        /\ \A d \in Callers \ {c} : pc'[d] = pc[d] /\ mine'[d] = mine[d]
    BY <1>5, <1>t DEF Deliver, Return
  <2>3. newest' = IF res[k].ok /\ res[k].ver > newest[c][q]
                    THEN [newest EXCEPT ![c][q] = res[k].ver] ELSE newest
    BY <1>5 DEF Deliver
  <2>4. on[k] = q
    OBVIOUS
  <2>. HIDE DEF k, q
  <2>5. /\ \A d \in Callers \ {c} : newest'[d] = newest[d]
        /\ \A p \in Paths \ {q} : newest'[c][p] = newest[c][p]
    BY <1>t, <2>1, <2>3
  <2>6. newest'[c][q] = newest[c][q] \/ (res[k].ok /\ newest'[c][q] = res[k].ver)
    BY <1>t, <2>1, <2>3
  <2>7. KnownInv'
    <3>1. \A d \in Callers, p \in Paths : newest'[d][p] <= version[p]
      BY <1>0, <2>1, <2>4, <2>5, <2>6 DEF KnownInv
    <3>. QED
      BY <1>0, <2>1, <3>1 DEF KnownInv
  <2>8. OrderInv'
    <3>. SUFFICES ASSUME NEW j \in Calls, NEW d \in Callers, CanAnswer(j, d)'
                  PROVE  \/ newest'[d][on[j]] <= base[j]
                         \/ phase[j] \in {"remove", "gone"} /\ res[j].ok /\ newest'[d][on[j]] <= res[j].ver
      BY <2>1 DEF OrderInv
    <3>1. CASE d # c
      <4>1. CanAnswer(j, d)
        BY <2>1, <2>2, <3>1 DEF CanAnswer
      <4>. QED
        BY <1>0, <2>5, <3>1, <4>1 DEF OrderInv
    <3>2. CASE d = c
      <4>1. phase[j] \in {"stat", "close", "remove"} /\ CanAnswer(j, c)
        BY <2>1, <2>2, <3>2 DEF CanAnswer
      <4>2. CASE newest'[c][on[j]] = newest[c][on[j]]
        BY <1>0, <3>2, <4>1, <4>2 DEF OrderInv
      <4>3. CASE newest'[c][on[j]] # newest[c][on[j]]
        <5>1. on[j] = q /\ res[k].ok /\ newest'[c][q] = res[k].ver
          BY <1>n, <2>5, <2>6, <4>3
        <5>2. CASE phase[k] = "remove"
          <6>1. j = k
            BY <1>0, Alone, <2>1, <2>4, <4>1, <5>1, <5>2 DEF Live
          <6>. QED
            BY <1>n, <2>1, <2>4, <3>2, <5>1, <5>2, <6>1
        <5>3. CASE phase[k] = "gone"
          <6>1. res[k].ver <= base[j]
            BY <1>0, <2>1, <2>4, <4>1, <5>1, <5>3 DEF LateInv
          <6>. QED
            BY <3>2, <5>1, <6>1
        <5>. QED
          BY <2>1, <5>2, <5>3
      <4>. QED
        BY <4>2, <4>3
    <3>. QED
      BY <3>1, <3>2
  <2>9. LateInv'
    <3>1. \A d \in Callers : pc'[d] = "wait" => pc[d] = "wait" /\ mine'[d] = mine[d]
      BY <2>2
    <3>. QED
      BY <1>0, <2>1, <3>1 DEF LateInv
  <2>. QED
    BY <2>7, <2>8, <2>9
<1>6. ASSUME NEW c \in Callers, Timeout(c) PROVE KnownInv' /\ OrderInv' /\ LateInv'
  <2>1. UNCHANGED << version, phase, on, base, res, newest >>
    BY <1>6 DEF Timeout, Return, kernel, workers
  <2>2. \A d \in Callers : pc'[d] = "wait" => pc[d] = "wait" /\ mine'[d] = mine[d]
    BY <1>6, <1>t DEF Timeout, Return
  <2>3. KnownInv'
    BY <1>0, <2>1 DEF KnownInv
  <2>4. OrderInv'
    BY <1>0, <2>1, <2>2 DEF OrderInv, CanAnswer
  <2>5. LateInv'
    BY <1>0, <2>1, <2>2 DEF LateInv
  <2>. QED
    BY <2>3, <2>4, <2>5
<1>7. ASSUME NEW k \in Calls, StatReturns(k) PROVE KnownInv' /\ OrderInv' /\ LateInv'
  <2>1. /\ UNCHANGED << version, on, base, pc, mine, newest >>
        /\ phase[k] = "stat" /\ phase'[k] = "close"
        /\ \A j \in Calls \ {k} : phase'[j] = phase[j] /\ res'[j] = res[j]
    BY <1>7, <1>t DEF StatReturns, kernel, callers
  <2>2. PICK r \in {Failure} \cup {Result(TRUE, v) : v \in base[k] .. version[on[k]]} :
           res' = [res EXCEPT ![k] = r]
    BY <1>7 DEF StatReturns
  <2>3. r.ok => base[k] <= r.ver /\ r.ver <= version[on[k]]
    BY <1>n, <2>2 DEF Failure, Result
  <2>4. res'[k] = r
    BY <1>t, <2>2
  <2>5. KnownInv'
    BY <1>0, <2>1, <2>3, <2>4 DEF KnownInv
  <2>6. OrderInv'
    BY <1>0, <2>1 DEF OrderInv, CanAnswer
  <2>7. LateInv'
    BY <1>0, <2>1 DEF LateInv
  <2>. QED
    BY <2>5, <2>6, <2>7
<1>8. ASSUME NEW k \in Calls, Close(k) PROVE KnownInv' /\ OrderInv' /\ LateInv'
  <2>1. /\ UNCHANGED << version, on, base, res, pc, mine, newest >>
        /\ phase[k] = "close" /\ phase'[k] = "remove"
        /\ \A j \in Calls \ {k} : phase'[j] = phase[j]
    BY <1>8, <1>t DEF Close, kernel, callers
  <2>2. KnownInv'
    BY <1>0, <2>1 DEF KnownInv
  <2>3. OrderInv'
    BY <1>0, <2>1 DEF OrderInv, CanAnswer
  <2>4. LateInv'
    BY <1>0, <2>1 DEF LateInv
  <2>. QED
    BY <2>2, <2>3, <2>4
<1>9. ASSUME NEW k \in Calls, Remove(k) PROVE KnownInv' /\ OrderInv' /\ LateInv'
  <2>1. /\ UNCHANGED << version, on, base, res, pc, mine, newest >>
        /\ phase[k] = "remove" /\ phase'[k] = "gone"
        /\ \A j \in Calls \ {k} : phase'[j] = phase[j]
    BY <1>9, <1>t DEF Remove, kernel, callers
  <2>2. KnownInv'
    BY <1>0, <2>1 DEF KnownInv
  <2>3. OrderInv'
    BY <1>0, <2>1 DEF OrderInv, CanAnswer
  <2>4. \A j \in Calls : (phase[j] \in {"stat", "close", "remove"} /\ on[j] = on[k]) => j = k
    BY <1>0, <2>1, Alone DEF Live
  <2>5. LateInv'
    BY <1>0, <2>1, <2>4 DEF LateInv
  <2>. QED
    BY <2>2, <2>3, <2>5
<1>10. CASE UNCHANGED dvars
  BY <1>0, <1>10 DEF dvars, KnownInv, OrderInv, LateInv, CanAnswer
<1>. QED
  BY <1>1, <1>2, <1>3, <1>4, <1>5, <1>6, <1>7, <1>8, <1>9, <1>10
     DEF DiskNext, KernelNext, Worker, Wait

(* One caller's usages of a path never go back in time, for any mounts,     *)
(* callers and calls (collector.go:50-95).                                  *)
THEOREM AnswersMonotone == DiskSpec => AnswersNeverGoBack
<1>1. FreshInv /\ [DiskNext]_dvars =>
        [\A c \in Callers : (pc[c] = "wait" /\ pc'[c] = "idle" /\ answer'[c].ok)
              => answer'[c].ver >= newest[c][on[mine[c]]]]_dvars
  <2>. SUFFICES ASSUME FreshInv, DiskNext, NEW c \in Callers,
                       pc[c] = "wait", pc'[c] = "idle", answer'[c].ok
                PROVE  answer'[c].ver >= newest[c][on[mine[c]]]
    OBVIOUS
  <2>0. /\ DiskInv /\ KnownInv /\ OrderInv /\ mine[c] \in Calls
        /\ answer \in [Callers -> Results] /\ pc \in [Callers -> {"idle", "spawn", "wait"}]
    BY DEF FreshInv, DiskInv, DiskTypeOK
  <2>1. CASE Deliver(c)
    <3>1. Closed(mine[c]) /\ answer'[c] = res[mine[c]]
      BY <2>0, <2>1 DEF Deliver
    <3>2. \/ newest[c][on[mine[c]]] <= base[mine[c]]
          \/ newest[c][on[mine[c]]] <= res[mine[c]].ver
      BY <2>0, <3>1 DEF OrderInv, CanAnswer, Closed
    <3>3. base[mine[c]] <= res[mine[c]].ver
      BY <2>0, <3>1 DEF KnownInv, Closed
    <3>4. /\ base[mine[c]] \in Nat /\ res[mine[c]].ver \in Nat
          /\ newest[c][on[mine[c]]] \in Nat
      BY <2>0, Numbers
    <3>. QED
      BY <3>1, <3>2, <3>3, <3>4
  <2>2. CASE Timeout(c)
    BY <2>0, <2>2 DEF Timeout, Failure, Result
  <2>3. Deliver(c) \/ Timeout(c)
    <3>1. ASSUME NEW p \in Paths, Change(p) \/ Hang(p) \/ ComeBack(p) PROVE pc' = pc
      BY <3>1 DEF Change, Hang, ComeBack, callers
    <3>2. ASSUME NEW k \in Calls, Worker(k) PROVE pc' = pc
      BY <3>2 DEF Worker, StatReturns, Close, Remove, callers
    <3>3. ASSUME NEW d \in Callers, NEW p \in Paths, Join(d, p) PROVE pc'[c] # "idle"
      BY <2>0, <3>3 DEF Join
    <3>4. ASSUME NEW d \in Callers, NEW p \in Paths, NEW k \in Calls, Create(d, p, k) PROVE pc'[c] # "idle"
      BY <2>0, <3>4 DEF Create
    <3>5. ASSUME NEW d \in Callers, Spawn(d) PROVE pc'[c] # "idle"
      BY <2>0, <3>5 DEF Spawn
    <3>6. ASSUME NEW d \in Callers, Wait(d), d # c PROVE pc'[c] # "idle"
      BY <2>0, <3>6 DEF Wait, Deliver, Timeout, Return
    <3>. QED
      BY <3>1, <3>2, <3>3, <3>4, <3>5, <3>6 DEF DiskNext, KernelNext, Wait
  <2>. QED
    BY <2>1, <2>2, <2>3
<1>. QED
  BY <1>1, FreshInvInit, FreshInvStep, PTL DEF DiskSpec, AnswersNeverGoBack

-----------------------------------------------------------------------------
(* The storage module *)

Disks == [path : Paths, ok : BOOLEAN, ver : 0 .. MaxVersion]

StorageTypeOK ==
    /\ stage \in {"boot", "round", "idle", "failed"}
    /\ mounts \in Seq(Paths) /\ disks \in Seq(Disks)

(* The round so far has the first mounts in order, there is one more to ask *)
(* for while the goroutine waits, and only configured mounts have workers.  *)
RoundInv ==
    /\ Len(disks) <= Len(mounts)
    /\ \A i \in 1 .. Len(disks) : disks[i].path = mounts[i]
    /\ pc[Goroutine] # "idle" => stage = "round" /\ Len(disks) < Len(mounts)
    /\ stage = "boot" => mounts = << >> /\ sample = NoSample

WorkersInv == \A k \in Calls : phase[k] \in Live => \E i \in 1 .. Len(mounts) : on[k] = mounts[i]

SampleInv ==
    sample # NoSample =>
        /\ Len(sample.disks) = Len(mounts)
        /\ \A i \in 1 .. Len(mounts) : sample.disks[i].path = mounts[i]

StorageInv == StorageTypeOK /\ RoundInv /\ WorkersInv /\ SampleInv

LEMMA StorageInvInit == Init => StorageInv
<1>. SUFFICES ASSUME Init PROVE StorageInv
  OBVIOUS
<1>1. StorageTypeOK /\ SampleInv
  BY DEF Init, StorageTypeOK, SampleInv
<1>2. RoundInv /\ WorkersInv
  BY StorageAssumption DEF Init, DiskInit, RoundInv, WorkersInv, Live
<1>. QED
  BY <1>1, <1>2 DEF StorageInv

LEMMA BootKeeps ==
    ASSUME StorageInv, DiskInv, NEW cfg \in Configs, NEW table \in Tables, Boot(cfg, table)
    PROVE  StorageInv'
<1>0. /\ stage = "boot" /\ UNCHANGED << dvars, disks, sample >> /\ mounts = << >> /\ sample = NoSample
      /\ stage' \in {"round", "failed"} /\ mounts' \in {cfg, mounts} /\ cfg \in Seq(Paths)
  BY StorageAssumption DEF Boot, StorageInv, RoundInv
<1>1. Len(disks) = 0 /\ Len(mounts) = 0 /\ Len(mounts') \in Nat /\ mounts' \in Seq(Paths)
  BY <1>0 DEF StorageInv, StorageTypeOK, RoundInv
<1>2. \A k \in Calls : phase[k] \notin Live
  BY <1>1 DEF StorageInv, WorkersInv
<1>3. pc[Goroutine] = "idle"
  BY <1>0 DEF StorageInv, RoundInv
<1>4. StorageTypeOK'
  BY <1>0, <1>1 DEF StorageInv, StorageTypeOK
<1>5. RoundInv'
  BY <1>0, <1>1, <1>3 DEF RoundInv, dvars
<1>6. WorkersInv' /\ SampleInv'
  BY <1>0, <1>2 DEF WorkersInv, SampleInv, dvars
<1>. QED
  BY <1>4, <1>5, <1>6 DEF StorageInv

LEMMA TickKeeps ==
    ASSUME StorageInv, Tick
    PROVE  StorageInv'
<1>1. StorageTypeOK' /\ WorkersInv' /\ SampleInv'
  BY DEF Tick, StorageInv, StorageTypeOK, WorkersInv, SampleInv, dvars
<1>2. RoundInv'
  BY DEF Tick, StorageInv, RoundInv, dvars
<1>. QED
  BY <1>1, <1>2 DEF StorageInv

LEMMA AskMountKeeps ==
    ASSUME StorageInv, DiskInv, AskMount
    PROVE  StorageInv'
<1>. DEFINE p == mounts[Len(disks) + 1]
<1>0. /\ stage = "round" /\ Len(disks) < Len(mounts) /\ UNCHANGED storage
      /\ Len(disks) \in Nat /\ Len(mounts) \in Nat /\ Len(disks) + 1 \in 1 .. Len(mounts)
  BY DEF AskMount, StorageInv, StorageTypeOK
<1>1. StorageTypeOK' /\ SampleInv'
  BY <1>0 DEF StorageInv, StorageTypeOK, SampleInv, storage
<1>2. RoundInv'
  BY <1>0 DEF StorageInv, RoundInv, storage
<1>3. WorkersInv'
  <2>1. CASE Join(Goroutine, p)
    BY <1>0, <2>1 DEF Join, workers, StorageInv, WorkersInv, storage
  <2>2. ASSUME NEW k \in Calls, Create(Goroutine, p, k) PROVE WorkersInv'
    <3>1. \A j \in Calls : phase'[j] \in Live =>
            (j = k /\ on'[j] = p) \/ (phase[j] \in Live /\ on'[j] = on[j])
      BY <2>2 DEF Create, DiskInv, DiskTypeOK
    <3>. QED
      BY <1>0, <3>1 DEF StorageInv, WorkersInv, storage
  <2>. QED
    BY <2>1, <2>2 DEF AskMount
<1>. QED
  BY <1>1, <1>2, <1>3 DEF StorageInv

LEMMA SpawnWorkerKeeps ==
    ASSUME StorageInv, DiskInv, SpawnWorker
    PROVE  StorageInv'
<1>0. /\ UNCHANGED storage /\ on' = on /\ pc[Goroutine] = "spawn" /\ mine[Goroutine] \in Calls
      /\ phase[mine[Goroutine]] \in Live
      /\ \A k \in Calls \ {mine[Goroutine]} : phase'[k] = phase[k]
  BY StorageAssumption DEF SpawnWorker, Spawn, DiskInv, DiskTypeOK, Live
<1>1. StorageTypeOK' /\ SampleInv'
  BY <1>0 DEF StorageInv, StorageTypeOK, SampleInv, storage
<1>2. RoundInv'
  BY <1>0 DEF StorageInv, RoundInv, storage
<1>3. WorkersInv'
  BY <1>0 DEF StorageInv, WorkersInv, storage
<1>. QED
  BY <1>1, <1>2, <1>3 DEF StorageInv

LEMMA AnswerMountKeeps ==
    ASSUME StorageInv, DiskInv, DiskInv', AnswerMount
    PROVE  StorageInv'
<1>. DEFINE d == Disk(mounts[Len(disks) + 1], answer'[Goroutine])
<1>0. /\ stage = "round" /\ Wait(Goroutine) /\ disks' = Append(disks, d)
      /\ UNCHANGED << stage, mounts, sample >> /\ pc[Goroutine] = "wait" /\ Goroutine \in Callers
  BY StorageAssumption DEF AnswerMount, Wait, Deliver, Timeout
<1>1. /\ UNCHANGED << phase, on >> /\ pc'[Goroutine] = "idle"
  BY <1>0 DEF Wait, Deliver, Timeout, Return, workers, DiskInv, DiskTypeOK
<1>2. /\ Len(disks) < Len(mounts) /\ Len(disks) \in Nat /\ Len(mounts) \in Nat
      /\ Len(disks) + 1 \in 1 .. Len(mounts)
  BY <1>0 DEF StorageInv, StorageTypeOK, RoundInv
<1>3. d \in Disks /\ d.path = mounts[Len(disks) + 1]
  <2>1. mounts[Len(disks) + 1] \in Paths /\ answer'[Goroutine] \in Results
    BY <1>0, <1>2 DEF StorageInv, StorageTypeOK, DiskInv, DiskTypeOK
  <2>2. answer'[Goroutine].ok \in BOOLEAN /\ answer'[Goroutine].ver \in 0 .. MaxVersion
    BY <2>1 DEF Results
  <2>. QED
    BY <2>1, <2>2 DEF Disk, Disks
<1>. HIDE DEF d
<1>4. /\ disks' \in Seq(Disks) /\ Len(disks') = Len(disks) + 1 /\ disks'[Len(disks) + 1] = d
      /\ \A i \in 1 .. Len(disks) : disks'[i] = disks[i]
  BY <1>0, <1>3 DEF StorageInv, StorageTypeOK
<1>5. StorageTypeOK' /\ SampleInv'
  BY <1>0, <1>4 DEF StorageInv, StorageTypeOK, SampleInv
<1>6. RoundInv'
  BY <1>0, <1>1, <1>2, <1>3, <1>4 DEF StorageInv, RoundInv
<1>7. WorkersInv'
  BY <1>0, <1>1 DEF StorageInv, WorkersInv
<1>. QED
  BY <1>5, <1>6, <1>7 DEF StorageInv

LEMMA PublishSampleKeeps ==
    ASSUME StorageInv, PublishSample
    PROVE  StorageInv'
<1>0. /\ stage = "round" /\ Len(disks) = Len(mounts) /\ disks' = << >> /\ stage' = "idle"
      /\ sample'.disks = disks /\ mounts' = mounts /\ UNCHANGED << pc, phase, on >>
      /\ Len(disks) \in Nat
  BY DEF PublishSample, dvars, StorageInv, StorageTypeOK
<1>1. pc[Goroutine] = "idle"
  BY <1>0 DEF StorageInv, RoundInv
<1>2. StorageTypeOK'
  BY <1>0 DEF StorageInv, StorageTypeOK
<1>3. RoundInv'
  BY <1>0, <1>1 DEF RoundInv
<1>4. SampleInv'
  BY <1>0 DEF StorageInv, RoundInv, SampleInv
<1>5. WorkersInv'
  BY <1>0 DEF StorageInv, WorkersInv
<1>. QED
  BY <1>2, <1>3, <1>4, <1>5 DEF StorageInv

LEMMA EnvironmentKeeps ==
    ASSUME StorageInv, DiskInv, Environment
    PROVE  StorageInv'
<1>0. UNCHANGED storage
  BY DEF Environment
<1>1. pc' = pc /\ on' = on /\ \A k \in Calls : phase'[k] \in Live => phase[k] \in Live
  <2>1. ASSUME NEW p \in Paths, Change(p) \/ Hang(p) \/ ComeBack(p) PROVE pc' = pc /\ on' = on /\ phase' = phase
    BY <2>1 DEF Change, Hang, ComeBack, workers, callers
  <2>2. ASSUME NEW k \in Calls, Worker(k)
        PROVE  pc' = pc /\ on' = on /\ phase[k] \in Live /\ \A j \in Calls \ {k} : phase'[j] = phase[j]
    BY <2>2 DEF Worker, StatReturns, Close, Remove, callers, Live, DiskInv, DiskTypeOK
  <2>. QED
    BY <2>1, <2>2 DEF Environment, KernelNext
<1>2. StorageTypeOK' /\ SampleInv'
  BY <1>0 DEF StorageInv, StorageTypeOK, SampleInv, storage
<1>3. RoundInv'
  BY <1>0, <1>1 DEF StorageInv, RoundInv, storage
<1>4. WorkersInv'
  BY <1>0, <1>1 DEF StorageInv, WorkersInv, storage
<1>. QED
  BY <1>2, <1>3, <1>4 DEF StorageInv

LEMMA StorageInvStep == StorageInv /\ DiskInv /\ DiskInv' /\ [Next]_vars => StorageInv'
<1>. SUFFICES ASSUME StorageInv, DiskInv, DiskInv', [Next]_vars PROVE StorageInv'
  OBVIOUS
<1>1. CASE RoundStep
  BY <1>1, AskMountKeeps, SpawnWorkerKeeps, AnswerMountKeeps, PublishSampleKeeps DEF RoundStep
<1>2. CASE UNCHANGED vars
  BY <1>2 DEF vars, storage, dvars, StorageInv, StorageTypeOK, RoundInv, WorkersInv, SampleInv
<1>. QED
  BY <1>1, <1>2, BootKeeps, TickKeeps, EnvironmentKeeps DEF Next

(* Every step of the storage module is one of the collector or leaves it    *)
(* alone: what is asked for is a path.                                      *)
LEMMA CollectorSees == StorageInv /\ [Next]_vars => [DiskNext]_dvars
<1>. SUFFICES ASSUME StorageInv, [Next]_vars PROVE DiskNext \/ UNCHANGED dvars
  OBVIOUS
<1>0. Goroutine \in Callers
  BY StorageAssumption
<1>1. CASE AskMount
  <2>. DEFINE p == mounts[Len(disks) + 1]
  <2>1. p \in Paths
    BY <1>1 DEF AskMount, StorageInv, StorageTypeOK
  <2>. HIDE DEF p
  <2>2. Join(Goroutine, p) \/ \E k \in Calls : Create(Goroutine, p, k)
    BY <1>1 DEF AskMount, p
  <2>. QED
    BY <1>0, <2>1, <2>2 DEF DiskNext
<1>2. CASE SpawnWorker \/ AnswerMount
  BY <1>0, <1>2 DEF SpawnWorker, AnswerMount, DiskNext
<1>3. CASE Environment
  BY <1>3 DEF Environment, DiskNext
<1>4. CASE PublishSample \/ Tick \/ \E cfg \in Configs, table \in Tables : Boot(cfg, table)
  BY <1>4 DEF PublishSample, Tick, Boot
<1>5. CASE UNCHANGED vars
  BY <1>5 DEF vars
<1>. QED
  BY <1>1, <1>2, <1>3, <1>4, <1>5 DEF Next, RoundStep

(* The round's and the collector's inductive invariants hold together. *)
THEOREM StorageInvariant == Spec => [](StorageInv /\ DiskInv)
<1>1. Init => StorageInv /\ DiskInv
  BY StorageInvInit, DiskInvInit DEF Init
<1>2. StorageInv /\ DiskInv /\ [Next]_vars => (StorageInv /\ DiskInv)'
  BY StorageInvStep, CollectorSees, DiskInvStep
<1>. QED
  BY <1>1, <1>2, PTL DEF Spec

(* The storage module uses its collector as DiskCollector describes it.     *)
THEOREM StorageUsesCollector == Spec => DiskSpec
<1>1. Init => DiskInit
  BY DEF Init
<1>. QED
  BY <1>1, CollectorSees, StorageInvariant, PTL DEF Spec, DiskSpec

(* So the module's workers and answers are what the collector promises.     *)
THEOREM StorageIsServed == Spec => []OneWorkerPerPath /\ AnswersNeverGoBack
  BY StorageUsesCollector, AtMostOneWorker, AnswersMonotone, PTL

(* A set of live workers is no larger than the set of mounts they are for.  *)
LEMMA WorkersBounded ==
    ASSUME StorageInv, DiskInv
    PROVE  Cardinality({k \in Calls : phase[k] \in Live}) <= Cardinality({mounts[i] : i \in 1 .. Len(mounts)})
<1>. DEFINE W == {k \in Calls : phase[k] \in Live}
            M == {mounts[i] : i \in 1 .. Len(mounts)}
            f == [k \in W |-> on[k]]
<1>1. IsFiniteSet(M)
  <2>1. mounts \in [1 .. Len(mounts) -> M] /\ Len(mounts) \in Nat
    BY DEF StorageInv, StorageTypeOK
  <2>2. mounts \in Surjection(1 .. Len(mounts), M)
    BY <2>1 DEF Surjection
  <2>3. IsFiniteSet(1 .. Len(mounts))
    <3>1. 1 \in Int /\ Len(mounts) \in Int
      BY <2>1
    <3>. QED
      BY <3>1, FS_Interval, Zenon
  <2>. QED
    BY <2>2, <2>3, FS_Surjection
<1>2. f \in [W -> M]
  BY DEF StorageInv, WorkersInv
<1>3. \A j, k \in W : f[j] = f[k] => j = k
  BY Alone
<1>4. f \in Injection(W, M)
  BY <1>2, <1>3 DEF Injection, IsInjective
<1>. HIDE DEF W, M, f
<1>5. Cardinality(W) <= Cardinality(M)
  BY <1>1, <1>4, FS_Injection
<1>. QED
  BY <1>5 DEF W, M

(* Every sample has every configured mount in order, and rounds over hung   *)
(* mounts never hold more workers than there are mounts.                    *)
THEOREM RoundsAreComplete == Spec => []RoundIsComplete
<1>1. StorageInv /\ DiskInv => RoundIsComplete
  BY WorkersBounded DEF StorageInv, SampleInv, RoundIsComplete
<1>. QED
  BY <1>1, StorageInvariant, PTL
=============================================================================
