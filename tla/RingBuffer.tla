----------------------------- MODULE RingBuffer -----------------------------
(***************************************************************************)
(* internal/metrics/ringbuffer.go, shared by goroutines that push (Writers) *)
(* and goroutines that read (Readers).  Every statement of Push and every   *)
(* copy of Snapshot is a step of its own, so the only thing that keeps a    *)
(* reader from seeing a half-made push is the RWMutex, which is modelled    *)
(* with Go's semantics: a writer that has announced itself blocks readers   *)
(* that arrive later, waits for the readers already inside, and lets every  *)
(* blocked reader in when it unlocks.                                       *)
(***************************************************************************)
EXTENDS Integers, Sequences

CONSTANTS
    Cap,        \* NewRingBuffer's capacity
    Values,     \* the values that can be pushed
    Zero,       \* the zero value of T, which fills a new buffer
    Writers,    \* goroutines that call Push
    Readers,    \* goroutines that call Snapshot, Latest or Len
    Nobody      \* "no writer holds the mutex"

ASSUME CapAssumption == Cap \in Nat \ {0}
ASSUME ProcessAssumption == /\ Writers \cap Readers = {}
                            /\ Nobody \notin Writers
                            /\ Zero \notin Values

VARIABLES
    data,       \* data[i]: slot i of the backing array
    head,       \* slot the next Push writes
    full,       \* the buffer has wrapped at least once
    writer,     \* the writer that has announced itself to the RWMutex, or Nobody
    rlocks,     \* the readers that hold the read lock
    pc,         \* where each goroutine is
    val,        \* val[w]: argument of w's Push
    op,         \* op[r]: the read r is executing
    out,        \* out[r]: the slice r has built so far
    cnt,        \* cnt[r]: the count r has computed
    result      \* result[r]: the answer r's last read returned

buffer == << data, head, full >>
vars == << data, head, full, writer, rlocks, pc, val, op, out, cnt, result >>

Procs == Writers \cup Readers
Slots == 0 .. Cap - 1
Elements == Values \cup {Zero}

NoAnswer == [op |-> "none", items |-> << >>, n |-> 0]

(* NewRingBuffer: a fresh array of zero values; a capacity that is not      *)
(* positive panics, which CapAssumption rules out.                          *)
Init ==
    /\ data = [i \in Slots |-> Zero]
    /\ head = 0
    /\ full = FALSE
    /\ writer = Nobody
    /\ rlocks = {}
    /\ pc = [p \in Procs |-> "idle"]
    /\ val = [w \in Writers |-> Zero]
    /\ op = [r \in Readers |-> "none"]
    /\ out = [r \in Readers |-> << >>]
    /\ cnt = [r \in Readers |-> 0]
    /\ result = [r \in Readers |-> NoAnswer]

Goto(p, label) == pc' = [pc EXCEPT ![p] = label]

reading == << op, out, cnt, result >>

-----------------------------------------------------------------------------
(* Mutants: what a mistake in ringbuffer.go would do.  No specification     *)
(* uses them; PROJECT.json names the property each one breaks.              *)

(* full is set one push too early. *)
PushMarkEarly(w) ==
    /\ pc[w] = "mark"
    /\ full' = (full \/ head = Cap - 1)
    /\ Goto(w, "unlock")
    /\ UNCHANGED << data, head, writer, rlocks, val, reading >>

(* Push returns without unlocking. *)
PushUnlockForgotten(w) ==
    /\ pc[w] = "unlock"
    /\ Goto(w, "idle")
    /\ val' = [val EXCEPT ![w] = Zero]
    /\ UNCHANGED << buffer, writer, rlocks, reading >>

(* A read that does not take the read lock. *)
CallReadUnlocked(r, rop) ==
    /\ pc[r] = "idle"
    /\ op' = [op EXCEPT ![r] = rop]
    /\ Goto(r, "held")
    /\ UNCHANGED << buffer, writer, rlocks, val, out, cnt, result >>

(* A read that never unlocks. *)
ReadReturnLocked(r) ==
    /\ pc[r] = "runlock"
    /\ result' = [result EXCEPT ![r] = [op |-> op[r], items |-> out[r], n |-> cnt[r]]]
    /\ out' = [out EXCEPT ![r] = << >>]
    /\ cnt' = [cnt EXCEPT ![r] = 0]
    /\ op' = [op EXCEPT ![r] = "none"]
    /\ Goto(r, "idle")
    /\ UNCHANGED << buffer, writer, rlocks, val >>

-----------------------------------------------------------------------------
(* Push *)

CallPush(w, v) ==
    /\ pc[w] = "idle"
    /\ val' = [val EXCEPT ![w] = v]
    /\ Goto(w, "lock")
    /\ UNCHANGED << buffer, writer, rlocks, reading >>

(* RWMutex.Lock, first half: exclude other writers and turn new readers away. *)
AnnounceLock(w) ==
    /\ pc[w] = "lock"
    /\ writer = Nobody
    /\ writer' = w
    /\ Goto(w, "drain")
    /\ UNCHANGED << buffer, rlocks, val, reading >>

(* RWMutex.Lock, second half: wait for the readers that were already inside. *)
EnterPush(w) ==
    /\ pc[w] = "drain"
    /\ rlocks = {}
    /\ Goto(w, "store")
    /\ UNCHANGED << buffer, writer, rlocks, val, reading >>

PushStore(w) ==
    /\ pc[w] = "store"
    /\ data' = [data EXCEPT ![head] = val[w]]
    /\ Goto(w, "advance")
    /\ UNCHANGED << head, full, writer, rlocks, val, reading >>

PushAdvance(w) ==
    /\ pc[w] = "advance"
    /\ head' = (head + 1) % Cap
    /\ Goto(w, "mark")
    /\ UNCHANGED << data, full, writer, rlocks, val, reading >>

PushMark(w) ==
    /\ pc[w] = "mark"
    /\ full' = (full \/ head = 0)
    /\ Goto(w, "unlock")
    /\ UNCHANGED << data, head, writer, rlocks, val, reading >>

(* RWMutex.Unlock: the readers that were turned away are all let in, then   *)
(* another writer may announce itself.                                      *)
PushUnlock(w) ==
    /\ pc[w] = "unlock"
    /\ LET waiting == {r \in Readers : pc[r] = "wait"}
       IN  /\ rlocks' = rlocks \cup waiting
           /\ pc' = [p \in Procs |-> IF p = w THEN "idle"
                                     ELSE IF p \in waiting THEN "held"
                                     ELSE pc[p]]
    /\ writer' = Nobody
    /\ val' = [val EXCEPT ![w] = Zero]
    /\ UNCHANGED << buffer, reading >>

-----------------------------------------------------------------------------
(* Snapshot, Latest and Len *)

ReadOps == {"Snapshot", "Latest", "Len"}

(* RWMutex.RLock: goes in unless a writer has announced itself. *)
CallRead(r, rop) ==
    /\ pc[r] = "idle"
    /\ op' = [op EXCEPT ![r] = rop]
    /\ IF writer = Nobody
         THEN Goto(r, "held") /\ rlocks' = rlocks \cup {r}
         ELSE Goto(r, "wait") /\ UNCHANGED rlocks
    /\ UNCHANGED << buffer, writer, val, out, cnt, result >>

(* The number of valid samples. *)
Size == IF full THEN Cap ELSE head

ReadLen(r) ==
    /\ pc[r] = "held" /\ op[r] = "Len"
    /\ cnt' = [cnt EXCEPT ![r] = Size]
    /\ Goto(r, "runlock")
    /\ UNCHANGED << buffer, writer, rlocks, val, op, out, result >>

(* The slot before head, wrapping below zero. *)
NewestSlot == IF head - 1 < 0 THEN Cap - 1 ELSE head - 1

ReadLatest(r) ==
    /\ pc[r] = "held" /\ op[r] = "Latest"
    /\ out' = [out EXCEPT ![r] = IF ~full /\ head = 0 THEN << >>
                                 ELSE << data[NewestSlot] >>]
    /\ Goto(r, "runlock")
    /\ UNCHANGED << buffer, writer, rlocks, val, op, cnt, result >>

(* make([]T, n): n zero values. *)
SnapshotMake(r) ==
    /\ pc[r] = "held" /\ op[r] = "Snapshot"
    /\ out' = [out EXCEPT ![r] = [i \in 1 .. Size |-> Zero]]
    /\ Goto(r, "copyOld")
    /\ UNCHANGED << buffer, writer, rlocks, val, op, cnt, result >>

(* Go's copy(dst[off:], data[lo:hi]): as many elements as both slices have. *)
CopyInto(dst, off, lo, hi) ==
    [i \in 1 .. Len(dst) |->
        IF off < i /\ i <= off + (hi - lo) THEN data[lo + (i - off) - 1] ELSE dst[i]]

(* copy(out, data[head:]) of a full buffer, copy(out, data[:head]) otherwise. *)
SnapshotCopyOld(r) ==
    /\ pc[r] = "copyOld"
    /\ out' = [out EXCEPT ![r] = IF full THEN CopyInto(out[r], 0, head, Cap)
                                 ELSE CopyInto(out[r], 0, 0, head)]
    /\ Goto(r, IF full THEN "copyNew" ELSE "runlock")
    /\ UNCHANGED << buffer, writer, rlocks, val, op, cnt, result >>

(* copy(out[cap-head:], data[:head]). *)
SnapshotCopyNew(r) ==
    /\ pc[r] = "copyNew"
    /\ out' = [out EXCEPT ![r] = CopyInto(out[r], Cap - head, 0, head)]
    /\ Goto(r, "runlock")
    /\ UNCHANGED << buffer, writer, rlocks, val, op, cnt, result >>

(* The deferred RUnlock, and the return. *)
ReadReturn(r) ==
    /\ pc[r] = "runlock"
    /\ rlocks' = rlocks \ {r}
    /\ result' = [result EXCEPT ![r] = [op |-> op[r], items |-> out[r], n |-> cnt[r]]]
    /\ out' = [out EXCEPT ![r] = << >>]
    /\ cnt' = [cnt EXCEPT ![r] = 0]
    /\ op' = [op EXCEPT ![r] = "none"]
    /\ Goto(r, "idle")
    /\ UNCHANGED << buffer, writer, val >>

-----------------------------------------------------------------------------
PushStep(w) == \/ EnterPush(w) \/ PushStore(w) \/ PushAdvance(w)
               \/ PushMark(w)  \/ PushUnlock(w)

ReadStep(r) == \/ ReadLen(r) \/ ReadLatest(r) \/ SnapshotMake(r)
               \/ SnapshotCopyOld(r) \/ SnapshotCopyNew(r) \/ ReadReturn(r)

Next ==
    \/ \E w \in Writers : \/ \E v \in Values : CallPush(w, v)
                          \/ AnnounceLock(w)
                          \/ PushStep(w)
    \/ \E r \in Readers : \/ \E rop \in ReadOps : CallRead(r, rop)
                          \/ ReadStep(r)

Spec == Init /\ [][Next]_vars

(* Running goroutines keep running (weak fairness).  Lock's exclusion of    *)
(* other writers is a sync.Mutex, whose starvation mode hands the lock to a *)
(* goroutine that has waited too long (strong fairness).                    *)
Fairness == /\ \A w \in Writers : WF_vars(PushStep(w)) /\ SF_vars(AnnounceLock(w))
            /\ \A r \in Readers : WF_vars(ReadStep(r))

LiveSpec == Spec /\ Fairness

-----------------------------------------------------------------------------
(* Properties *)

WriterLabels == {"idle", "lock", "drain", "store", "advance", "mark", "unlock"}
ReaderLabels == {"idle", "wait", "held", "copyOld", "copyNew", "runlock"}

(* The indices stay inside the array, the array keeps its capacity and the  *)
(* slices under construction never outgrow it (ringbuffer.go's fields and   *)
(* the make of Snapshot).                                                   *)
TypeOK ==
    /\ data \in [Slots -> Elements]
    /\ head \in Slots
    /\ full \in BOOLEAN
    /\ writer \in Writers \cup {Nobody}
    /\ rlocks \subseteq Readers
    /\ pc \in [Procs -> WriterLabels \cup ReaderLabels]
    /\ \A w \in Writers : pc[w] \in WriterLabels
    /\ \A r \in Readers : pc[r] \in ReaderLabels
    /\ val \in [Writers -> Elements]
    /\ op \in [Readers -> ReadOps \cup {"none"}]
    /\ out \in [Readers -> Seq(Elements)]
    /\ \A r \in Readers : Len(out[r]) <= Cap
    /\ cnt \in [Readers -> 0 .. Cap]
    /\ result \in [Readers -> [op : ReadOps \cup {"none"}, items : Seq(Elements), n : 0 .. Cap]]

(* The buffer's contents, oldest first, for a given head and full flag.     *)
Chronological(d, h, f) ==
    IF f THEN [i \in 1 .. Cap |-> IF i <= Cap - h THEN d[h + i - 1] ELSE d[h + i - 1 - Cap]]
    ELSE [i \in 1 .. h |-> d[i - 1]]

(* A push takes effect when it stores its value: from there to the end of   *)
(* its critical section head and full are read as they will be.             *)
Stored == \E w \in Writers : pc[w] = "advance"
Advanced == \E w \in Writers : pc[w] = "mark"
NextSlot(h) == IF h = Cap - 1 THEN 0 ELSE h + 1
LogHead == IF Stored THEN NextSlot(head) ELSE head
LogFull == full \/ ((Stored \/ Advanced) /\ LogHead = 0)
Log == Chronological(data, LogHead, LogFull)

(* Refinement: however pushes and reads interleave, the slots, head and     *)
(* full of ringbuffer.go behave as the sequence of the newest Cap values,   *)
(* and every Snapshot, Latest and Len answers from that sequence at one     *)
(* instant of its execution: no torn, reordered or stale read.              *)
BL == INSTANCE BoundedLog WITH log <- Log, result <- result
ImplementsBoundedLog == BL!Spec

(* What a read is about to return is the buffer's contents at that moment:  *)
(* the two copies of Snapshot, made in separate steps, are of one state of  *)
(* the buffer (ringbuffer.go:75-91), and Latest and Len agree with it.      *)
ReadsAreConsistent ==
    \A r \in Readers : pc[r] = "runlock" =>
        [op |-> op[r], items |-> out[r], n |-> cnt[r]] = BL!Answer(op[r], Log)

(* No read ever hands out the zero value a fresh buffer is filled with: a   *)
(* slot is exposed only after a Push has stored into it.                    *)
OnlyPushedValues ==
    \A r \in Readers : \A i \in 1 .. Len(result[r].items) : result[r].items[i] \in Values

(* Every Push returns, whatever the other goroutines do: neither a stream   *)
(* of readers nor another writer can keep a sampler out of its own buffer.  *)
PushReturns == \A w \in Writers : pc[w] = "lock" ~> pc[w] = "idle"

(* Every read returns, even while writers queue up on the mutex.            *)
ReadReturns == \A r \in Readers : pc[r] \in {"wait", "held"} ~> pc[r] = "idle"
-----------------------------------------------------------------------------
(* The inductive strengthening used by RingBufferProofs.  An invariant of   *)
(* the runs too, so that TLC has looked for counterexamples to it.          *)

Inside == {"store", "advance", "mark", "unlock"}
Holding == {"held", "copyOld", "copyNew", "runlock"}

(* The RWMutex does its work: one writer is inside at a time, with no reader. *)
LockInv ==
    /\ \A w \in Writers : pc[w] \in Inside \cup {"drain"} <=> writer = w
    /\ \A w \in Writers : pc[w] \in Inside => rlocks = {}
    /\ \A r \in Readers : r \in rlocks <=> pc[r] \in Holding

(* Only pushed values are in the log. *)
LogInv ==
    /\ \A w \in Writers : pc[w] # "idle" => val[w] \in Values
    /\ \A i \in 1 .. Len(Log) : Log[i] \in Values

(* How far each reader has got. *)
ReaderInv ==
    \A r \in Readers :
        /\ pc[r] # "idle" => op[r] \in ReadOps
        /\ pc[r] \in {"copyOld", "copyNew"} => op[r] = "Snapshot"
        /\ pc[r] # "runlock" => cnt[r] = 0
        /\ pc[r] \in {"idle", "wait", "held"} => out[r] = << >>
        /\ pc[r] = "copyOld" => Len(out[r]) = Size
        /\ pc[r] = "copyNew" => /\ full
                                /\ Len(out[r]) = Cap
                                /\ \A i \in 1 .. Cap - head : out[r][i] = data[head + i - 1]

(* What makes ringbuffer.go correct, in a form every step preserves: mutual *)
(* exclusion, only pushed values inside, and what each reader has copied.   *)
IndInv == TypeOK /\ LockInv /\ LogInv /\ ReaderInv /\ ReadsAreConsistent /\ OnlyPushedValues
=============================================================================
