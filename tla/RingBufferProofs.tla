-------------------------- MODULE RingBufferProofs --------------------------
(***************************************************************************)
(* Proofs about RingBuffer, for every capacity, every set of values and any *)
(* number of writers and readers.                                           *)
(***************************************************************************)
EXTENDS RingBuffer, SequenceTheorems, TLAPS

(* (head + 1) % cap, the index arithmetic of Push, for a head in range.     *)
LEMMA NextHead ==
    ASSUME NEW h \in Slots
    PROVE  (h + 1) % Cap = NextSlot(h) /\ NextSlot(h) \in Slots
BY CapAssumption DEF Slots, NextSlot

(* The contents of a buffer, oldest first, are a sequence of as many        *)
(* elements as the buffer holds.                                            *)
LEMMA ChronologicalType ==
    ASSUME NEW d \in [Slots -> Elements], NEW h \in Slots, NEW f \in BOOLEAN
    PROVE  /\ Chronological(d, h, f) \in Seq(Elements)
           /\ Len(Chronological(d, h, f)) = IF f THEN Cap ELSE h
<1>1. CASE f
  <2> DEFINE c == [i \in 1 .. Cap |-> IF i <= Cap - h THEN d[h + i - 1] ELSE d[h + i - 1 - Cap]]
  <2>1. c \in [1 .. Cap -> Elements]
    BY CapAssumption DEF Slots
  <2>2. c \in Seq(Elements) /\ Len(c) = Cap
    BY <2>1, CapAssumption
  <2> QED BY <1>1, <2>2 DEF Chronological
<1>2. CASE ~f
  <2> DEFINE c == [i \in 1 .. h |-> d[i - 1]]
  <2>1. c \in [1 .. h -> Elements] /\ h \in Nat
    BY CapAssumption DEF Slots
  <2>2. c \in Seq(Elements) /\ Len(c) = h
    BY <2>1
  <2> QED BY <1>2, <2>2 DEF Chronological
<1> QED BY <1>1, <1>2

(* A function on 1 .. n is a sequence of length n. *)
LEMMA FunctionIsSeq ==
    ASSUME NEW T, NEW n \in Nat, NEW f \in [1 .. n -> T]
    PROVE  f \in Seq(T) /\ Len(f) = n
OBVIOUS

(* Appending to a sequence whose oldest element is dropped shifts it by one. *)
LEMMA ShiftAppend ==
    ASSUME NEW T, NEW s \in Seq(T), NEW v \in T, s # << >>
    PROVE  /\ Append(Tail(s), v) \in Seq(T)
           /\ Len(Append(Tail(s), v)) = Len(s)
           /\ \A i \in 1 .. Len(s) :
                 Append(Tail(s), v)[i] = IF i = Len(s) THEN v ELSE s[i + 1]
<1> DEFINE t == Tail(s)
<1>1. t \in Seq(T) /\ Len(t) = Len(s) - 1 /\ Len(s) \in Nat
  BY HeadTailProperties, LenProperties
<1>2. ASSUME NEW i \in 1 .. Len(s), i # Len(s) PROVE t[i] = s[i + 1]
  BY <1>2, LenProperties
<1> HIDE DEF t
<1>3. /\ Append(t, v) \in Seq(T)
      /\ Len(Append(t, v)) = Len(s)
  BY <1>1, AppendProperties
<1>4. \A i \in 1 .. Len(s) : Append(t, v)[i] = IF i = Len(s) THEN v ELSE t[i]
  BY <1>1, AppendProperties
<1> QED BY <1>2, <1>3, <1>4 DEF t

(* What Push does to the slots, head and full is a bounded append to the    *)
(* contents.                                                                *)
LEMMA ChronologicalPush ==
    ASSUME NEW d \in [Slots -> Elements], NEW h \in Slots, NEW f \in BOOLEAN,
           NEW v \in Elements
    PROVE  Chronological([d EXCEPT ![h] = v], NextSlot(h), f \/ NextSlot(h) = 0)
             = BL!BoundedAppend(Chronological(d, h, f), v)
<1> DEFINE h2  == NextSlot(h)
           f2  == f \/ h2 = 0
           old == Chronological(d, h, f)
           e   == [d EXCEPT ![h] = v]
           new == Chronological(e, h2, f2)
           app == BL!BoundedAppend(old, v)
<1>1. e \in [Slots -> Elements] /\ h2 \in Slots /\ f2 \in BOOLEAN
  BY NextHead
<1>h. h2 = IF h = Cap - 1 THEN 0 ELSE h + 1
  BY DEF NextSlot
<1>f. f2 <=> f \/ h2 = 0
  OBVIOUS
<1> HIDE DEF h2, f2
<1>2. old \in Seq(Elements) /\ Len(old) = IF f THEN Cap ELSE h
  BY ChronologicalType
<1>3. new \in Seq(Elements) /\ Len(new) = IF f2 THEN Cap ELSE h2
  BY <1>1, ChronologicalType
<1>4. CASE f
  <2>1. old # << >> /\ Len(old) = Cap /\ Len(new) = Cap
    BY <1>4, <1>2, <1>3, <1>f, CapAssumption
  <2>2. app = Append(Tail(old), v)
    BY <2>1, CapAssumption DEF BL!BoundedAppend
  <2>3. /\ app \in Seq(Elements) /\ Len(app) = Cap
        /\ \A i \in 1 .. Cap : app[i] = IF i = Cap THEN v ELSE old[i + 1]
    <3> HIDE DEF old, app
    <3> QED BY <2>1, <2>2, <1>2, ShiftAppend
  <2>4. ASSUME NEW i \in 1 .. Cap PROVE new[i] = app[i]
    <3>1. new[i] = IF i <= Cap - h2 THEN e[h2 + i - 1] ELSE e[h2 + i - 1 - Cap]
      BY <1>4, <1>f DEF Chronological
    <3>2. CASE i = Cap
      <4>1. new[i] = e[h]
        BY <3>2, <3>1, <1>h, CapAssumption DEF Slots
      <4> QED BY <4>1, <2>3, <3>2
    <3>3. CASE i # Cap
      <4>1. old[i + 1] = IF i + 1 <= Cap - h THEN d[h + i] ELSE d[h + i - Cap]
        BY <1>4, <3>3, CapAssumption DEF Chronological, Slots
      <4>2. new[i] = IF i + 1 <= Cap - h THEN d[h + i] ELSE d[h + i - Cap]
        BY <3>3, <3>1, <1>h, CapAssumption DEF Slots
      <4> QED BY <4>1, <4>2, <2>3, <3>3
    <3> QED BY <3>2, <3>3
  <2> HIDE DEF new, app
  <2>5. new = app
    BY <2>1, <2>3, <2>4, <1>3, SeqEqual
  <2> QED BY <2>5 DEF new, app, e, old, h2, f2
<1>5. CASE ~f
  <2>1. Len(old) = h /\ h < Cap /\ Len(new) = h + 1 /\ h \in Nat
    BY <1>5, <1>2, <1>3, <1>h, <1>f, CapAssumption DEF Slots
  <2>2. app = Append(old, v)
    BY <2>1, CapAssumption DEF BL!BoundedAppend
  <2>3. /\ app \in Seq(Elements) /\ Len(app) = h + 1
        /\ \A i \in 1 .. h + 1 : app[i] = IF i = h + 1 THEN v ELSE old[i]
    <3> HIDE DEF old, app
    <3> QED BY <2>1, <2>2, <1>2, AppendProperties
  <2>4. ASSUME NEW i \in 1 .. h + 1 PROVE new[i] = app[i]
    <3>1. i <= h => old[i] = d[i - 1]
      BY <1>5, <2>1 DEF Chronological
    <3>2. new[i] = e[i - 1]
      BY <1>5, <1>h, <1>f, <2>1, CapAssumption DEF Chronological
    <3>3. e[i - 1] = IF i = h + 1 THEN v ELSE d[i - 1]
      BY <2>1, CapAssumption DEF Slots
    <3> QED BY <2>1, <3>1, <3>2, <3>3, <2>3
  <2> HIDE DEF new, app
  <2>5. new = app
    BY <2>1, <2>3, <2>4, <1>3, SeqEqual
  <2> QED BY <2>5 DEF new, app, e, old, h2, f2
<1> QED BY <1>4, <1>5

-----------------------------------------------------------------------------
(* Type correctness *)

(* copy never changes the length of its destination. *)
LEMMA CopyIntoType ==
    ASSUME data \in [Slots -> Elements], NEW dst \in Seq(Elements), Len(dst) <= Cap,
           NEW off \in 0 .. Cap, NEW lo \in 0 .. Cap, NEW hi \in lo .. Cap
    PROVE  /\ CopyInto(dst, off, lo, hi) \in Seq(Elements)
           /\ Len(CopyInto(dst, off, lo, hi)) = Len(dst)
<1> DEFINE n == Len(dst)
<1>1. n \in Nat
  BY LenProperties
<1>2. ASSUME NEW i \in 1 .. n, off < i, i <= off + (hi - lo)
      PROVE  data[lo + (i - off) - 1] \in Elements
  BY <1>1, <1>2, CapAssumption DEF Slots
<1>3. CopyInto(dst, off, lo, hi) \in [1 .. n -> Elements]
  BY <1>2, ElementOfSeq DEF CopyInto
<1> QED BY <1>1, <1>3

(* A new buffer is well typed. *)
LEMMA TypeInit == Init => TypeOK
<1> SUFFICES ASSUME Init PROVE TypeOK
  OBVIOUS
<1>1. << >> \in Seq(Elements) /\ Len(<< >>) <= Cap /\ 0 \in Slots /\ 0 \in 0 .. Cap
  BY CapAssumption, EmptySeq DEF Slots
<1> QED BY <1>1, ProcessAssumption
        DEF Init, TypeOK, NoAnswer, Elements, Procs, WriterLabels, ReaderLabels

(* Every step of Push and of the read methods keeps the types. *)
LEMMA TypeStep == TypeOK /\ [Next]_vars => TypeOK'
<1> SUFFICES ASSUME TypeOK, [Next]_vars PROVE TypeOK'
  OBVIOUS
<1> USE ProcessAssumption DEF TypeOK, Goto, buffer, reading, Procs, WriterLabels, ReaderLabels
<1>1. ASSUME NEW w \in Writers, NEW v \in Values, CallPush(w, v) PROVE TypeOK'
  BY <1>1 DEF CallPush, Elements
<1>2. ASSUME NEW w \in Writers, AnnounceLock(w) PROVE TypeOK'
  BY <1>2 DEF AnnounceLock
<1>3. ASSUME NEW w \in Writers, EnterPush(w) PROVE TypeOK'
  BY <1>3 DEF EnterPush
<1>4. ASSUME NEW w \in Writers, PushStore(w) PROVE TypeOK'
  BY <1>4 DEF PushStore
<1>5. ASSUME NEW w \in Writers, PushAdvance(w) PROVE TypeOK'
  <2>1. (head + 1) % Cap \in Slots
    BY NextHead
  <2> QED BY <1>5, <2>1 DEF PushAdvance
<1>6. ASSUME NEW w \in Writers, PushMark(w) PROVE TypeOK'
  BY <1>6 DEF PushMark
<1>7. ASSUME NEW w \in Writers, PushUnlock(w) PROVE TypeOK'
  BY <1>7 DEF PushUnlock, Elements
<1>8. ASSUME NEW r \in Readers, NEW rop \in ReadOps, CallRead(r, rop) PROVE TypeOK'
  <2>1. /\ UNCHANGED << buffer, writer, val, out, cnt, result >>
        /\ op' = [op EXCEPT ![r] = rop]
    BY <1>8 DEF CallRead
  <2>2. \/ pc' = [pc EXCEPT ![r] = "held"] /\ rlocks' = rlocks \cup {r}
        \/ pc' = [pc EXCEPT ![r] = "wait"] /\ rlocks' = rlocks
    BY <1>8 DEF CallRead
  <2>3. CASE pc' = [pc EXCEPT ![r] = "held"] /\ rlocks' = rlocks \cup {r}
    BY <2>1, <2>3
  <2>4. CASE pc' = [pc EXCEPT ![r] = "wait"] /\ rlocks' = rlocks
    BY <2>1, <2>4
  <2> QED BY <2>2, <2>3, <2>4
<1>9. ASSUME NEW r \in Readers, ReadLen(r) PROVE TypeOK'
  <2>1. Size \in 0 .. Cap
    BY CapAssumption DEF Size, Slots
  <2> QED BY <1>9, <2>1 DEF ReadLen
<1>10. ASSUME NEW r \in Readers, ReadLatest(r) PROVE TypeOK'
  <2>1. data[NewestSlot] \in Elements
    BY CapAssumption DEF NewestSlot, Slots
  <2> DEFINE o == IF ~full /\ head = 0 THEN << >> ELSE << data[NewestSlot] >>
  <2>2. o \in Seq(Elements) /\ Len(o) <= Cap
    BY <2>1, CapAssumption
  <2> HIDE DEF o
  <2>3. /\ out' = [out EXCEPT ![r] = o]
        /\ pc' = [pc EXCEPT ![r] = "runlock"]
        /\ UNCHANGED << buffer, writer, rlocks, val, op, cnt, result >>
    BY <1>10 DEF ReadLatest, o
  <2> QED BY <2>2, <2>3
<1>11. ASSUME NEW r \in Readers, SnapshotMake(r) PROVE TypeOK'
  <2> DEFINE o == [i \in 1 .. Size |-> Zero]
  <2>1. Size \in Nat /\ Size <= Cap
    BY CapAssumption DEF Size, Slots
  <2>2. o \in [1 .. Size -> Elements]
    BY DEF Elements
  <2>3. /\ out' = [out EXCEPT ![r] = o]
        /\ pc' = [pc EXCEPT ![r] = "copyOld"]
        /\ UNCHANGED << buffer, writer, rlocks, val, op, cnt, result >>
    BY <1>11 DEF SnapshotMake, o
  <2> HIDE DEF o
  <2>4. o \in Seq(Elements) /\ Len(o) <= Cap
    BY <2>1, <2>2, FunctionIsSeq
  <2> QED BY <2>3, <2>4
<1>12. ASSUME NEW r \in Readers, SnapshotCopyOld(r) PROVE TypeOK'
  <2> DEFINE o == IF full THEN CopyInto(out[r], 0, head, Cap) ELSE CopyInto(out[r], 0, 0, head)
  <2>1. head \in 0 .. Cap /\ Cap \in head .. Cap /\ head \in 0 .. head /\ 0 \in 0 .. Cap /\ Cap \in 0 .. Cap
    BY CapAssumption DEF Slots
  <2>2. o \in Seq(Elements) /\ Len(o) <= Cap
    BY <2>1, CopyIntoType
  <2> HIDE DEF o
  <2>3. out' = [out EXCEPT ![r] = o]
    BY <1>12 DEF SnapshotCopyOld, o
  <2> QED BY <1>12, <2>2, <2>3 DEF SnapshotCopyOld
<1>13. ASSUME NEW r \in Readers, SnapshotCopyNew(r) PROVE TypeOK'
  <2> DEFINE o == CopyInto(out[r], Cap - head, 0, head)
  <2>1. head \in 0 .. Cap /\ Cap - head \in 0 .. Cap /\ head \in 0 .. head /\ 0 \in 0 .. Cap
    BY CapAssumption DEF Slots
  <2>2. o \in Seq(Elements) /\ Len(o) <= Cap
    BY <2>1, CopyIntoType
  <2> HIDE DEF o
  <2>3. out' = [out EXCEPT ![r] = o]
    BY <1>13 DEF SnapshotCopyNew, o
  <2> QED BY <1>13, <2>2, <2>3 DEF SnapshotCopyNew
<1>14. ASSUME NEW r \in Readers, ReadReturn(r) PROVE TypeOK'
  <2>1. << >> \in Seq(Elements) /\ Len(<< >>) <= Cap /\ 0 \in 0 .. Cap
    BY CapAssumption, EmptySeq
  <2>2. [op |-> op[r], items |-> out[r], n |-> cnt[r]]
          \in [op : ReadOps \cup {"none"}, items : Seq(Elements), n : 0 .. Cap]
    OBVIOUS
  <2> QED BY <1>14, <2>1, <2>2 DEF ReadReturn
<1>15. CASE UNCHANGED vars
  BY <1>15 DEF vars
<1> QED
  BY <1>1, <1>2, <1>3, <1>4, <1>5, <1>6, <1>7, <1>8, <1>9, <1>10, <1>11, <1>12, <1>13, <1>14, <1>15
  DEF Next, PushStep, ReadStep

(* The indices of ringbuffer.go never leave the array and no slice built by *)
(* Snapshot outgrows the capacity, for any number of writers and readers.   *)
THEOREM TypeCorrect == Spec => []TypeOK
BY TypeInit, TypeStep, PTL DEF Spec

-----------------------------------------------------------------------------
(* The read-write mutex *)

(* Every step keeps the mutual exclusion the RWMutex provides. *)
LEMMA LockStep == TypeOK /\ LockInv /\ [Next]_vars => LockInv'
<1> SUFFICES ASSUME TypeOK, LockInv, [Next]_vars PROVE LockInv'
  OBVIOUS
<1> USE ProcessAssumption
    DEF TypeOK, LockInv, Goto, buffer, reading, Procs, Inside, Holding, WriterLabels, ReaderLabels
<1>1. ASSUME NEW w \in Writers, NEW v \in Values, CallPush(w, v) PROVE LockInv'
  BY <1>1 DEF CallPush
<1>2. ASSUME NEW w \in Writers, AnnounceLock(w) PROVE LockInv'
  BY <1>2 DEF AnnounceLock
<1>3. ASSUME NEW w \in Writers, PushStep(w) PROVE LockInv'
  <2>1. CASE EnterPush(w)
    BY <2>1 DEF EnterPush
  <2>2. CASE PushStore(w)
    BY <2>2 DEF PushStore
  <2>3. CASE PushAdvance(w)
    BY <2>3 DEF PushAdvance
  <2>4. CASE PushMark(w)
    BY <2>4 DEF PushMark
  <2>5. CASE PushUnlock(w)
    BY <2>5 DEF PushUnlock
  <2> QED BY <1>3, <2>1, <2>2, <2>3, <2>4, <2>5 DEF PushStep
<1>4. ASSUME NEW r \in Readers, NEW rop \in ReadOps, CallRead(r, rop) PROVE LockInv'
  <2>1. /\ writer' = writer /\ pc[r] = "idle"
        /\ \A p \in Procs : p # r => pc'[p] = pc[p]
    BY <1>4 DEF CallRead
  <2>2. CASE writer = Nobody
    <3>1. rlocks' = rlocks \cup {r} /\ pc'[r] = "held"
      BY <1>4, <2>2 DEF CallRead
    <3> QED BY <2>1, <2>2, <3>1
  <2>3. CASE writer # Nobody
    <3>1. rlocks' = rlocks /\ pc'[r] = "wait"
      BY <1>4, <2>3 DEF CallRead
    <3> QED BY <2>1, <3>1
  <2> QED BY <2>2, <2>3
<1>5. ASSUME NEW r \in Readers, ReadStep(r) PROVE LockInv'
  <2>1. CASE ReadLen(r)
    BY <2>1 DEF ReadLen
  <2>2. CASE ReadLatest(r)
    BY <2>2 DEF ReadLatest
  <2>3. CASE SnapshotMake(r)
    BY <2>3 DEF SnapshotMake
  <2>4. CASE SnapshotCopyOld(r)
    BY <2>4 DEF SnapshotCopyOld
  <2>5. CASE SnapshotCopyNew(r)
    BY <2>5 DEF SnapshotCopyNew
  <2>6. CASE ReadReturn(r)
    BY <2>6 DEF ReadReturn
  <2> QED BY <1>5, <2>1, <2>2, <2>3, <2>4, <2>5, <2>6 DEF ReadStep
<1>6. CASE UNCHANGED vars
  BY <1>6 DEF vars
<1> QED BY <1>1, <1>2, <1>3, <1>4, <1>5, <1>6 DEF Next

-----------------------------------------------------------------------------
(* How the abstract log moves *)

(* A step of a reader, or of a writer that touches neither the buffer nor   *)
(* the labels the mapping looks at, leaves the log alone.                   *)
LEMMA LogFrame ==
    ASSUME UNCHANGED buffer,
           \A w \in Writers : (pc[w] = "advance") <=> (pc'[w] = "advance"),
           \A w \in Writers : (pc[w] = "mark") <=> (pc'[w] = "mark")
    PROVE  Log' = Log
<1>1. data' = data /\ head' = head /\ full' = full
  BY DEF buffer
<1>2. Stored' = Stored /\ Advanced' = Advanced
  BY DEF Stored, Advanced
<1>3. LogHead' = LogHead
  BY <1>1, <1>2 DEF LogHead
<1>4. LogFull' = LogFull
  BY <1>1, <1>2, <1>3 DEF LogFull
<1> QED BY <1>1, <1>3, <1>4 DEF Log, Chronological

(* While a reader holds the lock, or a writer is about to store, the log is *)
(* what the slots, head and full say it is.                                 *)
LEMMA LogAtRest ==
    ASSUME full \in BOOLEAN, ~ Stored, ~ Advanced
    PROVE  Log = Chronological(data, head, full)
<1>1. LogHead = head /\ LogFull = full
  BY DEF LogHead, LogFull
<1> QED BY <1>1 DEF Log

(* While a reader holds the lock no push is half made: the log is what the  *)
(* slots, head and full say.                                                *)
LEMMA LogWhileReading ==
    ASSUME TypeOK, LockInv, NEW r \in rlocks
    PROVE  Log = Chronological(data, head, full)
<1>1. ~ Stored /\ ~ Advanced
  BY DEF LockInv, Stored, Advanced, Inside
<1> QED BY <1>1, LogAtRest DEF TypeOK

(* PushStore is the instant a push takes effect; no other step moves the log. *)
LEMMA LogStore ==
    ASSUME TypeOK, LockInv, NEW w \in Writers, PushStore(w)
    PROVE  Log' = BL!BoundedAppend(Log, val[w])
<1>1. ~ Stored /\ ~ Advanced
  BY DEF LockInv, Stored, Advanced, Inside, PushStore
<1>2. Log = Chronological(data, head, full)
  BY <1>1, LogAtRest DEF TypeOK
<1>3. Stored'
  BY DEF PushStore, Stored, Goto, TypeOK, Procs
<1> DEFINE f2 == full \/ NextSlot(head) = 0
<1>4. data' = [data EXCEPT ![head] = val[w]] /\ LogHead' = NextSlot(head) /\ LogFull' = f2
  BY <1>3 DEF LogHead, LogFull, PushStore, NextSlot
<1>5. /\ data \in [Slots -> Elements] /\ head \in Slots /\ full \in BOOLEAN
      /\ val[w] \in Elements
  BY DEF TypeOK
<1>6. Log' = Chronological([data EXCEPT ![head] = val[w]], NextSlot(head), f2)
  <2> HIDE DEF f2
  <2> QED BY <1>4 DEF Log, Chronological
<1>7. Chronological([data EXCEPT ![head] = val[w]], NextSlot(head), f2)
        = BL!BoundedAppend(Chronological(data, head, full), val[w])
  BY <1>5, ChronologicalPush, Zenon
<1> QED BY <1>2, <1>6, <1>7

(* The two steps of Push after the store leave the log as it is. *)
LEMMA LogAdvance ==
    ASSUME TypeOK, LockInv, NEW w \in Writers, PushAdvance(w) \/ PushMark(w)
    PROVE  Log' = Log
<1>1. CASE PushAdvance(w)
  <2>1. Stored /\ ~ Advanced /\ ~ Stored' /\ Advanced'
    BY <1>1 DEF PushAdvance, Stored, Advanced, Goto, TypeOK, Procs, LockInv, Inside
  <2>2. head' = NextSlot(head)
    BY <1>1, NextHead DEF PushAdvance, TypeOK
  <2>3. LogHead' = LogHead /\ LogFull' = LogFull /\ data' = data
    BY <1>1, <2>1, <2>2 DEF LogHead, LogFull, PushAdvance
  <2> QED BY <2>3 DEF Log, Chronological
<1>2. CASE PushMark(w)
  <2>1. ~ Stored /\ Advanced /\ ~ Stored' /\ ~ Advanced'
    BY <1>2 DEF PushMark, Stored, Advanced, Goto, TypeOK, Procs, LockInv, Inside
  <2>2. LogHead' = LogHead /\ LogFull' = LogFull /\ data' = data
    BY <1>2, <2>1 DEF LogHead, LogFull, PushMark
  <2> QED BY <2>2 DEF Log, Chronological
<1> QED BY <1>1, <1>2

(* The log changes only when a Push stores its value, and then by a         *)
(* bounded append.                                                          *)
LEMMA LogStep ==
    ASSUME TypeOK, LockInv, [Next]_vars
    PROVE  \/ Log' = Log
           \/ \E w \in Writers : PushStore(w) /\ Log' = BL!BoundedAppend(Log, val[w])
<1> USE ProcessAssumption DEF TypeOK, Goto, Procs, buffer, reading
<1>1. ASSUME NEW w \in Writers, NEW v \in Values, CallPush(w, v) PROVE Log' = Log
  BY <1>1, LogFrame DEF CallPush
<1>2. ASSUME NEW w \in Writers, AnnounceLock(w) PROVE Log' = Log
  BY <1>2, LogFrame DEF AnnounceLock
<1>3. ASSUME NEW w \in Writers, EnterPush(w) PROVE Log' = Log
  BY <1>3, LogFrame DEF EnterPush
<1>4. ASSUME NEW w \in Writers, PushUnlock(w) PROVE Log' = Log
  BY <1>4, LogFrame DEF PushUnlock
<1>5. ASSUME NEW r \in Readers, NEW rop \in ReadOps, CallRead(r, rop) PROVE Log' = Log
  BY <1>5, LogFrame DEF CallRead
<1>6. ASSUME NEW r \in Readers, ReadStep(r) PROVE Log' = Log
  <2>1. /\ UNCHANGED buffer
        /\ \A w \in Writers : pc'[w] = pc[w]
    BY <1>6 DEF ReadStep, ReadLen, ReadLatest, SnapshotMake, SnapshotCopyOld, SnapshotCopyNew, ReadReturn
  <2> QED BY <2>1, LogFrame
<1>7. CASE UNCHANGED vars
  BY <1>7, LogFrame DEF vars
<1> QED BY <1>1, <1>2, <1>3, <1>4, <1>5, <1>6, <1>7, LogStore, LogAdvance DEF Next, PushStep

(* The log is a sequence of at most Cap elements. *)
LEMMA LogType ==
    ASSUME TypeOK
    PROVE  Log \in Seq(Elements) /\ Len(Log) <= Cap
<1>1. LogHead \in Slots /\ LogFull \in BOOLEAN
  BY NextHead DEF LogHead, LogFull, TypeOK
<1>2. data \in [Slots -> Elements]
  BY DEF TypeOK
<1> HIDE DEF LogHead, LogFull
<1> QED BY <1>1, <1>2, ChronologicalType, CapAssumption DEF Log, Slots

(* A log of pushed values stays one when a value is pushed. *)
LEMMA BoundedAppendValues ==
    ASSUME NEW s \in Seq(Values), Len(s) <= Cap, NEW v \in Values
    PROVE  BL!BoundedAppend(s, v) \in Seq(Values)
<1>1. CASE Len(s) < Cap
  BY <1>1, AppendProperties DEF BL!BoundedAppend
<1>2. CASE ~ Len(s) < Cap
  <2>1. s # << >>
    BY <1>2, CapAssumption
  <2> QED BY <1>2, <2>1, ShiftAppend DEF BL!BoundedAppend
<1> QED BY <1>1, <1>2

(* A sequence all of whose elements are pushed values. *)
LEMMA SeqOfValues ==
    ASSUME NEW s \in Seq(Elements)
    PROVE  (\A i \in 1 .. Len(s) : s[i] \in Values) <=> s \in Seq(Values)
<1>1. ASSUME \A i \in 1 .. Len(s) : s[i] \in Values PROVE s \in Seq(Values)
  BY <1>1, LenProperties
<1>2. ASSUME s \in Seq(Values), NEW i \in 1 .. Len(s) PROVE s[i] \in Values
  BY <1>2, ElementOfSeq
<1> QED BY <1>1, <1>2

(* Every step keeps the log free of the zero value. *)
LEMMA LogInvStep == TypeOK /\ LockInv /\ LogInv /\ [Next]_vars => LogInv'
<1> SUFFICES ASSUME TypeOK, LockInv, LogInv, [Next]_vars PROVE LogInv'
  OBVIOUS
<1>1. \A w \in Writers : pc'[w] # "idle" => val'[w] \in Values
  <2> USE ProcessAssumption DEF TypeOK, LogInv, Goto, Procs, buffer, reading
  <2>1. ASSUME NEW w \in Writers, NEW v \in Values, CallPush(w, v)
        PROVE  \A u \in Writers : pc'[u] # "idle" => val'[u] \in Values
    BY <2>1 DEF CallPush
  <2>2. ASSUME NEW w \in Writers, PushUnlock(w)
        PROVE  \A u \in Writers : pc'[u] # "idle" => val'[u] \in Values
    BY <2>2 DEF PushUnlock
  <2>3. ASSUME NEW w \in Writers,
               AnnounceLock(w) \/ EnterPush(w) \/ PushStore(w) \/ PushAdvance(w) \/ PushMark(w)
        PROVE  \A u \in Writers : pc'[u] # "idle" => val'[u] \in Values
    <3>1. val' = val /\ pc[w] # "idle" /\ \A u \in Writers : u # w => pc'[u] = pc[u]
      BY <2>3 DEF AnnounceLock, EnterPush, PushStore, PushAdvance, PushMark
    <3> QED BY <3>1
  <2>4. ASSUME NEW r \in Readers, ReadStep(r) \/ \E rop \in ReadOps : CallRead(r, rop)
        PROVE  \A u \in Writers : pc'[u] # "idle" => val'[u] \in Values
    <3>1. val' = val /\ \A u \in Writers : pc'[u] = pc[u]
      BY <2>4 DEF ReadStep, CallRead, ReadLen, ReadLatest, SnapshotMake, SnapshotCopyOld,
                  SnapshotCopyNew, ReadReturn
    <3> QED BY <3>1
  <2>5. CASE UNCHANGED vars
    BY <2>5 DEF vars
  <2> QED BY <2>1, <2>2, <2>3, <2>4, <2>5 DEF Next, PushStep
<1>2. \A i \in 1 .. Len(Log') : Log'[i] \in Values
  <2> HIDE DEF Log
  <2>1. CASE Log' = Log
    BY <2>1 DEF LogInv
  <2>2. ASSUME NEW w \in Writers, PushStore(w), Log' = BL!BoundedAppend(Log, val[w])
        PROVE  \A i \in 1 .. Len(Log') : Log'[i] \in Values
    <3>1. val[w] \in Values
      BY <2>2 DEF PushStore, LogInv
    <3>2. Log \in Seq(Values) /\ Len(Log) <= Cap
      BY LogType, SeqOfValues DEF LogInv
    <3>3. Log' \in Seq(Values)
      BY <2>2, <3>1, <3>2, BoundedAppendValues
    <3> QED BY <3>3, ElementOfSeq
  <2> QED BY <2>1, <2>2, LogStep
<1> QED BY <1>1, <1>2 DEF LogInv

-----------------------------------------------------------------------------
(* What a reader has built when it is about to return *)

ReadIsConsistent(r) ==
    [op |-> op[r], items |-> out[r], n |-> cnt[r]] = BL!Answer(op[r], Log)

(* Len is the length of the log. *)
LEMMA LenIsConsistent ==
    ASSUME TypeOK, LockInv, ReaderInv, NEW r \in Readers, ReadLen(r)
    PROVE  ReadIsConsistent(r)'
<1>1. r \in rlocks /\ UNCHANGED << buffer, op, out >>
  BY DEF ReadLen, LockInv, Holding, Goto
<1>2. Log' = Log
  BY <1>1, LogFrame, ProcessAssumption DEF ReadLen, Goto, TypeOK, Procs
<1>3. Log = Chronological(data, head, full)
  BY <1>1, LogWhileReading
<1>4. Len(Log) = Size
  BY <1>3, ChronologicalType DEF TypeOK, Size
<1>5. op'[r] = "Len" /\ out'[r] = << >> /\ cnt'[r] = Size
  BY <1>1 DEF ReadLen, ReaderInv, TypeOK
<1> HIDE DEF Log
<1> QED BY <1>2, <1>4, <1>5 DEF ReadIsConsistent, BL!Answer

(* Latest is the last element of the log, if it has one. *)
LEMMA LatestIsConsistent ==
    ASSUME TypeOK, LockInv, ReaderInv, NEW r \in Readers, ReadLatest(r)
    PROVE  ReadIsConsistent(r)'
<1>1. r \in rlocks /\ UNCHANGED << buffer, op, cnt >>
  BY DEF ReadLatest, LockInv, Holding, Goto
<1>2. Log' = Log
  BY <1>1, LogFrame, ProcessAssumption DEF ReadLatest, Goto, TypeOK, Procs
<1>3. Log = Chronological(data, head, full)
  BY <1>1, LogWhileReading
<1>4. Log \in Seq(Elements) /\ Len(Log) = Size /\ Size \in Nat
  <2>1. Log \in Seq(Elements) /\ Len(Log) = Size
    BY <1>3, ChronologicalType DEF TypeOK, Size
  <2> QED BY <2>1, CapAssumption DEF TypeOK, Size, Slots
<1>5. op'[r] = "Latest" /\ cnt'[r] = 0
  BY <1>1 DEF ReadLatest, ReaderInv, TypeOK
<1>6. CASE ~ full /\ head = 0
  <2>1. Log = << >>
    BY <1>4, <1>6, EmptySeq DEF Size
  <2>2. out'[r] = << >>
    BY <1>6 DEF ReadLatest, TypeOK
  <2> HIDE DEF Log
  <2> QED BY <1>2, <1>5, <2>1, <2>2 DEF ReadIsConsistent, BL!Answer
<1>7. CASE ~ (~ full /\ head = 0)
  <2>1. Size > 0 /\ Log # << >>
    BY <1>4, <1>7, CapAssumption DEF Size, TypeOK, Slots
  <2>2. Log[Size] = data[NewestSlot]
    <3>1. CASE full
      <4>1. Log[Size] = IF Cap <= Cap - head THEN data[head + Cap - 1] ELSE data[head + Cap - 1 - Cap]
        BY <1>3, <3>1, CapAssumption DEF Chronological, Size
      <4> QED BY <4>1, CapAssumption DEF NewestSlot, TypeOK, Slots
    <3>2. CASE ~ full
      <4>1. Log[Size] = data[head - 1]
        BY <1>3, <2>1, <3>2, CapAssumption DEF Chronological, Size, TypeOK, Slots
      <4> QED BY <4>1, <1>7, <3>2 DEF NewestSlot, TypeOK, Slots
    <3> QED BY <3>1, <3>2
  <2>3. out'[r] = << data[NewestSlot] >>
    BY <1>7 DEF ReadLatest, TypeOK
  <2> HIDE DEF Log
  <2> QED BY <1>2, <1>4, <1>5, <2>1, <2>2, <2>3 DEF ReadIsConsistent, BL!Answer
<1> QED BY <1>6, <1>7

(* The one copy of a buffer that has not wrapped is the log. *)
LEMMA PartialCopyIsConsistent ==
    ASSUME TypeOK, LockInv, ReaderInv, NEW r \in Readers, SnapshotCopyOld(r), ~ full
    PROVE  ReadIsConsistent(r)'
<1>1. r \in rlocks /\ UNCHANGED << buffer, op, cnt >>
  BY DEF SnapshotCopyOld, LockInv, Holding, Goto
<1>2. Log' = Log
  BY <1>1, LogFrame, ProcessAssumption DEF SnapshotCopyOld, Goto, TypeOK, Procs
<1>3. Log = Chronological(data, head, full)
  BY <1>1, LogWhileReading
<1>4. op'[r] = "Snapshot" /\ cnt'[r] = 0 /\ Len(out[r]) = head
  BY <1>1 DEF SnapshotCopyOld, ReaderInv, TypeOK, Size
<1>5. out'[r] = CopyInto(out[r], 0, 0, head)
  BY DEF SnapshotCopyOld, TypeOK
<1>6. CopyInto(out[r], 0, 0, head) = [i \in 1 .. head |-> data[i - 1]]
  <2>1. ASSUME NEW i \in 1 .. head
        PROVE  /\ 0 < i /\ i <= 0 + (head - 0)
               /\ 0 + (i - 0) - 1 = i - 1
    BY DEF TypeOK, Slots
  <2> QED BY <1>4, <2>1 DEF CopyInto
<1>7. out'[r] = Log
  BY <1>3, <1>5, <1>6 DEF Chronological
<1> HIDE DEF Log
<1> QED BY <1>2, <1>4, <1>7 DEF ReadIsConsistent, BL!Answer

(* The two copies of a buffer that has wrapped make up the log. *)
LEMMA FullCopyIsConsistent ==
    ASSUME TypeOK, LockInv, ReaderInv, NEW r \in Readers, SnapshotCopyNew(r)
    PROVE  ReadIsConsistent(r)'
<1>1. r \in rlocks /\ UNCHANGED << buffer, op, cnt >>
  BY DEF SnapshotCopyNew, LockInv, Holding, Goto
<1>2. Log' = Log
  BY <1>1, LogFrame, ProcessAssumption DEF SnapshotCopyNew, Goto, TypeOK, Procs
<1>3. Log = Chronological(data, head, full)
  BY <1>1, LogWhileReading
<1>4. /\ op'[r] = "Snapshot" /\ cnt'[r] = 0 /\ full /\ Len(out[r]) = Cap
      /\ \A i \in 1 .. Cap - head : out[r][i] = data[head + i - 1]
  BY <1>1 DEF SnapshotCopyNew, ReaderInv, TypeOK
<1>5. out'[r] = CopyInto(out[r], Cap - head, 0, head)
  BY DEF SnapshotCopyNew, TypeOK
<1>6. CopyInto(out[r], Cap - head, 0, head)
        = [i \in 1 .. Cap |-> IF i <= Cap - head THEN data[head + i - 1] ELSE data[head + i - 1 - Cap]]
  <2>1. ASSUME NEW i \in 1 .. Cap
        PROVE  (IF Cap - head < i /\ i <= (Cap - head) + (head - 0)
                  THEN data[0 + (i - (Cap - head)) - 1] ELSE out[r][i])
                = (IF i <= Cap - head THEN data[head + i - 1] ELSE data[head + i - 1 - Cap])
    <3>1. CASE i <= Cap - head
      BY <1>4, <3>1, CapAssumption DEF TypeOK, Slots
    <3>2. CASE ~ i <= Cap - head
      <4>1. 0 + (i - (Cap - head)) - 1 = head + i - 1 - Cap
        BY CapAssumption DEF TypeOK, Slots
      <4>2. Cap - head < i /\ i <= (Cap - head) + (head - 0)
        BY <3>2, CapAssumption DEF TypeOK, Slots
      <4> QED BY <3>2, <4>1, <4>2
    <3> QED BY <3>1, <3>2
  <2> QED BY <1>4, <2>1 DEF CopyInto
<1>7. out'[r] = Log
  BY <1>3, <1>4, <1>5, <1>6 DEF Chronological
<1> HIDE DEF Log
<1> QED BY <1>2, <1>4, <1>7 DEF ReadIsConsistent, BL!Answer

-----------------------------------------------------------------------------
(* The inductive invariant *)

(* A writer that changes the buffer is inside, so no reader holds the lock. *)
LEMMA ReaderStepWriter ==
    ASSUME TypeOK, LockInv, ReaderInv, ReadsAreConsistent, NEW w \in Writers,
           PushStep(w) \/ AnnounceLock(w) \/ \E v \in Values : CallPush(w, v)
    PROVE  ReaderInv' /\ ReadsAreConsistent'
<1> USE ProcessAssumption DEF TypeOK, Goto, Procs, buffer, reading
<1>1. UNCHANGED << op, out, cnt, result >>
  BY DEF PushStep, AnnounceLock, CallPush, EnterPush, PushStore, PushAdvance, PushMark, PushUnlock
<1>2. ASSUME NEW r \in Readers
      PROVE  pc'[r] = pc[r] \/ (pc[r] = "wait" /\ pc'[r] = "held")
  BY DEF PushStep, AnnounceLock, CallPush, EnterPush, PushStore, PushAdvance, PushMark, PushUnlock
<1>3. (\A r \in Readers : pc[r] \notin Holding) \/ (UNCHANGED buffer /\ Log' = Log)
  <2>1. CASE PushStore(w) \/ PushAdvance(w) \/ PushMark(w) \/ PushUnlock(w)
    BY <2>1 DEF PushStore, PushAdvance, PushMark, PushUnlock, LockInv, Inside
  <2>2. CASE EnterPush(w) \/ AnnounceLock(w) \/ \E v \in Values : CallPush(w, v)
    BY <2>2, LogFrame DEF EnterPush, AnnounceLock, CallPush
  <2> QED BY <2>1, <2>2 DEF PushStep
<1>4. ReaderInv'
  <2>1. CASE \A r \in Readers : pc[r] \notin Holding
    BY <1>1, <1>2, <2>1 DEF ReaderInv, Holding, ReadOps
  <2>2. CASE UNCHANGED buffer
    BY <1>1, <1>2, <2>2 DEF ReaderInv, ReadOps, Size
  <2> QED BY <1>3, <2>1, <2>2
<1>5. ReadsAreConsistent'
  <2>1. CASE \A r \in Readers : pc[r] \notin Holding
    BY <1>2, <2>1 DEF ReadsAreConsistent, Holding
  <2>2. CASE Log' = Log
    <3> HIDE DEF Log
    <3> QED BY <1>1, <1>2, <2>2 DEF ReadsAreConsistent, BL!Answer
  <2> QED BY <1>3, <2>1, <2>2
<1> QED BY <1>4, <1>5

(* The other readers do not notice what one reader does. *)
LEMMA ReaderFrame ==
    ASSUME TypeOK, ReaderInv, ReadsAreConsistent, NEW r \in Readers,
           UNCHANGED buffer,
           \A p \in Procs : p # r => pc'[p] = pc[p],
           \A q \in Readers : q # r => op'[q] = op[q] /\ out'[q] = out[q] /\ cnt'[q] = cnt[q],
           /\ pc'[r] # "idle" => op'[r] \in ReadOps
           /\ pc'[r] \in {"copyOld", "copyNew"} => op'[r] = "Snapshot"
           /\ pc'[r] # "runlock" => cnt'[r] = 0
           /\ pc'[r] \in {"idle", "wait", "held"} => out'[r] = << >>
           /\ pc'[r] = "copyOld" => Len(out'[r]) = Size
           /\ pc'[r] = "copyNew" => /\ full
                                    /\ Len(out'[r]) = Cap
                                    /\ \A i \in 1 .. Cap - head : out'[r][i] = data[head + i - 1],
           pc'[r] = "runlock" => ReadIsConsistent(r)'
    PROVE  ReaderInv' /\ ReadsAreConsistent'
<1>1. data' = data /\ head' = head /\ full' = full
  BY DEF buffer
<1>2. ReaderInv'
  BY <1>1 DEF ReaderInv, Size, Procs
<1>3. Log' = Log
  BY LogFrame, ProcessAssumption DEF Procs
<1>4. ReadsAreConsistent'
  <2> HIDE DEF Log
  <2> QED BY <1>3 DEF ReadsAreConsistent, ReadIsConsistent, BL!Answer, Procs
<1> QED BY <1>2, <1>4

(* A reader's own steps keep what is known of every reader. *)
LEMMA ReaderStepReader ==
    ASSUME TypeOK, LockInv, ReaderInv, ReadsAreConsistent, NEW r \in Readers,
           ReadStep(r) \/ \E rop \in ReadOps : CallRead(r, rop)
    PROVE  ReaderInv' /\ ReadsAreConsistent'
<1> USE DEF TypeOK, Goto, Procs, buffer
<1>1. ASSUME NEW rop \in ReadOps, CallRead(r, rop) PROVE ReaderInv' /\ ReadsAreConsistent'
  <2>1. pc'[r] \in {"held", "wait"} /\ op'[r] = rop /\ out' = out /\ cnt' = cnt
    BY <1>1 DEF CallRead
  <2>2. out[r] = << >> /\ cnt[r] = 0
    BY <1>1 DEF CallRead, ReaderInv
  <2>3. /\ UNCHANGED buffer
        /\ \A p \in Procs : p # r => pc'[p] = pc[p]
        /\ \A q \in Readers : q # r => op'[q] = op[q]
    BY <1>1 DEF CallRead
  <2> QED BY <2>1, <2>2, <2>3, ReaderFrame
<1>2. CASE ReadLen(r)
  <2>1. pc'[r] = "runlock" /\ op' = op /\ op[r] = "Len"
    BY <1>2 DEF ReadLen
  <2> QED BY <1>2, <2>1, LenIsConsistent, ReaderFrame DEF ReadLen, ReadOps
<1>3. CASE ReadLatest(r)
  <2>1. pc'[r] = "runlock" /\ op' = op /\ op[r] = "Latest"
    BY <1>3 DEF ReadLatest
  <2> QED BY <1>3, <2>1, LatestIsConsistent, ReaderFrame DEF ReadLatest, ReadOps
<1>4. CASE SnapshotMake(r)
  <2>1. pc'[r] = "copyOld" /\ op' = op /\ op[r] = "Snapshot" /\ cnt' = cnt /\ cnt[r] = 0
    BY <1>4 DEF SnapshotMake, ReaderInv
  <2> DEFINE o == [i \in 1 .. Size |-> Zero]
  <2>2. o \in [1 .. Size -> Elements] /\ Size \in Nat /\ out' = [out EXCEPT ![r] = o]
    BY <1>4, CapAssumption DEF SnapshotMake, Size, Slots, Elements
  <2> HIDE DEF o
  <2>3. Len(out'[r]) = Size
    BY <2>2, FunctionIsSeq
  <2>4. /\ UNCHANGED buffer /\ pc' = [pc EXCEPT ![r] = "copyOld"]
    BY <1>4 DEF SnapshotMake
  <2> QED BY <2>1, <2>2, <2>3, <2>4, ReaderFrame DEF ReadOps
<1>5. CASE SnapshotCopyOld(r)
  <2>1. op' = op /\ op[r] = "Snapshot" /\ cnt' = cnt /\ cnt[r] = 0 /\ Len(out[r]) = Size
    BY <1>5 DEF SnapshotCopyOld, ReaderInv
  <2>2. CASE full
    <3> DEFINE o == CopyInto(out[r], 0, head, Cap)
    <3>1. out' = [out EXCEPT ![r] = o] /\ pc' = [pc EXCEPT ![r] = "copyNew"] /\ UNCHANGED buffer
      BY <1>5, <2>2 DEF SnapshotCopyOld
    <3>2. head \in 0 .. Cap /\ 0 \in 0 .. Cap /\ Cap \in head .. Cap
      BY CapAssumption DEF Slots
    <3>3. Len(o) = Cap
      BY <2>1, <2>2, <3>2, CopyIntoType DEF Size
    <3>4. ASSUME NEW i \in 1 .. Cap - head PROVE o[i] = data[head + i - 1]
      <4>1. i \in 1 .. Cap /\ 0 < i /\ i <= 0 + (Cap - head) /\ head + (i - 0) - 1 = head + i - 1
        BY CapAssumption DEF Slots
      <4>2. Len(out[r]) = Cap
        BY <2>1, <2>2 DEF Size
      <4> QED BY <4>1, <4>2 DEF CopyInto
    <3> HIDE DEF o
    <3> QED BY <2>1, <2>2, <3>1, <3>3, <3>4, ReaderFrame DEF ReadOps
  <2>3. CASE ~ full
    <3> DEFINE o == CopyInto(out[r], 0, 0, head)
    <3>1. out' = [out EXCEPT ![r] = o] /\ pc' = [pc EXCEPT ![r] = "runlock"] /\ UNCHANGED buffer
      BY <1>5, <2>3 DEF SnapshotCopyOld
    <3>2. ReadIsConsistent(r)'
      BY <1>5, <2>3, PartialCopyIsConsistent
    <3> HIDE DEF o
    <3> QED BY <2>1, <3>1, <3>2, ReaderFrame DEF ReadOps
  <2> QED BY <2>2, <2>3
<1>6. CASE SnapshotCopyNew(r)
  <2> DEFINE o == CopyInto(out[r], Cap - head, 0, head)
  <2>1. op' = op /\ op[r] = "Snapshot" /\ cnt' = cnt
    BY <1>6 DEF SnapshotCopyNew, ReaderInv
  <2>2. out' = [out EXCEPT ![r] = o] /\ pc' = [pc EXCEPT ![r] = "runlock"] /\ UNCHANGED buffer
    BY <1>6 DEF SnapshotCopyNew
  <2>3. ReadIsConsistent(r)'
    BY <1>6, FullCopyIsConsistent
  <2> HIDE DEF o
  <2> QED BY <2>1, <2>2, <2>3, ReaderFrame DEF ReadOps
<1>7. CASE ReadReturn(r)
  <2>1. pc'[r] = "idle" /\ out'[r] = << >> /\ cnt'[r] = 0
    BY <1>7 DEF ReadReturn
  <2> QED BY <1>7, <2>1, ReaderFrame DEF ReadReturn
<1> QED BY <1>1, <1>2, <1>3, <1>4, <1>5, <1>6, <1>7 DEF ReadStep

(* A result is only ever replaced by what a reader was about to return. *)
LEMMA ResultStep ==
    ASSUME IndInv, Next
    PROVE  \/ UNCHANGED result
           \/ \E r \in Readers, rop \in ReadOps :
                 result' = [result EXCEPT ![r] = BL!Answer(rop, Log)] /\ Log' = Log
<1> USE DEF IndInv
<1>1. ASSUME NEW w \in Writers,
             PushStep(w) \/ AnnounceLock(w) \/ \E v \in Values : CallPush(w, v)
      PROVE  UNCHANGED result
  BY <1>1 DEF PushStep, AnnounceLock, CallPush, EnterPush, PushStore, PushAdvance, PushMark,
              PushUnlock, reading
<1>2. ASSUME NEW r \in Readers, NEW rop \in ReadOps, CallRead(r, rop) PROVE UNCHANGED result
  BY <1>2 DEF CallRead
<1>3. ASSUME NEW r \in Readers, ReadReturn(r)
      PROVE  /\ op[r] \in ReadOps
             /\ result' = [result EXCEPT ![r] = BL!Answer(op[r], Log)]
             /\ Log' = Log
  <2>1. op[r] \in ReadOps
    BY <1>3 DEF ReadReturn, ReaderInv
  <2>2. [op |-> op[r], items |-> out[r], n |-> cnt[r]] = BL!Answer(op[r], Log)
    BY <1>3 DEF ReadReturn, ReadsAreConsistent
  <2>3. Log' = Log
    BY <1>3, LogFrame, ProcessAssumption DEF ReadReturn, TypeOK, Goto, Procs
  <2> HIDE DEF Log
  <2> QED BY <1>3, <2>1, <2>2, <2>3 DEF ReadReturn
<1>4. ASSUME NEW r \in Readers,
             ReadLen(r) \/ ReadLatest(r) \/ SnapshotMake(r) \/ SnapshotCopyOld(r) \/ SnapshotCopyNew(r)
      PROVE  UNCHANGED result
  BY <1>4 DEF ReadLen, ReadLatest, SnapshotMake, SnapshotCopyOld, SnapshotCopyNew
<1> HIDE DEF Log
<1> QED BY <1>1, <1>2, <1>3, <1>4 DEF Next, ReadStep

(* An answer from a log of pushed values has only pushed values. *)
LEMMA AnswerValues ==
    ASSUME NEW s \in Seq(Values), NEW rop \in ReadOps
    PROVE  BL!Answer(rop, s).items \in Seq(Values)
<1>1. CASE rop = "Snapshot"
  BY <1>1 DEF BL!Answer
<1>2. CASE rop = "Latest"
  <2>1. s # << >> => s[Len(s)] \in Values
    BY LenProperties, EmptySeq
  <2>2. << >> \in Seq(Values)
    BY EmptySeq
  <2> QED BY <1>2, <2>1, <2>2 DEF BL!Answer
<1>3. CASE rop = "Len"
  BY <1>3 DEF BL!Answer
<1> QED BY <1>1, <1>2, <1>3 DEF ReadOps

(* Every step keeps the zero value out of the answers. *)
LEMMA OnlyPushedValuesStep == IndInv /\ [Next]_vars => OnlyPushedValues'
<1> SUFFICES ASSUME IndInv, [Next]_vars PROVE OnlyPushedValues'
  OBVIOUS
<1>1. CASE UNCHANGED result
  BY <1>1 DEF IndInv, OnlyPushedValues
<1>2. ASSUME NEW r \in Readers, NEW rop \in ReadOps,
             result' = [result EXCEPT ![r] = BL!Answer(rop, Log)]
      PROVE  OnlyPushedValues'
  <2>1. Log \in Seq(Values)
    BY LogType, SeqOfValues DEF IndInv, LogInv
  <2>2. BL!Answer(rop, Log).items \in Seq(Values)
    BY <2>1, AnswerValues
  <2> DEFINE a == BL!Answer(rop, Log)
  <2>3. result'[r] = a /\ \A q \in Readers : q # r => result'[q] = result[q]
    BY <1>2 DEF IndInv, TypeOK
  <2>4. \A i \in 1 .. Len(a.items) : a.items[i] \in Values
    BY <2>2, ElementOfSeq
  <2> HIDE DEF a
  <2> QED BY <2>3, <2>4 DEF IndInv, OnlyPushedValues
<1> QED BY <1>1, <1>2, ResultStep DEF vars

(* A new buffer is the empty log. *)
LEMMA LogInit == Init => Log = << >>
<1> SUFFICES ASSUME Init PROVE Log = << >>
  OBVIOUS
<1>1. ~ Stored /\ ~ Advanced /\ full = FALSE /\ head = 0
  BY DEF Init, Stored, Advanced, Procs
<1>2. data \in [Slots -> Elements] /\ head \in Slots /\ full \in BOOLEAN
  BY TypeInit DEF TypeOK
<1>3. Log = Chronological(data, head, full)
  BY <1>1, <1>2, LogAtRest
<1>4. Log \in Seq(Elements) /\ Len(Log) = IF full THEN Cap ELSE head
  BY <1>2, <1>3, ChronologicalType
<1> HIDE DEF Log
<1> QED BY <1>1, <1>4, EmptySeq

(* The inductive invariant holds of a new buffer. *)
LEMMA IndInvInit == Init => IndInv
<1> SUFFICES ASSUME Init PROVE IndInv
  OBVIOUS
<1>1. TypeOK
  BY TypeInit
<1>2. LockInv
  BY ProcessAssumption DEF Init, LockInv, Inside, Holding, Procs
<1>3. LogInv
  <2>1. Len(Log) = 0
    BY LogInit, EmptySeq
  <2> HIDE DEF Log
  <2> QED BY <2>1 DEF LogInv, Init, Procs
<1>4. ReaderInv /\ ReadsAreConsistent
  BY DEF Init, ReaderInv, ReadsAreConsistent, Procs
<1>5. OnlyPushedValues
  BY EmptySeq DEF Init, OnlyPushedValues, NoAnswer
<1> QED BY <1>1, <1>2, <1>3, <1>4, <1>5 DEF IndInv

(* Every step keeps the inductive invariant. *)
LEMMA IndInvStep == IndInv /\ [Next]_vars => IndInv'
<1> SUFFICES ASSUME IndInv, [Next]_vars PROVE IndInv'
  OBVIOUS
<1>1. TypeOK' /\ LockInv' /\ LogInv' /\ OnlyPushedValues'
  BY TypeStep, LockStep, LogInvStep, OnlyPushedValuesStep DEF IndInv
<1>2. ReaderInv' /\ ReadsAreConsistent'
  <2>1. CASE UNCHANGED vars
    <3>1. Log' = Log
      BY <2>1, LogFrame DEF vars, buffer
    <3>2. UNCHANGED << data, head, full, pc, op, out, cnt >>
      BY <2>1 DEF vars
    <3>3. ReaderInv'
      BY <3>2 DEF IndInv, ReaderInv, Size
    <3> HIDE DEF Log
    <3>4. ReadsAreConsistent'
      BY <3>1, <3>2 DEF IndInv, ReadsAreConsistent, BL!Answer
    <3> QED BY <3>3, <3>4
  <2>2. CASE Next
    BY <2>2, ReaderStepWriter, ReaderStepReader DEF IndInv, Next
  <2> QED BY <2>1, <2>2
<1> QED BY <1>1, <1>2 DEF IndInv

(* Everything RingBuffer.tla says about ringbuffer.go's states, for every   *)
(* capacity and any number of goroutines: exclusion, only pushed values in  *)
(* the log, no torn read.                                                   *)
THEOREM InductiveInvariant == Spec => []IndInv
BY IndInvInit, IndInvStep, PTL DEF Spec

(* A Snapshot, Latest or Len about to return holds what the buffer contains *)
(* at that instant, whatever the writers did while it was copying.          *)
THEOREM ConsistentReads == Spec => []ReadsAreConsistent
<1>1. IndInv => ReadsAreConsistent
  BY DEF IndInv
<1> QED BY <1>1, InductiveInvariant, PTL

(* No read of ringbuffer.go returns a slot that no Push has filled.         *)
THEOREM NoZeroValues == Spec => []OnlyPushedValues
<1>1. IndInv => OnlyPushedValues
  BY DEF IndInv
<1> QED BY <1>1, InductiveInvariant, PTL

-----------------------------------------------------------------------------
(* Refinement *)

(* A new buffer is an initial state of BoundedLog. *)
LEMMA RefinementInit == Init => BL!Init
<1> SUFFICES ASSUME Init PROVE BL!Init
  OBVIOUS
<1>1. result = [r \in Readers |-> BL!NoAnswer]
  BY DEF Init, NoAnswer, BL!NoAnswer
<1> QED BY <1>1, LogInit DEF BL!Init

(* Every step is a push or a read of BoundedLog, or changes nothing it      *)
(* sees.                                                                    *)
LEMMA RefinementStep == IndInv /\ [Next]_vars => [BL!Next]_(BL!vars)
<1> SUFFICES ASSUME IndInv, [Next]_vars PROVE [BL!Next]_(BL!vars)
  OBVIOUS
<1>1. CASE UNCHANGED vars
  <2>1. Log' = Log /\ UNCHANGED result
    BY <1>1, LogFrame DEF vars, buffer
  <2> QED BY <2>1 DEF BL!vars
<1>2. ASSUME NEW w \in Writers, PushStore(w), Log' = BL!BoundedAppend(Log, val[w])
      PROVE  BL!Next
  <2>1. val[w] \in Values /\ UNCHANGED result
    BY <1>2 DEF PushStore, IndInv, LogInv, reading
  <2>2. BL!Push(val[w])
    BY <1>2, <2>1 DEF BL!Push
  <2> QED BY <2>1, <2>2 DEF BL!Next
<1>3. CASE Next /\ Log' = Log
  <2>1. CASE UNCHANGED result
    BY <1>3, <2>1 DEF BL!vars
  <2>2. ASSUME NEW r \in Readers, NEW rop \in ReadOps,
               result' = [result EXCEPT ![r] = BL!Answer(rop, Log)]
        PROVE  BL!Next
    <3>1. BL!Read(r, rop)
      BY <1>3, <2>2 DEF BL!Read
    <3>2. rop \in BL!ReadOps
      BY DEF ReadOps, BL!ReadOps
    <3> QED BY <3>1, <3>2 DEF BL!Next
  <2> QED BY <1>3, <2>1, <2>2, ResultStep
<1> QED BY <1>1, <1>2, <1>3, LogStep DEF IndInv

(* ringbuffer.go implements the bounded log: its slots, indices and locking *)
(* are indistinguishable, to any number of concurrent callers, from a       *)
(* sequence of the newest cap values read and appended to atomically.       *)
THEOREM RingBufferImplementsBoundedLog == Spec => ImplementsBoundedLog
BY RefinementInit, RefinementStep, InductiveInvariant, PTL
   DEF Spec, ImplementsBoundedLog, BL!Spec
=============================================================================
