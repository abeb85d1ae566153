----------------------------- MODULE BoundedLog -----------------------------
(***************************************************************************)
(* What a metrics.RingBuffer promises to the goroutines that share it, with *)
(* no mention of slots, indices or locks: the buffer is the sequence of the *)
(* newest Cap pushed values, oldest first; a push appends and, when the     *)
(* sequence is full, forgets the oldest; a read answers from the sequence   *)
(* as it is at one instant.  RingBuffer.tla is shown to implement this.     *)
(***************************************************************************)
EXTENDS Integers, Sequences

CONSTANTS
    Cap,        \* capacity of the buffer (sampler.history_capacity), positive
    Values,     \* the samples that can be pushed
    Readers     \* the goroutines that read

VARIABLES
    log,        \* the newest values, oldest first
    result      \* result[r]: the answer reader r was last given

ReadOps == {"Snapshot", "Latest", "Len"}

(* Append v to s and forget the oldest element of a full s. *)
BoundedAppend(s, v) == IF Len(s) < Cap THEN Append(s, v) ELSE Append(Tail(s), v)

(* The answer of a read made when the buffer holds s: Snapshot gives every  *)
(* value, Latest the newest (nothing, Go's second result false, when there  *)
(* is none), Len the number of values.                                      *)
Answer(rop, s) ==
    [op    |-> rop,
     items |-> CASE rop = "Snapshot" -> s
                 [] rop = "Latest"   -> IF s = << >> THEN << >> ELSE << s[Len(s)] >>
                 [] rop = "Len"      -> << >>,
     n     |-> IF rop = "Len" THEN Len(s) ELSE 0]

NoAnswer == [op |-> "none", items |-> << >>, n |-> 0]

Init == /\ log = << >>
        /\ result = [r \in Readers |-> NoAnswer]

Push(v) == /\ log' = BoundedAppend(log, v)
           /\ UNCHANGED result

Read(r, rop) == /\ result' = [result EXCEPT ![r] = Answer(rop, log)]
                /\ UNCHANGED log

Next == \/ \E v \in Values : Push(v)
        \/ \E r \in Readers, rop \in ReadOps : Read(r, rop)

vars == << log, result >>

Spec == Init /\ [][Next]_vars
=============================================================================
