----------------------------- MODULE PeakProofs -----------------------------
(***************************************************************************)
(* Proofs about CpuPeak and CombinedPeak, for any clients, loads, windows   *)
(* and capacity: what a peak answer of the cpu module says about its        *)
(* window, though requests store into arrays that published samples and     *)
(* other requests share; and what the scans of the memory and the gpu       *)
(* module's Peak compute.                                                   *)
(*                                                                         *)
(* The invariants are stated of a request r, an answer a, the samples S and *)
(* the arrays C, so that a step is a fact about their old and new values.   *)
(***************************************************************************)
EXTENDS CombinedPeak, Recursion, SequenceTheorems, TLAPS

-----------------------------------------------------------------------------
(* The samples and their arrays *)

CpuSamples == [ts : Nat, overall : Nat, per : Seq(Nat)]

(* What has been measured on core k. *)
Measured(k, S) == {S[j].per[k] : j \in {j \in 1 .. Len(S) : k <= Len(S[j].per)}}

(* An array has its sample's width, and holds for each core a load that was *)
(* measured on it and is not below the sample's own.                        *)
HeapOK(S, C) ==
    /\ S \in Seq(CpuSamples) /\ C \in Seq(Seq(Nat)) /\ Len(C) = Len(S)
    /\ \A i \in 1 .. Len(S) :
          /\ Len(C[i]) = Len(S[i].per)
          /\ \A k \in 1 .. Len(C[i]) : C[i][k] \in Measured(k, S) /\ C[i][k] >= S[i].per[k]

(* T and D are later values of the samples and their arrays. *)
Later(S, C, T, D) ==
    /\ Len(S) <= Len(T)
    /\ \A i \in 1 .. Len(S) : T[i] = S[i] /\ Len(D[i]) = Len(C[i])

-----------------------------------------------------------------------------
(* A request *)

Requests == [at : {"idle", "snapshot", "scan", "merge", "store"}, cutoff : Int, snap : Seq(Nat),
             j : Nat, seed : Nat, own : Seq(Nat), ov : Nat, core : Nat, v : Nat, solo : BOOLEAN]

Scanning(r) == r.at \in {"scan", "merge", "store"}
Merging(r) == r.at \in {"merge", "store"}

(* The samples of the window among the snapshot's from position n + 1 on. *)
InWindow(r, n, S) == {r.snap[k] : k \in {k \in n + 1 .. Len(r.snap) : S[r.snap[k]].ts >= r.cutoff}}

(* The samples that have been taken into account for the overall load. *)
Seen(r, S) == InWindow(r, IF Merging(r) THEN r.j - 1 ELSE r.j, S)

PeakArray(r, C) == IF r.own # << >> THEN r.own ELSE C[r.seed]

PlaceOK(r, S) ==
    /\ \A k \in 1 .. Len(r.snap) : r.snap[k] \in 1 .. Len(S)
    /\ r.j <= Len(r.snap)
    /\ Merging(r) => r.j > 0 /\ r.seed # 0 /\ r.core > 0 /\ S[r.snap[r.j]].ts >= r.cutoff

(* The seed is in the window, and ov is the largest load seen. *)
OverallOK(r, S) ==
    /\ r.seed = 0 => Seen(r, S) = {}
    /\ r.seed # 0 => /\ r.seed \in Seen(r, S)
                     /\ \E i \in Seen(r, S) : r.ov = S[i].overall
                     /\ \A i \in Seen(r, S) : S[i].overall <= r.ov

(* What it holds and is about to store was measured, and what it is about   *)
(* to store into a sample's array is not below the sample's own.            *)
HonestOK(r, S, C) ==
    /\ r.seed = 0 => r.own = << >>
    /\ \A k \in 1 .. Len(r.own) : r.own[k] \in Measured(k, S)
    /\ r.at = "store" =>
          /\ r.core <= Len(PeakArray(r, C)) /\ r.v \in Measured(r.core, S)
          /\ r.own = << >> => r.v >= S[r.seed].per[r.core]

Uniform(W, S) == \A i, j \in W : Len(S[i].per) = Len(S[j].per)

(* Alone, and with one width all over the window, it has kept to the seed's *)
(* array, which is not below any sample merged so far.                      *)
CoverOK(r, S, C) ==
    (r.solo /\ r.seed # 0 /\ Uniform(Seen(r, S), S)) =>
        /\ r.own = << >>
        /\ \A i \in InWindow(r, r.j, S) : \A k \in 1 .. Len(S[i].per) : C[r.seed][k] >= S[i].per[k]
        /\ Merging(r) => \A k \in 1 .. Len(S[r.snap[r.j]].per) :
                            k < r.core => C[r.seed][k] >= S[r.snap[r.j]].per[k]
        /\ r.at = "store" =>
              /\ r.v > C[r.seed][r.core]
              /\ r.core <= Len(S[r.snap[r.j]].per) => r.v >= S[r.snap[r.j]].per[r.core]

RequestOK(r, S, C) ==
    /\ r \in Requests
    /\ r.at = "snapshot" => r.seed = 0 /\ r.own = << >>
    /\ Scanning(r) => PlaceOK(r, S) /\ OverallOK(r, S) /\ HonestOK(r, S, C) /\ CoverOK(r, S, C)

-----------------------------------------------------------------------------
(* An answer *)

Replies == [code : Nat, present : BOOLEAN, ov : Nat, cores : Seq(Nat), win : SUBSET Nat, solo : BOOLEAN]

ReplyOK(a, S) ==
    /\ a \in Replies
    /\ \A i \in a.win : i \in 1 .. Len(S)
    /\ a.present <=> a.win # {}
    /\ a.present => /\ \E i \in a.win : a.ov = S[i].overall
                    /\ \A i \in a.win : S[i].overall <= a.ov
    /\ \A k \in 1 .. Len(a.cores) : a.cores[k] \in Measured(k, S)
    /\ (a.present /\ a.solo /\ Uniform(a.win, S)) =>
          \A i \in a.win : /\ Len(a.cores) >= Len(S[i].per)
                           /\ \A k \in 1 .. Len(S[i].per) : a.cores[k] >= S[i].per[k]

(* A request that has been alone still is. *)
SoloInv == \A c \in Clients : req[c].at # "idle" /\ req[c].solo => \A b \in Clients \ {c} : req[b].at = "idle"

PeakInv ==
    /\ HeapOK(samples, cell)
    /\ req \in [Clients -> Requests] /\ reply \in [Clients -> Replies]
    /\ \A c \in Clients : RequestOK(req[c], samples, cell) /\ ReplyOK(reply[c], samples)
    /\ SoloInv

-----------------------------------------------------------------------------
(* Lemmas about the arrays *)

(* What has been measured stays so. *)
LEMMA MeasuredGrows ==
    ASSUME NEW S, NEW T, S \in Seq(CpuSamples), T \in Seq(CpuSamples), Len(S) <= Len(T),
           \A i \in 1 .. Len(S) : T[i] = S[i],
           NEW k, NEW v \in Measured(k, S)
    PROVE  v \in Measured(k, T)
<1>1. PICK j \in 1 .. Len(S) : k <= Len(S[j].per) /\ v = S[j].per[k]
    BY DEF Measured
<1>2. j \in 1 .. Len(T) /\ T[j] = S[j]
    BY LenProperties
<1> QED BY <1>1, <1>2 DEF Measured

LEMMA SampleFields ==
    ASSUME NEW S, NEW C, HeapOK(S, C), NEW i \in 1 .. Len(S)
    PROVE  /\ S[i] \in CpuSamples /\ S[i].ts \in Nat /\ S[i].overall \in Nat
           /\ S[i].per \in Seq(Nat) /\ Len(S[i].per) \in Nat
           /\ C[i] \in Seq(Nat) /\ Len(C[i]) \in Nat /\ Len(C[i]) = Len(S[i].per)
           /\ \A k \in 1 .. Len(C[i]) :
                 C[i][k] \in Nat /\ S[i].per[k] \in Nat /\ C[i][k] \in Measured(k, S) /\ C[i][k] >= S[i].per[k]
<1>1. S[i] \in CpuSamples /\ C[i] \in Seq(Nat)
    BY LenProperties, ElementOfSeq DEF HeapOK
<1>2. S[i].ts \in Nat /\ S[i].overall \in Nat /\ S[i].per \in Seq(Nat)
    BY <1>1 DEF CpuSamples
<1>3. Len(C[i]) = Len(S[i].per)
    BY DEF HeapOK
<1>4. \A k \in 1 .. Len(C[i]) : C[i][k] \in Measured(k, S) /\ C[i][k] >= S[i].per[k]
    BY DEF HeapOK
<1>5. \A k \in 1 .. Len(C[i]) : C[i][k] \in Nat /\ S[i].per[k] \in Nat
    BY <1>1, <1>2, <1>3, ElementOfSeq
<1> QED BY <1>1, <1>2, <1>3, <1>4, <1>5, LenProperties

(* collectSample publishes a sample and its array. *)
LEMMA HeapAppend ==
    ASSUME NEW S, NEW C, HeapOK(S, C), NEW s \in CpuSamples
    PROVE  /\ HeapOK(Append(S, s), Append(C, s.per))
           /\ Later(S, C, Append(S, s), Append(C, s.per))
           /\ \A i \in 1 .. Len(S) : Append(C, s.per)[i] = C[i]
<1> DEFINE T == Append(S, s)
           D == Append(C, s.per)
<1>1. s.per \in Seq(Nat) /\ Len(s.per) \in Nat
    BY LenProperties DEF CpuSamples
<1>2. S \in Seq(CpuSamples) /\ C \in Seq(Seq(Nat)) /\ Len(C) = Len(S) /\ Len(S) \in Nat
    BY LenProperties DEF HeapOK
<1>3. /\ T \in Seq(CpuSamples) /\ D \in Seq(Seq(Nat)) /\ Len(T) = Len(S) + 1 /\ Len(D) = Len(S) + 1
      /\ \A i \in 1 .. Len(S) : T[i] = S[i] /\ D[i] = C[i]
      /\ T[Len(S) + 1] = s /\ D[Len(S) + 1] = s.per
    <2>1. /\ T \in Seq(CpuSamples) /\ Len(T) = Len(S) + 1 /\ T[Len(S) + 1] = s
          /\ \A i \in 1 .. Len(S) : T[i] = S[i]
        BY <1>2, AppendProperties
    <2>2. /\ D \in Seq(Seq(Nat)) /\ Len(D) = Len(C) + 1 /\ D[Len(C) + 1] = s.per
          /\ \A i \in 1 .. Len(C) : D[i] = C[i]
        BY <1>1, <1>2, AppendProperties
    <2> QED BY <1>2, <2>1, <2>2
<1> HIDE DEF T, D
<1>4. Later(S, C, T, D)
    BY <1>2, <1>3 DEF Later
<1>5. ASSUME NEW i \in 1 .. Len(T)
      PROVE  /\ Len(D[i]) = Len(T[i].per)
             /\ \A k \in 1 .. Len(D[i]) : D[i][k] \in Measured(k, T) /\ D[i][k] >= T[i].per[k]
    <2>1. CASE i \in 1 .. Len(S)
        <3>1. T[i] = S[i] /\ D[i] = C[i]
            BY <1>3, <2>1
        <3>2. \A k \in 1 .. Len(C[i]) : C[i][k] \in Measured(k, S) /\ C[i][k] >= S[i].per[k]
            BY <2>1, SampleFields
        <3>3. ASSUME NEW k \in 1 .. Len(C[i])
              PROVE  C[i][k] \in Measured(k, T)
            <4>1. C[i][k] \in Measured(k, S)
                BY <3>2
            <4>2. Len(S) <= Len(T)
                BY <1>2, <1>3
            <4> QED BY <4>1, <4>2, <1>2, <1>3, MeasuredGrows
        <3>4. Len(C[i]) = Len(S[i].per)
            BY <2>1, SampleFields
        <3> QED BY <3>1, <3>2, <3>3, <3>4
    <2>2. CASE i = Len(S) + 1
        <3>1. T[i] = s /\ D[i] = s.per
            BY <1>3, <2>2
        <3>2. ASSUME NEW k \in 1 .. Len(s.per)
              PROVE  s.per[k] \in Measured(k, T) /\ s.per[k] >= s.per[k]
            <4>1. s.per[k] \in Nat
                BY <1>1, ElementOfSeq
            <4>2. i \in 1 .. Len(T) /\ k <= Len(T[i].per) /\ s.per[k] = T[i].per[k]
                BY <3>1, <1>1
            <4>3. s.per[k] \in Measured(k, T)
                BY <4>2 DEF Measured
            <4> QED BY <4>1, <4>3
        <3> QED BY <3>1, <3>2
    <2> QED BY <2>1, <2>2, <1>2, <1>3
<1>6. HeapOK(T, D)
    BY <1>2, <1>3, <1>5 DEF HeapOK
<1> QED BY <1>3, <1>4, <1>6 DEF T, D

(* The assignment peak.PerCorePercent[k] = v, to the array of sample n. *)
Stored(C, D, n, k, v) == D = [C EXCEPT ![n][k] = v]

(* It stores a load measured on the core, not below the sample's own. *)
Storable(S, C, n, k, v) ==
    n \in 1 .. Len(S) /\ k \in 1 .. Len(C[n]) /\ v \in Nat /\ v \in Measured(k, S) /\ v >= S[n].per[k]

LEMMA HeapStore ==
    ASSUME NEW S, NEW C, HeapOK(S, C), NEW n, NEW k, NEW v, Storable(S, C, n, k, v),
           NEW D, Stored(C, D, n, k, v)
    PROVE  /\ HeapOK(S, D) /\ Later(S, C, S, D) /\ Len(D[n]) = Len(C[n])
           /\ D[n][k] = v /\ \A h \in 1 .. Len(C[n]) : h # k => D[n][h] = C[n][h]
<1> DEFINE A == [C[n] EXCEPT ![k] = v]
<1>0. n \in 1 .. Len(S) /\ k \in 1 .. Len(C[n]) /\ v \in Nat /\ v \in Measured(k, S) /\ v >= S[n].per[k]
    BY DEF Storable
<1>1. S \in Seq(CpuSamples) /\ C \in Seq(Seq(Nat)) /\ Len(C) = Len(S) /\ Len(S) \in Nat
    BY LenProperties DEF HeapOK
<1>2. C[n] \in Seq(Nat) /\ Len(C[n]) = Len(S[n].per)
    BY <1>0, SampleFields
<1>3. /\ A \in Seq(Nat) /\ Len(A) = Len(C[n]) /\ A[k] = v
      /\ \A h \in 1 .. Len(C[n]) : h # k => A[h] = C[n][h]
    BY <1>0, <1>2, ExceptSeq
<1> HIDE DEF A
<1>4. D \in Seq(Seq(Nat)) /\ Len(D) = Len(C) /\ D[n] = A /\ \A i \in 1 .. Len(C) : i # n => D[i] = C[i]
    <2>1. D = [C EXCEPT ![n] = A]
        BY DEF A, Stored
    <2> QED BY <1>0, <1>1, <1>3, <2>1, ExceptSeq
<1>6. ASSUME NEW i \in 1 .. Len(S)
      PROVE  /\ Len(D[i]) = Len(S[i].per)
             /\ \A h \in 1 .. Len(D[i]) : D[i][h] \in Measured(h, S) /\ D[i][h] >= S[i].per[h]
    <2>1. /\ Len(C[i]) = Len(S[i].per)
          /\ \A h \in 1 .. Len(C[i]) : C[i][h] \in Measured(h, S) /\ C[i][h] >= S[i].per[h]
        BY SampleFields
    <2> QED BY <2>1, <1>0, <1>1, <1>2, <1>3, <1>4
<1>7. HeapOK(S, D)
    BY <1>1, <1>4, <1>6 DEF HeapOK
<1>8. Later(S, C, S, D)
    <2>1. \A i \in 1 .. Len(S) : Len(D[i]) = Len(C[i])
        BY <1>0, <1>1, <1>3, <1>4
    <2> QED BY <1>1, <2>1 DEF Later
<1> QED BY <1>3, <1>4, <1>7, <1>8

-----------------------------------------------------------------------------
(* Lemmas about a request *)

LEMMA RequestFields ==
    ASSUME NEW r \in Requests
    PROVE  /\ r.at \in {"idle", "snapshot", "scan", "merge", "store"} /\ r.cutoff \in Int
           /\ r.snap \in Seq(Nat) /\ Len(r.snap) \in Nat /\ r.j \in Nat /\ r.seed \in Nat
           /\ r.own \in Seq(Nat) /\ Len(r.own) \in Nat /\ r.ov \in Nat /\ r.core \in Nat /\ r.v \in Nat
           /\ r.solo \in BOOLEAN
<1>1. /\ r.at \in {"idle", "snapshot", "scan", "merge", "store"} /\ r.cutoff \in Int
      /\ r.snap \in Seq(Nat) /\ r.j \in Nat /\ r.seed \in Nat
      /\ r.own \in Seq(Nat) /\ r.ov \in Nat /\ r.core \in Nat /\ r.v \in Nat
      /\ r.solo \in BOOLEAN
    BY DEF Requests
<1> QED BY <1>1, LenProperties

(* Position n of the snapshot is merged, or skipped. *)
LEMMA WindowStep ==
    ASSUME NEW S, NEW r \in Requests, NEW n \in 1 .. Len(r.snap)
    PROVE  InWindow(r, n - 1, S) =
              InWindow(r, n, S) \cup (IF S[r.snap[n]].ts >= r.cutoff THEN {r.snap[n]} ELSE {})
<1>1. Len(r.snap) \in Nat
    BY RequestFields
<1>2. (n - 1) + 1 .. Len(r.snap) = {n} \cup (n + 1 .. Len(r.snap))
    BY <1>1
<1> QED BY <1>2 DEF InWindow

(* The window's samples are samples. *)
LEMMA WindowRange ==
    ASSUME NEW S, NEW r \in Requests, PlaceOK(r, S), NEW n \in Nat
    PROVE  InWindow(r, n, S) \subseteq 1 .. Len(S)
<1>1. Len(r.snap) \in Nat
    BY RequestFields
<1>2. \A k \in n + 1 .. Len(r.snap) : r.snap[k] \in 1 .. Len(S)
    BY <1>1 DEF PlaceOK
<1> QED BY <1>2 DEF InWindow

LEMMA SeenRange ==
    ASSUME NEW S, NEW r \in Requests, PlaceOK(r, S)
    PROVE  /\ Seen(r, S) \subseteq 1 .. Len(S) /\ InWindow(r, r.j, S) \subseteq Seen(r, S)
           /\ ~ Merging(r) => Seen(r, S) = InWindow(r, r.j, S)
           /\ Merging(r) => /\ r.j \in 1 .. Len(r.snap) /\ r.snap[r.j] \in 1 .. Len(S)
                            /\ Seen(r, S) = InWindow(r, r.j, S) \cup {r.snap[r.j]}
<1>1. r.j \in Nat /\ Len(r.snap) \in Nat
    BY RequestFields
<1>2. CASE ~ Merging(r)
    BY <1>1, <1>2, WindowRange DEF Seen
<1>3. CASE Merging(r)
    <2>1. r.j \in 1 .. Len(r.snap) /\ S[r.snap[r.j]].ts >= r.cutoff
        BY <1>1, <1>3 DEF PlaceOK
    <2>2. r.snap[r.j] \in 1 .. Len(S)
        BY <2>1 DEF PlaceOK
    <2>3. InWindow(r, r.j - 1, S) = InWindow(r, r.j, S) \cup {r.snap[r.j]}
        BY <2>1, WindowStep
    <2>4. r.j - 1 \in Nat
        BY <1>1, <2>1
    <2> QED BY <1>3, <2>1, <2>2, <2>3, <2>4, WindowRange DEF Seen
<1> QED BY <1>2, <1>3

(* The facts about a request outlive samples that are published and, unless *)
(* it is alone, stores of others.                                           *)
LEMMA RequestLater ==
    ASSUME NEW S, NEW C, NEW T, NEW D, HeapOK(S, C), HeapOK(T, D), Later(S, C, T, D),
           NEW r, RequestOK(r, S, C),
           Scanning(r) /\ r.solo => \A i \in 1 .. Len(S) : D[i] = C[i]
    PROVE  RequestOK(r, T, D)
<1>1. r \in Requests /\ (r.at = "snapshot" => r.seed = 0 /\ r.own = << >>)
    BY DEF RequestOK
<1>2. SUFFICES ASSUME Scanning(r)
               PROVE  PlaceOK(r, T) /\ OverallOK(r, T) /\ HonestOK(r, T, D) /\ CoverOK(r, T, D)
    BY <1>1 DEF RequestOK
<1>3. PlaceOK(r, S) /\ OverallOK(r, S) /\ HonestOK(r, S, C) /\ CoverOK(r, S, C)
    BY <1>2 DEF RequestOK
<1>4. /\ S \in Seq(CpuSamples) /\ T \in Seq(CpuSamples) /\ Len(S) \in Nat /\ Len(T) \in Nat /\ Len(S) <= Len(T)
      /\ \A i \in 1 .. Len(S) : i \in 1 .. Len(T) /\ T[i] = S[i] /\ Len(D[i]) = Len(C[i])
    <2>1. S \in Seq(CpuSamples) /\ T \in Seq(CpuSamples) /\ Len(S) \in Nat /\ Len(T) \in Nat
        BY LenProperties DEF HeapOK
    <2> QED BY <2>1 DEF Later
<1>5. \A k, v : v \in Measured(k, S) => v \in Measured(k, T)
    BY <1>4, MeasuredGrows
<1>6. r.j \in Nat /\ Len(r.snap) \in Nat /\ r.seed \in Nat /\ r.core \in Nat
    BY <1>1, RequestFields
<1>7. ASSUME NEW n \in Nat
      PROVE  InWindow(r, n, T) = InWindow(r, n, S)
    <2>1. \A k \in n + 1 .. Len(r.snap) : T[r.snap[k]] = S[r.snap[k]]
        BY <1>3, <1>4, <1>6 DEF PlaceOK
    <2> QED BY <2>1 DEF InWindow
<1>8. Seen(r, T) = Seen(r, S) /\ InWindow(r, r.j, T) = InWindow(r, r.j, S)
    <2>1. Merging(r) => r.j - 1 \in Nat
        BY <1>3, <1>6 DEF PlaceOK
    <2> QED BY <1>6, <1>7, <2>1 DEF Seen
<1>9. /\ \A i \in Seen(r, S) : i \in 1 .. Len(S) /\ T[i] = S[i]
      /\ \A i \in InWindow(r, r.j, S) : T[i] = S[i]
      /\ Merging(r) => r.snap[r.j] \in 1 .. Len(S) /\ T[r.snap[r.j]] = S[r.snap[r.j]]
    BY <1>1, <1>3, <1>4, SeenRange
<1>10. r.seed # 0 => r.seed \in 1 .. Len(S) /\ T[r.seed] = S[r.seed] /\ Len(D[r.seed]) = Len(C[r.seed])
    BY <1>3, <1>4, <1>9 DEF OverallOK
<1>11. PlaceOK(r, T)
    BY <1>3, <1>4, <1>9 DEF PlaceOK
<1>12. OverallOK(r, T)
    <2>1. CASE r.seed = 0
        BY <1>3, <1>8, <2>1 DEF OverallOK
    <2>2. CASE r.seed # 0
        <3>1. /\ r.seed \in Seen(r, S)
              /\ \E i \in Seen(r, S) : r.ov = S[i].overall
              /\ \A i \in Seen(r, S) : S[i].overall <= r.ov
            BY <1>3, <2>2 DEF OverallOK
        <3> QED BY <2>2, <3>1, <1>8, <1>9 DEF OverallOK
    <2> QED BY <2>1, <2>2
<1>13. HonestOK(r, T, D)
    <2>1. \A k \in 1 .. Len(r.own) : r.own[k] \in Measured(k, T)
        BY <1>3, <1>5 DEF HonestOK
    <2>2. ASSUME r.at = "store"
          PROVE  /\ r.core <= Len(PeakArray(r, D)) /\ r.v \in Measured(r.core, T)
                 /\ r.own = << >> => r.v >= T[r.seed].per[r.core]
        <3>1. /\ r.core <= Len(PeakArray(r, C)) /\ r.v \in Measured(r.core, S)
              /\ r.own = << >> => r.v >= S[r.seed].per[r.core]
            BY <1>3, <2>2 DEF HonestOK
        <3>2. r.seed # 0
            BY <1>3, <2>2 DEF PlaceOK, Merging
        <3>3. Len(PeakArray(r, D)) = Len(PeakArray(r, C))
            BY <1>10, <3>2 DEF PeakArray
        <3> QED BY <1>5, <1>10, <3>1, <3>2, <3>3
    <2> QED BY <1>3, <2>1, <2>2 DEF HonestOK
<1>14. CoverOK(r, T, D)
    <2>1. SUFFICES ASSUME r.solo, r.seed # 0, Uniform(Seen(r, T), T)
                   PROVE  /\ r.own = << >>
                          /\ \A i \in InWindow(r, r.j, T) : \A k \in 1 .. Len(T[i].per) : D[r.seed][k] >= T[i].per[k]
                          /\ Merging(r) => \A k \in 1 .. Len(T[r.snap[r.j]].per) :
                                              k < r.core => D[r.seed][k] >= T[r.snap[r.j]].per[k]
                          /\ r.at = "store" =>
                                /\ r.v > D[r.seed][r.core]
                                /\ r.core <= Len(T[r.snap[r.j]].per) => r.v >= T[r.snap[r.j]].per[r.core]
        BY DEF CoverOK
    <2>2. Uniform(Seen(r, S), S)
        BY <2>1, <1>8, <1>9 DEF Uniform
    <2>3. D[r.seed] = C[r.seed]
        BY <1>2, <1>10, <2>1
    <2>4. /\ r.own = << >>
          /\ \A i \in InWindow(r, r.j, S) : \A k \in 1 .. Len(S[i].per) : C[r.seed][k] >= S[i].per[k]
          /\ Merging(r) => \A k \in 1 .. Len(S[r.snap[r.j]].per) :
                              k < r.core => C[r.seed][k] >= S[r.snap[r.j]].per[k]
          /\ r.at = "store" =>
                /\ r.v > C[r.seed][r.core]
                /\ r.core <= Len(S[r.snap[r.j]].per) => r.v >= S[r.snap[r.j]].per[r.core]
        BY <1>3, <2>1, <2>2 DEF CoverOK
    <2>5. r.at = "store" => Merging(r)
        BY DEF Merging
    <2> QED BY <1>8, <1>9, <2>3, <2>4, <2>5
<1> QED BY <1>11, <1>12, <1>13, <1>14

(* So do those about an answer. *)
LEMMA ReplyLater ==
    ASSUME NEW S, NEW C, NEW T, NEW D, HeapOK(S, C), HeapOK(T, D), Later(S, C, T, D),
           NEW a, ReplyOK(a, S)
    PROVE  ReplyOK(a, T)
<1>1. /\ S \in Seq(CpuSamples) /\ T \in Seq(CpuSamples) /\ Len(S) \in Nat /\ Len(T) \in Nat /\ Len(S) <= Len(T)
      /\ \A i \in 1 .. Len(S) : i \in 1 .. Len(T) /\ T[i] = S[i]
    BY LenProperties DEF HeapOK, Later
<1>2. \A k, v : v \in Measured(k, S) => v \in Measured(k, T)
    BY <1>1, MeasuredGrows
<1>3. a \in Replies /\ (a.present <=> a.win # {}) /\ \A i \in a.win : i \in 1 .. Len(S)
    BY DEF ReplyOK
<1>4. \A i \in a.win : i \in 1 .. Len(T) /\ T[i] = S[i]
    BY <1>1, <1>3
<1>5. a.present => (\E i \in a.win : a.ov = T[i].overall) /\ \A i \in a.win : T[i].overall <= a.ov
    BY <1>4 DEF ReplyOK
<1>6. \A k \in 1 .. Len(a.cores) : a.cores[k] \in Measured(k, T)
    BY <1>2 DEF ReplyOK
<1>7. Uniform(a.win, T) => Uniform(a.win, S)
    BY <1>4 DEF Uniform
<1>8. (a.present /\ a.solo /\ Uniform(a.win, T)) =>
          \A i \in a.win : /\ Len(a.cores) >= Len(T[i].per)
                           /\ \A k \in 1 .. Len(T[i].per) : a.cores[k] >= T[i].per[k]
    BY <1>4, <1>7 DEF ReplyOK
<1> QED BY <1>3, <1>4, <1>5, <1>6, <1>8 DEF ReplyOK

-----------------------------------------------------------------------------
(* The steps of a request *)

(* The window depends on the snapshot and the cutoff only. *)
LEMMA WindowSame ==
    ASSUME NEW S, NEW r, NEW q, q.snap = r.snap, q.cutoff = r.cutoff
    PROVE  \A n : InWindow(q, n, S) = InWindow(r, n, S)
BY DEF InWindow

(* A sample outside the window is skipped. *)
LEMMA SkipKeeps ==
    ASSUME NEW S, NEW C, HeapOK(S, C), NEW r, RequestOK(r, S, C),
           r.at = "scan", r.j > 0, S[r.snap[r.j]].ts < r.cutoff
    PROVE  RequestOK([r EXCEPT !.j = @ - 1], S, C)
<1> DEFINE q == [r EXCEPT !.j = @ - 1]
<1>1. r \in Requests /\ PlaceOK(r, S) /\ OverallOK(r, S) /\ HonestOK(r, S, C) /\ CoverOK(r, S, C)
    BY DEF RequestOK, Scanning
<1>2. r.j \in Nat /\ r.j - 1 \in Nat /\ Len(r.snap) \in Nat /\ r.cutoff \in Int /\ r.j \in 1 .. Len(r.snap)
    <2>1. r.j \in Nat /\ Len(r.snap) \in Nat /\ r.cutoff \in Int
        BY <1>1, RequestFields
    <2> QED BY <1>1, <2>1 DEF PlaceOK
<1>3. /\ q \in Requests /\ q.at = r.at /\ q.cutoff = r.cutoff /\ q.snap = r.snap /\ q.j = r.j - 1
      /\ q.seed = r.seed /\ q.own = r.own /\ q.ov = r.ov /\ q.core = r.core /\ q.v = r.v /\ (q.solo <=> r.solo)
    BY <1>1, <1>2 DEF Requests
<1> HIDE DEF q
<1>4. S[r.snap[r.j]].ts \in Nat
    BY <1>1, <1>2, SampleFields DEF PlaceOK
<1>5. InWindow(r, r.j - 1, S) = InWindow(r, r.j, S)
    <2>1. ~ (S[r.snap[r.j]].ts >= r.cutoff)
        BY <1>2, <1>4
    <2>2. InWindow(r, r.j - 1, S) =
             InWindow(r, r.j, S) \cup (IF S[r.snap[r.j]].ts >= r.cutoff THEN {r.snap[r.j]} ELSE {})
        BY <1>1, <1>2, WindowStep
    <2> QED BY <2>1, <2>2, Zenon
<1>6. InWindow(q, q.j, S) = InWindow(r, r.j, S) /\ Seen(q, S) = Seen(r, S)
    BY <1>3, <1>5, WindowSame DEF Seen, Merging
<1>7. PlaceOK(q, S)
    BY <1>1, <1>2, <1>3 DEF PlaceOK, Merging
<1>8. OverallOK(q, S)
    BY <1>1, <1>3, <1>6 DEF OverallOK
<1>9. HonestOK(q, S, C)
    BY <1>1, <1>3 DEF HonestOK
<1>10. CoverOK(q, S, C)
    BY <1>1, <1>3, <1>6 DEF CoverOK, Merging
<1>11. RequestOK(q, S, C)
    BY <1>3, <1>7, <1>8, <1>9, <1>10 DEF RequestOK
<1> QED BY <1>11 DEF q

(* The newest sample of the window is the seed. *)
LEMMA SeedKeeps ==
    ASSUME NEW S, NEW C, HeapOK(S, C), NEW r, RequestOK(r, S, C), NEW i,
           r.at = "scan", r.j > 0, i = r.snap[r.j], S[i].ts >= r.cutoff, r.seed = 0
    PROVE  RequestOK([r EXCEPT !.j = @ - 1, !.seed = i, !.ov = S[i].overall], S, C)
<1> DEFINE q == [r EXCEPT !.j = @ - 1, !.seed = i, !.ov = S[i].overall]
<1>1. r \in Requests /\ PlaceOK(r, S) /\ OverallOK(r, S) /\ HonestOK(r, S, C)
    BY DEF RequestOK, Scanning
<1>2. r.j \in Nat /\ r.j - 1 \in Nat /\ Len(r.snap) \in Nat /\ r.j \in 1 .. Len(r.snap)
    <2>1. r.j \in Nat /\ Len(r.snap) \in Nat
        BY <1>1, RequestFields
    <2> QED BY <1>1, <2>1 DEF PlaceOK
<1>3. i \in 1 .. Len(S)
    BY <1>1, <1>2 DEF PlaceOK
<1>4. Len(S) \in Nat
    BY LenProperties DEF HeapOK
<1>5. /\ S[i].overall \in Nat /\ Len(C[i]) = Len(S[i].per)
      /\ \A k \in 1 .. Len(S[i].per) : C[i][k] >= S[i].per[k]
    BY <1>3, SampleFields
<1>6. i \in Nat /\ i # 0
    BY <1>3, <1>4
<1>7. /\ q \in Requests /\ q.at = r.at /\ q.cutoff = r.cutoff /\ q.snap = r.snap /\ q.j = r.j - 1
      /\ q.seed = i /\ q.own = r.own /\ q.ov = S[i].overall /\ q.core = r.core /\ q.v = r.v /\ (q.solo <=> r.solo)
    BY <1>1, <1>2, <1>5, <1>6 DEF Requests
<1> HIDE DEF q
<1>8. InWindow(r, r.j, S) = {}
    BY <1>1 DEF OverallOK, Seen, Merging
<1>9. InWindow(r, r.j - 1, S) = {i}
    BY <1>1, <1>2, <1>8, WindowStep
<1>10. InWindow(q, q.j, S) = {i} /\ Seen(q, S) = {i}
    BY <1>7, <1>9, WindowSame DEF Seen, Merging
<1>11. PlaceOK(q, S)
    BY <1>1, <1>2, <1>7 DEF PlaceOK, Merging
<1>12. OverallOK(q, S)
    BY <1>5, <1>6, <1>7, <1>10 DEF OverallOK
<1>13. r.own = << >>
    BY <1>1 DEF HonestOK
<1>14. HonestOK(q, S, C)
    BY <1>1, <1>6, <1>7 DEF HonestOK
<1>15. CoverOK(q, S, C)
    BY <1>5, <1>7, <1>10, <1>13 DEF CoverOK, Merging
<1>16. RequestOK(q, S, C)
    BY <1>7, <1>11, <1>12, <1>14, <1>15 DEF RequestOK
<1> QED BY <1>16 DEF q

(* An older sample of the window: its overall load is taken into account,   *)
(* and if it has more cores than the peak, the peak becomes a copy of it.   *)
LEMMA RaiseKeeps ==
    ASSUME NEW S, NEW C, HeapOK(S, C), NEW r, RequestOK(r, S, C), NEW i,
           r.at = "scan", r.j > 0, i = r.snap[r.j], S[i].ts >= r.cutoff, r.seed # 0
    PROVE  RequestOK([r EXCEPT !.ov = Raise(S[i].overall, @),
                               !.own = IF Len(C[i]) > Len(PeakArray(r, C)) THEN C[i] ELSE @,
                               !.at = "merge", !.core = 1], S, C)
<1> DEFINE own == IF Len(C[i]) > Len(PeakArray(r, C)) THEN C[i] ELSE r.own
           ov == Raise(S[i].overall, r.ov)
           q == [r EXCEPT !.ov = ov, !.own = own, !.at = "merge", !.core = 1]
<1>1. r \in Requests /\ PlaceOK(r, S) /\ OverallOK(r, S) /\ HonestOK(r, S, C) /\ CoverOK(r, S, C)
    BY DEF RequestOK, Scanning
<1>2. r.j \in Nat /\ Len(r.snap) \in Nat /\ r.seed \in Nat /\ r.own \in Seq(Nat) /\ r.ov \in Nat
    BY <1>1, RequestFields
<1>3. r.j \in 1 .. Len(r.snap) /\ i \in 1 .. Len(S)
    BY <1>1, <1>2 DEF PlaceOK
<1>4. /\ S[i].overall \in Nat /\ C[i] \in Seq(Nat) /\ Len(C[i]) = Len(S[i].per) /\ Len(S[i].per) \in Nat
      /\ \A k \in 1 .. Len(C[i]) : C[i][k] \in Measured(k, S)
    BY <1>3, SampleFields
<1>5. ov \in Nat /\ own \in Seq(Nat)
    BY <1>2, <1>4 DEF Raise
<1>6. ov >= r.ov /\ ov >= S[i].overall /\ (ov = r.ov \/ ov = S[i].overall)
    BY <1>2, <1>4 DEF Raise
<1>7. \A k \in 1 .. Len(own) : own[k] \in Measured(k, S)
    BY <1>1, <1>4 DEF HonestOK
<1> HIDE DEF own, ov
<1>8. /\ q \in Requests /\ q.at = "merge" /\ q.cutoff = r.cutoff /\ q.snap = r.snap /\ q.j = r.j
      /\ q.seed = r.seed /\ q.own = own /\ q.ov = ov /\ q.core = 1 /\ q.v = r.v /\ (q.solo <=> r.solo)
    BY <1>1, <1>5 DEF Requests
<1> HIDE DEF q
<1>9. Seen(r, S) = InWindow(r, r.j, S)
    BY DEF Seen, Merging
<1>10. InWindow(r, r.j - 1, S) = Seen(r, S) \cup {i}
    BY <1>1, <1>3, <1>9, WindowStep
<1>11. InWindow(q, q.j, S) = Seen(r, S) /\ Seen(q, S) = Seen(r, S) \cup {i}
    BY <1>8, <1>9, <1>10, WindowSame DEF Seen, Merging
<1>12. Seen(r, S) \subseteq 1 .. Len(S)
    BY <1>1, SeenRange
<1>13. PlaceOK(q, S)
    BY <1>1, <1>3, <1>8 DEF PlaceOK, Merging
<1>14. OverallOK(q, S)
    <2>1. /\ r.seed \in Seen(r, S) /\ (\E h \in Seen(r, S) : r.ov = S[h].overall)
          /\ \A h \in Seen(r, S) : S[h].overall <= r.ov
        BY <1>1 DEF OverallOK
    <2>2. \A h \in Seen(r, S) : S[h].overall \in Nat
        BY <1>12, SampleFields
    <2>3. \A h \in Seen(r, S) : S[h].overall <= ov
        BY <2>1, <2>2, <1>2, <1>5, <1>6
    <2>4. \E h \in Seen(r, S) \cup {i} : ov = S[h].overall
        BY <1>6, <2>1
    <2> QED BY <1>6, <1>8, <1>11, <2>1, <2>3, <2>4, <1>4, <1>5 DEF OverallOK
<1>15. HonestOK(q, S, C)
    BY <1>7, <1>8 DEF HonestOK
<1>16. CoverOK(q, S, C)
    <2>1. SUFFICES ASSUME q.solo, Uniform(Seen(q, S), S)
                   PROVE  /\ q.own = << >>
                          /\ \A h \in Seen(r, S) : \A k \in 1 .. Len(S[h].per) : C[q.seed][k] >= S[h].per[k]
                          /\ \A k \in 1 .. Len(S[q.snap[q.j]].per) :
                                k < q.core => C[q.seed][k] >= S[q.snap[q.j]].per[k]
        BY <1>8, <1>11 DEF CoverOK, Merging
    <2>2. r.seed \in Seen(r, S) /\ r.seed \in 1 .. Len(S)
        BY <1>1, <1>12 DEF OverallOK
    <2>3. Uniform(Seen(r, S), S) /\ Len(S[i].per) = Len(S[r.seed].per)
        BY <1>11, <2>1, <2>2 DEF Uniform
    <2>4. r.own = << >> /\ \A h \in Seen(r, S) : \A k \in 1 .. Len(S[h].per) : C[r.seed][k] >= S[h].per[k]
        BY <1>1, <1>8, <1>9, <2>1, <2>3 DEF CoverOK
    <2>5. Len(C[r.seed]) = Len(S[r.seed].per)
        BY <2>2, SampleFields
    <2>6. own = << >>
        BY <1>4, <2>3, <2>4, <2>5 DEF own, PeakArray
    <2>7. \A k \in 1 .. Len(S[i].per) : ~ (k < 1)
        BY <1>4
    <2> QED BY <1>8, <2>4, <2>6, <2>7
<1>17. RequestOK(q, S, C)
    BY <1>8, <1>13, <1>14, <1>15, <1>16 DEF RequestOK
<1> QED BY <1>17 DEF q, own, ov

(* What a request in the middle of a merge knows. *)
LEMMA MergingFacts ==
    ASSUME NEW S, NEW C, HeapOK(S, C), NEW r, RequestOK(r, S, C), Merging(r), NEW i, i = r.snap[r.j]
    PROVE  /\ r \in Requests /\ PlaceOK(r, S) /\ OverallOK(r, S) /\ HonestOK(r, S, C) /\ CoverOK(r, S, C)
           /\ r.j \in 1 .. Len(r.snap) /\ r.j \in Nat /\ Len(r.snap) \in Nat
           /\ r.core \in Nat \ {0} /\ r.v \in Nat /\ r.own \in Seq(Nat) /\ Len(r.own) \in Nat
           /\ i \in 1 .. Len(S) /\ r.seed \in 1 .. Len(S) /\ r.seed # 0
           /\ Seen(r, S) = InWindow(r, r.j, S) \cup {i} /\ r.seed \in Seen(r, S)
<1>1. r \in Requests /\ PlaceOK(r, S) /\ OverallOK(r, S) /\ HonestOK(r, S, C) /\ CoverOK(r, S, C)
    BY DEF RequestOK, Scanning, Merging
<1>2. r.j \in Nat /\ Len(r.snap) \in Nat /\ r.core \in Nat /\ r.v \in Nat /\ r.own \in Seq(Nat) /\ Len(r.own) \in Nat
    BY <1>1, RequestFields
<1>3. r.core # 0 /\ r.seed # 0
    BY <1>1, <1>2 DEF PlaceOK
<1>4. /\ r.j \in 1 .. Len(r.snap) /\ i \in 1 .. Len(S) /\ Seen(r, S) = InWindow(r, r.j, S) \cup {i}
      /\ Seen(r, S) \subseteq 1 .. Len(S)
    BY <1>1, SeenRange
<1>5. r.seed \in Seen(r, S)
    BY <1>1, <1>3 DEF OverallOK
<1> QED BY <1>1, <1>2, <1>3, <1>4, <1>5

(* Every core of the sample has been compared. *)
LEMMA MergeEndKeeps ==
    ASSUME NEW S, NEW C, HeapOK(S, C), NEW r, RequestOK(r, S, C), NEW i,
           r.at = "merge", i = r.snap[r.j], r.core > Len(C[i])
    PROVE  RequestOK([r EXCEPT !.at = "scan", !.j = @ - 1, !.core = 0], S, C)
<1> DEFINE q == [r EXCEPT !.at = "scan", !.j = @ - 1, !.core = 0]
<1>1. Merging(r)
    BY DEF Merging
<1>2. /\ r \in Requests /\ PlaceOK(r, S) /\ OverallOK(r, S) /\ HonestOK(r, S, C) /\ CoverOK(r, S, C)
      /\ r.j \in 1 .. Len(r.snap) /\ r.j \in Nat /\ Len(r.snap) \in Nat /\ r.core \in Nat
      /\ i \in 1 .. Len(S) /\ r.seed # 0
      /\ Seen(r, S) = InWindow(r, r.j, S) \cup {i}
    BY <1>1, MergingFacts
<1>3. r.j - 1 \in Nat
    BY <1>2
<1>4. /\ q \in Requests /\ q.at = "scan" /\ q.cutoff = r.cutoff /\ q.snap = r.snap /\ q.j = r.j - 1
      /\ q.seed = r.seed /\ q.own = r.own /\ q.ov = r.ov /\ q.core = 0 /\ q.v = r.v /\ (q.solo <=> r.solo)
    BY <1>2, <1>3 DEF Requests
<1> HIDE DEF q
<1>5. Seen(r, S) = InWindow(r, r.j - 1, S)
    BY <1>1 DEF Seen
<1>6. InWindow(q, q.j, S) = Seen(r, S) /\ Seen(q, S) = Seen(r, S)
    BY <1>4, <1>5, WindowSame DEF Seen, Merging
<1>7. PlaceOK(q, S)
    BY <1>2, <1>3, <1>4 DEF PlaceOK, Merging
<1>8. OverallOK(q, S)
    BY <1>2, <1>4, <1>6 DEF OverallOK
<1>9. HonestOK(q, S, C)
    BY <1>2, <1>4 DEF HonestOK
<1>10. CoverOK(q, S, C)
    <2>1. SUFFICES ASSUME q.solo, Uniform(Seen(r, S), S)
                   PROVE  /\ r.own = << >>
                          /\ \A h \in Seen(r, S) : \A k \in 1 .. Len(S[h].per) : C[r.seed][k] >= S[h].per[k]
        BY <1>4, <1>6 DEF CoverOK, Merging
    <2>2. /\ r.own = << >>
          /\ \A h \in InWindow(r, r.j, S) : \A k \in 1 .. Len(S[h].per) : C[r.seed][k] >= S[h].per[k]
          /\ \A k \in 1 .. Len(S[i].per) : k < r.core => C[r.seed][k] >= S[i].per[k]
        BY <1>1, <1>2, <1>4, <2>1 DEF CoverOK
    <2>3. Len(C[i]) = Len(S[i].per) /\ Len(S[i].per) \in Nat
        BY <1>2, SampleFields
    <2>4. r.core \in Nat /\ r.core > Len(S[i].per)
        BY <1>2, <2>3
    <2>5. \A k \in 1 .. Len(S[i].per) : k < r.core
        BY <2>3, <2>4
    <2>6. \A k \in 1 .. Len(S[i].per) : C[r.seed][k] >= S[i].per[k]
        BY <2>2, <2>5
    <2> QED BY <1>2, <2>2, <2>6
<1>11. RequestOK(q, S, C)
    BY <1>4, <1>7, <1>8, <1>9, <1>10 DEF RequestOK
<1> QED BY <1>11 DEF q

(* The sample's load of a core is above the peak's, and about to be stored. *)
LEMMA MergeAboveKeeps ==
    ASSUME NEW S, NEW C, HeapOK(S, C), NEW r, RequestOK(r, S, C), NEW i,
           r.at = "merge", i = r.snap[r.j], ~ (r.core > Len(C[i])),
           r.core <= Len(PeakArray(r, C)), C[i][r.core] > PeakArray(r, C)[r.core]
    PROVE  RequestOK([r EXCEPT !.at = "store", !.v = C[i][r.core]], S, C)
<1> DEFINE q == [r EXCEPT !.at = "store", !.v = C[i][r.core]]
<1>1. Merging(r)
    BY DEF Merging
<1>2. /\ r \in Requests /\ PlaceOK(r, S) /\ OverallOK(r, S) /\ HonestOK(r, S, C) /\ CoverOK(r, S, C)
      /\ r.j \in 1 .. Len(r.snap) /\ r.j \in Nat /\ Len(r.snap) \in Nat /\ r.core \in Nat \ {0}
      /\ i \in 1 .. Len(S) /\ r.seed # 0 /\ r.seed \in 1 .. Len(S)
    BY <1>1, MergingFacts
<1>3. /\ Len(C[i]) = Len(S[i].per) /\ Len(S[i].per) \in Nat
      /\ \A k \in 1 .. Len(C[i]) :
            C[i][k] \in Nat /\ S[i].per[k] \in Nat /\ C[i][k] \in Measured(k, S) /\ C[i][k] >= S[i].per[k]
    BY <1>2, SampleFields
<1>4. r.core \in 1 .. Len(C[i])
    BY <1>2, <1>3
<1>5. C[i][r.core] \in Nat /\ C[i][r.core] \in Measured(r.core, S) /\ C[i][r.core] >= S[i].per[r.core]
    BY <1>3, <1>4
<1>6. /\ q \in Requests /\ q.at = "store" /\ q.cutoff = r.cutoff /\ q.snap = r.snap /\ q.j = r.j
      /\ q.seed = r.seed /\ q.own = r.own /\ q.ov = r.ov /\ q.core = r.core /\ q.v = C[i][r.core]
      /\ (q.solo <=> r.solo)
    BY <1>2, <1>5 DEF Requests
<1> HIDE DEF q
<1>7. Merging(q) /\ InWindow(q, q.j, S) = InWindow(r, r.j, S) /\ Seen(q, S) = Seen(r, S)
    BY <1>1, <1>6, WindowSame DEF Seen, Merging
<1>8. PlaceOK(q, S)
    BY <1>1, <1>2, <1>6 DEF PlaceOK
<1>9. OverallOK(q, S)
    BY <1>2, <1>6, <1>7 DEF OverallOK
<1>10. HonestOK(q, S, C)
    <2>1. PeakArray(q, C) = PeakArray(r, C)
        BY <1>6 DEF PeakArray
    <2>2. r.own = << >> => q.v >= S[r.seed].per[r.core]
        <3>1. SUFFICES ASSUME r.own = << >>  PROVE q.v >= S[r.seed].per[r.core]
            OBVIOUS
        <3>2. PeakArray(r, C) = C[r.seed]
            BY <3>1 DEF PeakArray
        <3>3. /\ Len(C[r.seed]) \in Nat
              /\ \A k \in 1 .. Len(C[r.seed]) :
                    C[r.seed][k] \in Nat /\ S[r.seed].per[k] \in Nat /\ C[r.seed][k] >= S[r.seed].per[k]
            BY <1>2, SampleFields
        <3>4. r.core \in 1 .. Len(C[r.seed])
            BY <1>2, <3>2, <3>3
        <3>5. C[r.seed][r.core] \in Nat /\ S[r.seed].per[r.core] \in Nat /\ C[r.seed][r.core] >= S[r.seed].per[r.core]
            BY <3>3, <3>4
        <3>6. C[i][r.core] > C[r.seed][r.core]
            BY <3>2
        <3>7. C[i][r.core] >= S[r.seed].per[r.core]
            BY <1>5, <3>5, <3>6
        <3> QED BY <1>6, <3>7
    <2> QED BY <1>2, <1>5, <1>6, <2>1, <2>2 DEF HonestOK
<1>11. CoverOK(q, S, C)
    <2>1. SUFFICES ASSUME r.solo, Uniform(Seen(r, S), S)
                   PROVE  /\ r.own = << >>
                          /\ \A h \in InWindow(r, r.j, S) : \A k \in 1 .. Len(S[h].per) : C[r.seed][k] >= S[h].per[k]
                          /\ \A k \in 1 .. Len(S[i].per) : k < r.core => C[r.seed][k] >= S[i].per[k]
                          /\ C[i][r.core] > C[r.seed][r.core] /\ C[i][r.core] >= S[i].per[r.core]
        BY <1>6, <1>7 DEF CoverOK
    <2>2. /\ r.own = << >>
          /\ \A h \in InWindow(r, r.j, S) : \A k \in 1 .. Len(S[h].per) : C[r.seed][k] >= S[h].per[k]
          /\ \A k \in 1 .. Len(S[i].per) : k < r.core => C[r.seed][k] >= S[i].per[k]
        BY <1>1, <1>2, <2>1 DEF CoverOK
    <2>3. C[i][r.core] > C[r.seed][r.core]
        BY <2>2 DEF PeakArray
    <2> QED BY <1>5, <2>2, <2>3
<1>12. RequestOK(q, S, C)
    BY <1>6, <1>8, <1>9, <1>10, <1>11 DEF RequestOK
<1> QED BY <1>12 DEF q

(* The sample's load of a core is not above the peak's. *)
LEMMA MergeBelowKeeps ==
    ASSUME NEW S, NEW C, HeapOK(S, C), NEW r, RequestOK(r, S, C), NEW i,
           r.at = "merge", i = r.snap[r.j], ~ (r.core > Len(C[i])),
           ~ (r.core <= Len(PeakArray(r, C)) /\ C[i][r.core] > PeakArray(r, C)[r.core])
    PROVE  RequestOK([r EXCEPT !.core = @ + 1], S, C)
<1> DEFINE q == [r EXCEPT !.core = @ + 1]
<1>1. Merging(r)
    BY DEF Merging
<1>2. /\ r \in Requests /\ PlaceOK(r, S) /\ OverallOK(r, S) /\ HonestOK(r, S, C) /\ CoverOK(r, S, C)
      /\ r.j \in 1 .. Len(r.snap) /\ r.j \in Nat /\ Len(r.snap) \in Nat /\ r.core \in Nat \ {0}
      /\ i \in 1 .. Len(S) /\ r.seed # 0 /\ r.seed \in 1 .. Len(S)
      /\ Seen(r, S) = InWindow(r, r.j, S) \cup {i} /\ r.seed \in Seen(r, S)
    BY <1>1, MergingFacts
<1>3. /\ q \in Requests /\ q.at = "merge" /\ q.cutoff = r.cutoff /\ q.snap = r.snap /\ q.j = r.j
      /\ q.seed = r.seed /\ q.own = r.own /\ q.ov = r.ov /\ q.core = r.core + 1 /\ q.v = r.v /\ (q.solo <=> r.solo)
    <2>1. r.core + 1 \in Nat
        BY <1>2
    <2> QED BY <1>2, <2>1 DEF Requests
<1> HIDE DEF q
<1>4. Merging(q) /\ InWindow(q, q.j, S) = InWindow(r, r.j, S) /\ Seen(q, S) = Seen(r, S)
    BY <1>1, <1>3, WindowSame DEF Seen, Merging
<1>5. PlaceOK(q, S)
    BY <1>1, <1>2, <1>3 DEF PlaceOK
<1>6. OverallOK(q, S)
    BY <1>2, <1>3, <1>4 DEF OverallOK
<1>7. HonestOK(q, S, C)
    BY <1>2, <1>3 DEF HonestOK
<1>8. CoverOK(q, S, C)
    <2>1. SUFFICES ASSUME r.solo, Uniform(Seen(r, S), S)
                   PROVE  /\ r.own = << >>
                          /\ \A h \in InWindow(r, r.j, S) : \A k \in 1 .. Len(S[h].per) : C[r.seed][k] >= S[h].per[k]
                          /\ \A k \in 1 .. Len(S[i].per) : k < r.core + 1 => C[r.seed][k] >= S[i].per[k]
        BY <1>3, <1>4 DEF CoverOK
    <2>2. /\ r.own = << >>
          /\ \A h \in InWindow(r, r.j, S) : \A k \in 1 .. Len(S[h].per) : C[r.seed][k] >= S[h].per[k]
          /\ \A k \in 1 .. Len(S[i].per) : k < r.core => C[r.seed][k] >= S[i].per[k]
        BY <1>1, <1>2, <2>1 DEF CoverOK
    <2>3. /\ Len(C[i]) = Len(S[i].per) /\ Len(S[i].per) \in Nat
          /\ \A k \in 1 .. Len(C[i]) : C[i][k] \in Nat /\ S[i].per[k] \in Nat /\ C[i][k] >= S[i].per[k]
        BY <1>2, SampleFields
    <2>4. /\ Len(C[r.seed]) = Len(S[r.seed].per)
          /\ \A k \in 1 .. Len(C[r.seed]) : C[r.seed][k] \in Nat
        BY <1>2, SampleFields
    <2>5. Len(S[r.seed].per) = Len(S[i].per)
        BY <1>2, <2>1 DEF Uniform
    <2>6. r.core \in 1 .. Len(C[i]) /\ r.core \in 1 .. Len(C[r.seed])
        BY <1>2, <2>3, <2>4, <2>5
    <2>7. ~ (C[i][r.core] > C[r.seed][r.core])
        <3>1. PeakArray(r, C) = C[r.seed]
            BY <2>2 DEF PeakArray
        <3>2. r.core <= Len(C[r.seed])
            BY <2>3, <2>4, <2>5, <2>6
        <3> QED BY <3>1, <3>2
    <2>8. C[r.seed][r.core] >= S[i].per[r.core]
        <3>1. C[i][r.core] \in Nat /\ S[i].per[r.core] \in Nat /\ C[i][r.core] >= S[i].per[r.core]
            BY <2>3, <2>6
        <3>2. C[r.seed][r.core] \in Nat
            BY <2>4, <2>6
        <3> QED BY <3>1, <3>2, <2>7
    <2>9. \A k \in 1 .. Len(S[i].per) : k < r.core + 1 => k < r.core \/ k = r.core
        BY <1>2, <2>3
    <2> QED BY <2>2, <2>8, <2>9
<1>9. RequestOK(q, S, C)
    BY <1>3, <1>5, <1>6, <1>7, <1>8 DEF RequestOK
<1> QED BY <1>9 DEF q

(* The peak's own array is raised. *)
LEMMA StoreOwnKeeps ==
    ASSUME NEW S, NEW C, HeapOK(S, C), NEW r, RequestOK(r, S, C), r.at = "store", r.own # << >>
    PROVE  RequestOK([[r EXCEPT !.at = "merge", !.core = @ + 1, !.v = 0] EXCEPT !.own[r.core] = r.v], S, C)
<1> DEFINE own == [r.own EXCEPT ![r.core] = r.v]
           q == [[r EXCEPT !.at = "merge", !.core = @ + 1, !.v = 0] EXCEPT !.own = own]
<1>1. Merging(r)
    BY DEF Merging
<1>2. /\ r \in Requests /\ PlaceOK(r, S) /\ OverallOK(r, S) /\ HonestOK(r, S, C) /\ CoverOK(r, S, C)
      /\ r.j \in 1 .. Len(r.snap) /\ r.j \in Nat /\ Len(r.snap) \in Nat /\ r.core \in Nat \ {0}
      /\ r.seed # 0 /\ r.v \in Nat /\ r.own \in Seq(Nat) /\ Len(r.own) \in Nat
    BY <1>1, MergingFacts
<1>3. r.core <= Len(r.own) /\ r.v \in Measured(r.core, S) /\ \A k \in 1 .. Len(r.own) : r.own[k] \in Measured(k, S)
    BY <1>2 DEF HonestOK, PeakArray
<1>4. r.core \in 1 .. Len(r.own)
    BY <1>2, <1>3
<1>5. own \in Seq(Nat) /\ Len(own) = Len(r.own) /\ \A k \in 1 .. Len(r.own) : own[k] = IF k = r.core THEN r.v ELSE r.own[k]
    BY <1>2, <1>4, ExceptSeq
<1>6. \A k \in 1 .. Len(own) : own[k] \in Measured(k, S)
    BY <1>3, <1>5
<1>7. q = [[r EXCEPT !.at = "merge", !.core = @ + 1, !.v = 0] EXCEPT !.own[r.core] = r.v]
    <2>1. [r EXCEPT !.at = "merge", !.core = @ + 1, !.v = 0].own = r.own
        BY <1>2 DEF Requests
    <2> QED BY <2>1
<1> HIDE DEF own
<1>8. /\ q \in Requests /\ q.at = "merge" /\ q.cutoff = r.cutoff /\ q.snap = r.snap /\ q.j = r.j
      /\ q.seed = r.seed /\ q.own = own /\ q.ov = r.ov /\ q.core = r.core + 1 /\ q.v = 0 /\ (q.solo <=> r.solo)
    <2>1. r.core + 1 \in Nat /\ r.core + 1 > 0
        BY <1>2
    <2> QED BY <1>2, <1>5, <2>1 DEF Requests
<1> HIDE DEF q
<1>9. Merging(q) /\ InWindow(q, q.j, S) = InWindow(r, r.j, S) /\ Seen(q, S) = Seen(r, S)
    BY <1>1, <1>8, WindowSame DEF Seen, Merging
<1>10. PlaceOK(q, S)
    <2>1. r.core + 1 > 0
        BY <1>2
    <2> QED BY <1>1, <1>2, <1>8, <2>1 DEF PlaceOK
<1>11. OverallOK(q, S)
    BY <1>2, <1>8, <1>9 DEF OverallOK
<1>12. HonestOK(q, S, C)
    BY <1>2, <1>6, <1>8 DEF HonestOK
<1>13. CoverOK(q, S, C)
    BY <1>2, <1>8, <1>9 DEF CoverOK
<1>14. RequestOK(q, S, C)
    BY <1>8, <1>10, <1>11, <1>12, <1>13 DEF RequestOK
<1> QED BY <1>7, <1>14

(* A sample's array is raised. *)
LEMMA StoreSharedKeeps ==
    ASSUME NEW S, NEW C, HeapOK(S, C), NEW r, RequestOK(r, S, C), r.at = "store", r.own = << >>
    PROVE  LET D == [C EXCEPT ![r.seed][r.core] = r.v]
           IN  /\ HeapOK(S, D) /\ Later(S, C, S, D)
               /\ RequestOK([r EXCEPT !.at = "merge", !.core = @ + 1, !.v = 0], S, D)
<1> DEFINE D == [C EXCEPT ![r.seed][r.core] = r.v]
           q == [r EXCEPT !.at = "merge", !.core = @ + 1, !.v = 0]
           i == r.snap[r.j]
<1>1. Merging(r)
    BY DEF Merging
<1>2. /\ r \in Requests /\ PlaceOK(r, S) /\ OverallOK(r, S) /\ HonestOK(r, S, C) /\ CoverOK(r, S, C)
      /\ r.j \in 1 .. Len(r.snap) /\ r.j \in Nat /\ Len(r.snap) \in Nat /\ r.core \in Nat \ {0}
      /\ i \in 1 .. Len(S) /\ r.seed \in 1 .. Len(S) /\ r.seed # 0 /\ r.v \in Nat
      /\ Seen(r, S) = InWindow(r, r.j, S) \cup {i} /\ r.seed \in Seen(r, S)
    BY <1>1, MergingFacts
<1>3. r.core <= Len(C[r.seed]) /\ r.v \in Measured(r.core, S) /\ r.v >= S[r.seed].per[r.core]
    BY <1>2 DEF HonestOK, PeakArray
<1>4. /\ Len(C[r.seed]) = Len(S[r.seed].per) /\ Len(C[r.seed]) \in Nat
      /\ \A k \in 1 .. Len(C[r.seed]) : C[r.seed][k] \in Nat
    BY <1>2, SampleFields
<1>5. r.core \in 1 .. Len(C[r.seed])
    BY <1>2, <1>3, <1>4
<1>6. /\ HeapOK(S, D) /\ Later(S, C, S, D) /\ Len(D[r.seed]) = Len(C[r.seed])
      /\ D[r.seed][r.core] = r.v /\ \A h \in 1 .. Len(C[r.seed]) : h # r.core => D[r.seed][h] = C[r.seed][h]
    <2>1. Stored(C, D, r.seed, r.core, r.v)
        BY DEF Stored
    <2> HIDE DEF D
    <2>2. Storable(S, C, r.seed, r.core, r.v)
        BY <1>2, <1>3, <1>5 DEF Storable
    <2> QED BY <2>1, <2>2, HeapStore
<1> HIDE DEF D
<1>7. /\ q \in Requests /\ q.at = "merge" /\ q.cutoff = r.cutoff /\ q.snap = r.snap /\ q.j = r.j
      /\ q.seed = r.seed /\ q.own = << >> /\ q.ov = r.ov /\ q.core = r.core + 1 /\ q.v = 0 /\ (q.solo <=> r.solo)
    <2>1. r.core + 1 \in Nat
        BY <1>2
    <2> QED BY <1>2, <2>1 DEF Requests
<1> HIDE DEF q
<1>8. Merging(q) /\ InWindow(q, q.j, S) = InWindow(r, r.j, S) /\ Seen(q, S) = Seen(r, S)
    BY <1>1, <1>7, WindowSame DEF Seen, Merging
<1>9. PlaceOK(q, S)
    <2>1. r.core + 1 > 0
        BY <1>2
    <2> QED BY <1>1, <1>2, <1>7, <2>1 DEF PlaceOK
<1>10. OverallOK(q, S)
    BY <1>2, <1>7, <1>8 DEF OverallOK
<1>11. HonestOK(q, S, D)
    <2>1. \A k \in 1 .. Len(q.own) : q.own[k] \in Measured(k, S)
        BY <1>2, <1>7 DEF HonestOK
    <2> QED BY <2>1, <1>7 DEF HonestOK
<1>12. CoverOK(q, S, D)
    <2>1. SUFFICES ASSUME r.solo, Uniform(Seen(r, S), S)
                   PROVE  /\ \A h \in InWindow(r, r.j, S) : \A k \in 1 .. Len(S[h].per) : D[r.seed][k] >= S[h].per[k]
                          /\ \A k \in 1 .. Len(S[i].per) : k < r.core + 1 => D[r.seed][k] >= S[i].per[k]
        BY <1>7, <1>8 DEF CoverOK
    <2>2. /\ \A h \in InWindow(r, r.j, S) : \A k \in 1 .. Len(S[h].per) : C[r.seed][k] >= S[h].per[k]
          /\ \A k \in 1 .. Len(S[i].per) : k < r.core => C[r.seed][k] >= S[i].per[k]
          /\ r.v > C[r.seed][r.core]
          /\ r.core <= Len(S[i].per) => r.v >= S[i].per[r.core]
        BY <1>1, <1>2, <2>1 DEF CoverOK
    <2>3. ASSUME NEW h \in Seen(r, S)
          PROVE  /\ Len(S[h].per) = Len(C[r.seed]) /\ \A k \in 1 .. Len(S[h].per) : S[h].per[k] \in Nat
        <3>1. Len(S[h].per) = Len(S[r.seed].per)
            BY <1>2, <2>1 DEF Uniform
        <3>2. h \in 1 .. Len(S)
            BY <1>2, SeenRange
        <3>3. Len(C[h]) = Len(S[h].per) /\ \A k \in 1 .. Len(C[h]) : S[h].per[k] \in Nat
            BY <3>2, SampleFields
        <3> QED BY <1>4, <3>1, <3>3
    <2>4. ASSUME NEW h \in InWindow(r, r.j, S), NEW k \in 1 .. Len(S[h].per)
          PROVE  D[r.seed][k] >= S[h].per[k]
        <3>1. /\ Len(S[h].per) = Len(C[r.seed]) /\ S[h].per[k] \in Nat
            BY <1>2, <2>3
        <3>2. C[r.seed][k] >= S[h].per[k] /\ C[r.seed][k] \in Nat
            BY <1>4, <2>2, <3>1
        <3>3. CASE k = r.core
            BY <1>2, <1>6, <2>2, <3>1, <3>2, <3>3
        <3>4. CASE k # r.core
            BY <1>6, <3>1, <3>2, <3>4
        <3> QED BY <3>3, <3>4
    <2>5. ASSUME NEW k \in 1 .. Len(S[i].per), k < r.core + 1
          PROVE  D[r.seed][k] >= S[i].per[k]
        <3>1. /\ Len(S[i].per) = Len(C[r.seed]) /\ S[i].per[k] \in Nat
            BY <1>2, <2>3
        <3>2. CASE k = r.core
            <4>1. r.core <= Len(S[i].per)
                BY <1>3, <3>1
            <4> QED BY <1>6, <2>2, <3>2, <4>1
        <3>3. CASE k # r.core
            <4>1. k < r.core
                BY <1>2, <1>4, <2>5, <3>1, <3>3
            <4>2. C[r.seed][k] >= S[i].per[k]
                BY <2>2, <4>1
            <4> QED BY <1>6, <3>1, <3>3, <4>2
        <3> QED BY <3>2, <3>3
    <2> QED BY <2>4, <2>5
<1>13. RequestOK(q, S, D)
    BY <1>7, <1>9, <1>10, <1>11, <1>12 DEF RequestOK
<1> QED BY <1>6, <1>13 DEF D, q

(* The answer of a request that has gone through its snapshot. *)
LEMMA RespondKeeps ==
    ASSUME NEW S, NEW C, HeapOK(S, C), NEW r, RequestOK(r, S, C), r.at = "scan", r.j = 0
    PROVE  ReplyOK([code |-> 200, present |-> r.seed # 0, ov |-> r.ov,
                    cores |-> IF r.seed # 0 THEN PeakArray(r, C) ELSE << >>,
                    win |-> {i \in {r.snap[k] : k \in 1 .. Len(r.snap)} : S[i].ts >= r.cutoff},
                    solo |-> r.solo], S)
<1> DEFINE cores == IF r.seed # 0 THEN PeakArray(r, C) ELSE << >>
           win == {i \in {r.snap[k] : k \in 1 .. Len(r.snap)} : S[i].ts >= r.cutoff}
           present == r.seed # 0
           a == [code |-> 200, present |-> present, ov |-> r.ov, cores |-> cores, win |-> win, solo |-> r.solo]
<1>1. r \in Requests /\ PlaceOK(r, S) /\ OverallOK(r, S) /\ HonestOK(r, S, C) /\ CoverOK(r, S, C)
    BY DEF RequestOK, Scanning
<1>2. Len(r.snap) \in Nat /\ r.own \in Seq(Nat) /\ r.ov \in Nat /\ r.solo \in BOOLEAN /\ r.seed \in Nat
    BY <1>1, RequestFields
<1>3. win = Seen(r, S) /\ InWindow(r, r.j, S) = Seen(r, S)
    <2>1. r.j + 1 .. Len(r.snap) = 1 .. Len(r.snap)
        BY <1>2
    <2>2. InWindow(r, r.j, S) = {r.snap[k] : k \in {k \in 1 .. Len(r.snap) : S[r.snap[k]].ts >= r.cutoff}}
        BY <2>1 DEF InWindow
    <2>3. win = {r.snap[k] : k \in {k \in 1 .. Len(r.snap) : S[r.snap[k]].ts >= r.cutoff}}
        OBVIOUS
    <2> QED BY <2>2, <2>3 DEF Seen, Merging
<1>4. Seen(r, S) \subseteq 1 .. Len(S) /\ Len(S) \in Nat
    BY <1>1, SeenRange, LenProperties DEF HeapOK
<1>5. r.seed # 0 => r.seed \in Seen(r, S) /\ r.seed \in 1 .. Len(S)
    BY <1>1, <1>4 DEF OverallOK
<1>6. cores \in Seq(Nat) /\ \A k \in 1 .. Len(cores) : cores[k] \in Measured(k, S)
    <2>1. CASE r.seed = 0
        <3>1. cores = << >>
            BY <2>1
        <3>2. << >> \in Seq(Nat) /\ Len(<< >>) = 0
            BY EmptySeq
        <3>3. \A k \in 1 .. 0 : FALSE
            OBVIOUS
        <3> HIDE DEF cores
        <3> QED BY <3>1, <3>2, <3>3
    <2>2. CASE r.seed # 0 /\ r.own # << >>
        BY <1>1, <1>2, <2>2 DEF HonestOK, PeakArray
    <2>3. CASE r.seed # 0 /\ r.own = << >>
        <3>1. cores = C[r.seed]
            BY <2>3 DEF PeakArray
        <3>2. C[r.seed] \in Seq(Nat) /\ \A k \in 1 .. Len(C[r.seed]) : C[r.seed][k] \in Measured(k, S)
            BY <1>5, <2>3, SampleFields
        <3> QED BY <3>1, <3>2
    <2> QED BY <2>1, <2>2, <2>3
<1>7. win \in SUBSET Nat
    BY <1>3, <1>4
<1>8. r.seed # 0 /\ r.solo /\ Uniform(win, S) =>
          \A i \in win : /\ Len(cores) >= Len(S[i].per)
                         /\ \A k \in 1 .. Len(S[i].per) : cores[k] >= S[i].per[k]
    <2>1. SUFFICES ASSUME r.seed # 0, r.solo, Uniform(Seen(r, S), S), NEW i \in Seen(r, S)
                   PROVE  Len(cores) >= Len(S[i].per) /\ \A k \in 1 .. Len(S[i].per) : cores[k] >= S[i].per[k]
        BY <1>3
    <2>2. r.own = << >> /\ \A k \in 1 .. Len(S[i].per) : C[r.seed][k] >= S[i].per[k]
        BY <1>1, <1>3, <2>1 DEF CoverOK
    <2>3. cores = C[r.seed]
        BY <2>1, <2>2 DEF PeakArray
    <2>4. Len(C[r.seed]) = Len(S[r.seed].per) /\ Len(C[r.seed]) \in Nat
        BY <1>5, <2>1, SampleFields
    <2>5. Len(S[i].per) = Len(S[r.seed].per)
        BY <1>5, <2>1 DEF Uniform
    <2> QED BY <2>2, <2>3, <2>4, <2>5
<1>8a. present \in BOOLEAN /\ (present <=> r.seed # 0)
    OBVIOUS
<1> HIDE DEF cores, win, present
<1>9. /\ a \in Replies /\ (a.present <=> present) /\ a.ov = r.ov /\ a.cores = cores /\ a.win = win
      /\ (a.solo <=> r.solo)
    BY <1>2, <1>6, <1>7, <1>8a DEF Replies
<1> HIDE DEF a
<1>10. r.seed # 0 <=> win # {}
    BY <1>1, <1>3, <1>5 DEF OverallOK
<1>11. r.seed # 0 => (\E i \in win : r.ov = S[i].overall) /\ \A i \in win : S[i].overall <= r.ov
    BY <1>1, <1>3 DEF OverallOK
<1>12. ReplyOK(a, S)
    BY <1>3, <1>4, <1>6, <1>8, <1>9, <1>10, <1>11, <1>8a DEF ReplyOK
<1> QED BY <1>12 DEF a, cores, win, present

(* Another request starts: this one is no longer alone. *)
LEMMA SoloLostKeeps ==
    ASSUME NEW S, NEW C, NEW r, RequestOK(r, S, C)
    PROVE  RequestOK([r EXCEPT !.solo = FALSE], S, C) /\ [r EXCEPT !.solo = FALSE].at = r.at
              /\ ~ [r EXCEPT !.solo = FALSE].solo
<1> DEFINE q == [r EXCEPT !.solo = FALSE]
<1>1. r \in Requests
    BY DEF RequestOK
<1>2. /\ q \in Requests /\ q.at = r.at /\ q.cutoff = r.cutoff /\ q.snap = r.snap /\ q.j = r.j
      /\ q.seed = r.seed /\ q.own = r.own /\ q.ov = r.ov /\ q.core = r.core /\ q.v = r.v /\ ~ q.solo
    BY <1>1 DEF Requests
<1> HIDE DEF q
<1>3. (Merging(q) <=> Merging(r)) /\ (Scanning(q) <=> Scanning(r)) /\ Seen(q, S) = Seen(r, S)
    BY <1>2, WindowSame DEF Seen, Merging, Scanning
<1>4. ASSUME Scanning(r)
      PROVE  PlaceOK(q, S) /\ OverallOK(q, S) /\ HonestOK(q, S, C) /\ CoverOK(q, S, C)
    <2>1. PlaceOK(r, S) /\ OverallOK(r, S) /\ HonestOK(r, S, C)
        BY <1>4 DEF RequestOK
    <2>2. PlaceOK(q, S)
        BY <1>2, <1>3, <2>1 DEF PlaceOK
    <2>3. OverallOK(q, S)
        BY <1>2, <1>3, <2>1 DEF OverallOK
    <2>4. HonestOK(q, S, C)
        BY <1>2, <2>1 DEF HonestOK, PeakArray
    <2>5. CoverOK(q, S, C)
        BY <1>2 DEF CoverOK
    <2> QED BY <2>2, <2>3, <2>4, <2>5
<1>5. RequestOK(q, S, C)
    BY <1>2, <1>3, <1>4 DEF RequestOK
<1> QED BY <1>2, <1>5 DEF q

(* A request that is idle, or whose snapshot is yet to be taken. *)
LEMMA StartKeeps ==
    ASSUME NEW S, NEW C, NEW cutoff \in Int, NEW solo \in BOOLEAN
    PROVE  /\ RequestOK(Idle, S, C) /\ Idle.at = "idle"
           /\ LET q == [Idle EXCEPT !.at = "snapshot", !.cutoff = cutoff, !.solo = solo]
              IN  RequestOK(q, S, C) /\ q.at = "snapshot" /\ (q.solo <=> solo)
<1> DEFINE q == [Idle EXCEPT !.at = "snapshot", !.cutoff = cutoff, !.solo = solo]
<1>1. << >> \in Seq(Nat)
    BY EmptySeq
<1>2. Idle \in Requests /\ Idle.at = "idle" /\ Idle.seed = 0 /\ Idle.own = << >>
    BY <1>1 DEF Idle, Requests
<1>3. q \in Requests /\ q.at = "snapshot" /\ q.seed = 0 /\ q.own = << >> /\ (q.solo <=> solo)
    BY <1>1 DEF Idle, Requests
<1> HIDE DEF q
<1>4. ~ Scanning(Idle) /\ ~ Scanning(q) /\ Idle.at # "snapshot"
    BY <1>2, <1>3 DEF Scanning
<1>5. RequestOK(Idle, S, C) /\ RequestOK(q, S, C)
    BY <1>2, <1>3, <1>4 DEF RequestOK
<1> QED BY <1>2, <1>3, <1>5 DEF q

(* The snapshot is taken. *)
LEMMA SnapshotKeeps ==
    ASSUME NEW S, NEW C, HeapOK(S, C), NEW r, RequestOK(r, S, C), r.at = "snapshot",
           NEW snap \in Seq(Nat), \A k \in 1 .. Len(snap) : snap[k] \in 1 .. Len(S)
    PROVE  RequestOK([r EXCEPT !.at = "scan", !.snap = snap, !.j = Len(snap)], S, C)
<1> DEFINE q == [r EXCEPT !.at = "scan", !.snap = snap, !.j = Len(snap)]
<1>1. r \in Requests /\ r.seed = 0 /\ r.own = << >>
    BY DEF RequestOK
<1>2. Len(snap) \in Nat
    BY LenProperties
<1>3. /\ q \in Requests /\ q.at = "scan" /\ q.snap = snap /\ q.j = Len(snap)
      /\ q.seed = 0 /\ q.own = << >>
    BY <1>1, <1>2 DEF Requests
<1> HIDE DEF q
<1>4. ~ Merging(q) /\ q.at # "store"
    BY <1>3 DEF Merging
<1>5. Seen(q, S) = {}
    <2>1. Len(snap) + 1 .. Len(snap) = {}
        BY <1>2
    <2> QED BY <1>3, <1>4, <2>1 DEF Seen, InWindow
<1>6. PlaceOK(q, S)
    BY <1>2, <1>3, <1>4 DEF PlaceOK
<1>7. OverallOK(q, S)
    BY <1>3, <1>5 DEF OverallOK
<1>8. HonestOK(q, S, C)
    <2>1. \A k \in 1 .. Len(q.own) : FALSE
        <3>1. Len(<< >>) = 0
            BY EmptySeq
        <3>2. \A k \in 1 .. 0 : FALSE
            OBVIOUS
        <3> QED BY <1>3, <3>1, <3>2
    <2> QED BY <1>3, <1>4, <2>1 DEF HonestOK
<1>9. CoverOK(q, S, C)
    BY <1>3 DEF CoverOK
<1>10. RequestOK(q, S, C)
    BY <1>3, <1>6, <1>7, <1>8, <1>9 DEF RequestOK
<1> QED BY <1>10 DEF q

LEMMA BufferedRange ==
    ASSUME PeakInv
    PROVE  Buffered \in Seq(Nat) /\ \A k \in 1 .. Len(Buffered) : Buffered[k] \in 1 .. Len(samples)
<1>1. Len(samples) \in Nat
    BY LenProperties DEF PeakInv, HeapOK
<1>2. Cap \in Nat \ {0}
    BY PeakAssumption
<1> DEFINE n == IF Now < Cap THEN Now ELSE Cap
           f == IF Now < Cap THEN 0 ELSE Now - Cap
<1>3. n \in Nat /\ f \in Nat /\ f + n <= Len(samples)
    BY <1>1, <1>2 DEF Now
<1>4. Buffered = [k \in 1 .. n |-> f + k]
    BY DEF Buffered
<1> HIDE DEF n, f
<1>5. \A k \in 1 .. n : f + k \in Nat /\ f + k \in 1 .. Len(samples)
    BY <1>1, <1>3
<1>6. Buffered \in Seq(Nat) /\ Len(Buffered) = n
    BY <1>3, <1>4, <1>5
<1> QED BY <1>4, <1>5, <1>6

-----------------------------------------------------------------------------
(* The steps of the program *)

LEMMA PeakFacts ==
    ASSUME PeakInv
    PROVE  /\ HeapOK(samples, cell) /\ req \in [Clients -> Requests] /\ reply \in [Clients -> Replies] /\ SoloInv
           /\ \A c \in Clients : RequestOK(req[c], samples, cell) /\ ReplyOK(reply[c], samples)
BY DEF PeakInv

(* Only c's request has moved. *)
LEMMA OneMoves ==
    ASSUME PeakInv, NEW c \in Clients, NEW q, RequestOK(q, samples, cell), q.at # "idle",
           q.solo <=> req[c].solo, req[c].at # "idle",
           req' = [req EXCEPT ![c] = q], UNCHANGED << samples, cell, reply >>
    PROVE  PeakInv'
<1>1. q \in Requests
    BY DEF RequestOK
<1>2. req' \in [Clients -> Requests] /\ req'[c] = q /\ \A b \in Clients \ {c} : req'[b] = req[b]
    BY <1>1, PeakFacts
<1>3. \A b \in Clients : RequestOK(req'[b], samples, cell)
    BY <1>2, PeakFacts
<1>4. SoloInv'
    BY <1>2, PeakFacts DEF SoloInv
<1> QED BY <1>2, <1>3, <1>4, PeakFacts DEF PeakInv

(* A sample is published: no array of an older one changes. *)
LEMMA PublishKeeps ==
    ASSUME PeakInv, NEW s \in CpuSamples,
           samples' = Append(samples, s), cell' = Append(cell, s.per), UNCHANGED << req, reply >>
    PROVE  PeakInv'
<1>1. /\ HeapOK(samples', cell') /\ Later(samples, cell, samples', cell')
      /\ \A i \in 1 .. Len(samples) : cell'[i] = cell[i]
    BY PeakFacts, HeapAppend
<1>2. ASSUME NEW c \in Clients
      PROVE  RequestOK(req[c], samples', cell')
    <2>1. RequestOK(req[c], samples, cell) /\ HeapOK(samples, cell)
        BY PeakFacts
    <2> QED BY <1>1, <2>1, RequestLater
<1>3. \A c \in Clients : ReplyOK(reply[c], samples')
    BY <1>1, PeakFacts, ReplyLater
<1>4. SoloInv'
    BY PeakFacts DEF SoloInv
<1> QED BY <1>1, <1>2, <1>3, <1>4, PeakFacts DEF PeakInv

LEMMA SampleKeeps ==
    ASSUME PeakInv, NEW overall \in Nat, NEW per \in Seq(Nat), Sample(overall, per)
    PROVE  PeakInv'
<1> DEFINE s == [ts |-> Epoch + Now + 1, overall |-> overall, per |-> per]
<1>1. Epoch + Now + 1 \in Nat
    BY PeakFacts, PeakAssumption, LenProperties DEF HeapOK, Now
<1>2. s \in CpuSamples /\ s.per = per
    BY <1>1 DEF CpuSamples
<1>3. samples' = Append(samples, s) /\ cell' = Append(cell, s.per) /\ UNCHANGED << req, reply >>
    BY <1>2 DEF Sample
<1> HIDE DEF s
<1> QED BY <1>2, <1>3, PublishKeeps

LEMMA SampleFailsKeeps ==
    ASSUME PeakInv, SampleFails
    PROVE  PeakInv'
<1> DEFINE s == [ts |-> 0, overall |-> 0, per |-> << >>]
<1>1. << >> \in Seq(Nat)
    BY EmptySeq
<1>2. s \in CpuSamples /\ s.per = << >>
    BY <1>1 DEF CpuSamples
<1>3. samples' = Append(samples, s) /\ cell' = Append(cell, s.per) /\ UNCHANGED << req, reply >>
    BY <1>2 DEF SampleFails
<1> HIDE DEF s
<1> QED BY <1>2, <1>3, PublishKeeps

(* An answer that says nothing. *)
LEMMA NoReplyOK ==
    ASSUME NEW S
    PROVE  ReplyOK(NoReply, S)
<1>1. << >> \in Seq(Nat) /\ Len(<< >>) = 0
    BY EmptySeq
<1>2. /\ NoReply \in Replies /\ ~ NoReply.present /\ NoReply.win = {} /\ NoReply.cores = << >>
    BY <1>1 DEF NoReply, Replies
<1>3. \A k \in 1 .. 0 : FALSE
    OBVIOUS
<1> QED BY <1>1, <1>2, <1>3 DEF ReplyOK

LEMMA RequestKeeps ==
    ASSUME PeakInv, NEW c \in Clients, NEW d \in Nat, Request(c, d)
    PROVE  PeakInv'
<1> DEFINE busy == {b \in Clients : req[b].at # "idle"}
           solo == busy = {}
           start == [Idle EXCEPT !.at = "snapshot", !.cutoff = Epoch + Now - d, !.solo = solo]
<1>1. Epoch + Now - d \in Int
    BY PeakFacts, PeakAssumption, LenProperties DEF HeapOK, Now
<1>2. solo \in BOOLEAN
    OBVIOUS
<1>3. /\ req' = [b \in Clients |-> IF b = c THEN start
                                   ELSE IF b \in busy THEN [req[b] EXCEPT !.solo = FALSE] ELSE req[b]]
      /\ reply' = [reply EXCEPT ![c] = NoReply] /\ UNCHANGED << samples, cell >>
      /\ req[c].at = "idle"
    BY DEF Request
<1>4. RequestOK(start, samples, cell) /\ start.at = "snapshot" /\ (start.solo <=> solo)
    <2> HIDE DEF solo
    <2> QED BY <1>1, <1>2, StartKeeps
<1> HIDE DEF start
<1>5. /\ req'[c] = start
      /\ \A b \in Clients \ {c} : req'[b] = IF b \in busy THEN [req[b] EXCEPT !.solo = FALSE] ELSE req[b]
      /\ DOMAIN req' = Clients /\ req' = [b \in Clients |-> req'[b]]
    BY <1>3
<1>6. ASSUME NEW b \in Clients \ {c}
      PROVE  RequestOK(req'[b], samples, cell) /\ (req'[b].at # "idle" => ~ req'[b].solo)
    <2>1. CASE b \in busy
        <3>1. RequestOK(req[b], samples, cell)
            BY PeakFacts
        <3>2. RequestOK([req[b] EXCEPT !.solo = FALSE], samples, cell) /\ ~ [req[b] EXCEPT !.solo = FALSE].solo
            BY <3>1, SoloLostKeeps
        <3> QED BY <1>5, <2>1, <3>2
    <2>2. CASE b \notin busy
        BY <1>5, <2>2, PeakFacts
    <2> QED BY <2>1, <2>2
<1>7. \A b \in Clients : RequestOK(req'[b], samples, cell)
    BY <1>4, <1>5, <1>6
<1>8. req' \in [Clients -> Requests]
    <2>1. \A b \in Clients : req'[b] \in Requests
        BY <1>7 DEF RequestOK
    <2> QED BY <1>5, <2>1
<1>9. SoloInv'
    <2>1. SUFFICES ASSUME NEW b \in Clients, req'[b].at # "idle", req'[b].solo, NEW e \in Clients \ {b}
                   PROVE  req'[e].at = "idle"
        BY DEF SoloInv
    <2>2. b = c
        BY <1>6, <2>1
    <2>3. busy = {}
        BY <1>4, <1>5, <2>1, <2>2
    <2>4. req'[e] = req[e]
        BY <1>5, <2>2, <2>3
    <2> QED BY <2>3, <2>4
<1>10. reply' \in [Clients -> Replies] /\ \A b \in Clients : ReplyOK(reply'[b], samples)
    <2>1. ReplyOK(NoReply, samples) /\ NoReply \in Replies
        BY NoReplyOK DEF ReplyOK
    <2> QED BY <1>3, <2>1, PeakFacts
<1> QED BY <1>3, <1>7, <1>8, <1>9, <1>10, PeakFacts DEF PeakInv

LEMMA TakeSnapshotKeeps ==
    ASSUME PeakInv, NEW c \in Clients, TakeSnapshot(c)
    PROVE  PeakInv'
<1> DEFINE r == req[c]
           q == [r EXCEPT !.at = "scan", !.snap = Buffered, !.j = Len(Buffered)]
<1>1. r.at = "snapshot" /\ UNCHANGED << samples, cell, reply >>
    BY DEF TakeSnapshot
<1>2. r \in Requests /\ RequestOK(r, samples, cell) /\ HeapOK(samples, cell)
    BY PeakFacts
<1>3. Buffered \in Seq(Nat) /\ Len(Buffered) \in Nat /\ \A k \in 1 .. Len(Buffered) : Buffered[k] \in 1 .. Len(samples)
    BY BufferedRange, LenProperties
<1>4. req' = [req EXCEPT ![c] = q]
    BY PeakFacts DEF TakeSnapshot
<1>5. RequestOK(q, samples, cell)
    <2> HIDE DEF r
    <2> QED BY <1>1, <1>2, <1>3, SnapshotKeeps
<1>6. q.at = "scan" /\ (q.solo <=> r.solo)
    BY <1>2, <1>3 DEF Requests
<1> HIDE DEF q
<1> QED BY <1>1, <1>4, <1>5, <1>6, OneMoves

LEMMA ScanKeeps ==
    ASSUME PeakInv, NEW c \in Clients, Scan(c)
    PROVE  PeakInv'
<1> DEFINE r == req[c]
           i == r.snap[r.j]
<1>1. /\ r \in Requests /\ RequestOK(r, samples, cell) /\ HeapOK(samples, cell)
      /\ req \in [Clients -> Requests]
    BY PeakFacts
<1>2. r.at = "scan" /\ r.j > 0 /\ UNCHANGED << samples, cell, reply >>
    BY DEF Scan
<1>3. PlaceOK(r, samples) /\ r.j \in Nat /\ Len(r.snap) \in Nat /\ r.cutoff \in Int
    BY <1>1, <1>2, RequestFields DEF RequestOK, Scanning
<1>4. i \in 1 .. Len(samples)
    BY <1>2, <1>3 DEF PlaceOK
<1>5. samples[i].ts \in Nat
    BY <1>1, <1>4, SampleFields
<1>6. CASE samples[i].ts < r.cutoff
    <2> DEFINE q == [r EXCEPT !.j = @ - 1]
    <2>1. req' = [req EXCEPT ![c] = q]
        BY <1>1, <1>6 DEF Scan
    <2>2. q.at = r.at /\ (q.solo <=> r.solo)
        BY <1>1 DEF Requests
    <2>3. RequestOK(q, samples, cell)
        <3> HIDE DEF r
        <3> QED BY <1>1, <1>2, <1>6, SkipKeeps
    <2> HIDE DEF q
    <2> QED BY <1>2, <2>1, <2>2, <2>3, OneMoves
<1>7. CASE ~ (samples[i].ts < r.cutoff) /\ r.seed = 0
    <2> DEFINE q == [r EXCEPT !.j = @ - 1, !.seed = i, !.ov = samples[i].overall]
    <2>1. req' = [req EXCEPT ![c] = q]
        BY <1>1, <1>7 DEF Scan
    <2>2. q.at = r.at /\ (q.solo <=> r.solo)
        BY <1>1 DEF Requests
    <2>3. samples[i].ts >= r.cutoff
        BY <1>3, <1>5, <1>7
    <2>4. RequestOK(q, samples, cell)
        <3> HIDE DEF r
        <3> QED BY <1>1, <1>2, <1>7, <2>3, SeedKeeps
    <2> HIDE DEF q
    <2> QED BY <1>2, <2>1, <2>2, <2>4, OneMoves
<1>8. CASE ~ (samples[i].ts < r.cutoff) /\ r.seed # 0
    <2> DEFINE q == [r EXCEPT !.ov = Raise(samples[i].overall, @),
                              !.own = IF Len(cell[i]) > Len(PeakArray(r, cell)) THEN cell[i] ELSE @,
                              !.at = "merge", !.core = 1]
    <2>1. req' = [req EXCEPT ![c] = q]
        BY <1>1, <1>8 DEF Scan, Target, PeakArray
    <2>2. q.at = "merge" /\ (q.solo <=> r.solo)
        BY <1>1 DEF Requests
    <2>3. samples[i].ts >= r.cutoff
        BY <1>3, <1>5, <1>8
    <2>4. RequestOK(q, samples, cell)
        <3> HIDE DEF r
        <3> QED BY <1>1, <1>2, <1>8, <2>3, RaiseKeeps
    <2> HIDE DEF q
    <2> QED BY <1>2, <2>1, <2>2, <2>4, OneMoves
<1> QED BY <1>6, <1>7, <1>8

LEMMA MergeKeeps ==
    ASSUME PeakInv, NEW c \in Clients, Merge(c)
    PROVE  PeakInv'
<1> DEFINE r == req[c]
           i == r.snap[r.j]
<1>1. /\ r \in Requests /\ RequestOK(r, samples, cell) /\ HeapOK(samples, cell)
      /\ req \in [Clients -> Requests]
    BY PeakFacts
<1>2. r.at = "merge" /\ UNCHANGED << samples, cell, reply >>
    BY DEF Merge
<1>3. CASE r.core > Len(cell[i])
    <2> DEFINE q == [r EXCEPT !.at = "scan", !.j = @ - 1, !.core = 0]
    <2>1. req' = [req EXCEPT ![c] = q]
        BY <1>1, <1>3 DEF Merge
    <2>2. q.at = "scan" /\ (q.solo <=> r.solo)
        BY <1>1 DEF Requests
    <2>3. RequestOK(q, samples, cell)
        <3> HIDE DEF r
        <3> QED BY <1>1, <1>2, <1>3, MergeEndKeeps
    <2> HIDE DEF q
    <2> QED BY <1>2, <2>1, <2>2, <2>3, OneMoves
<1>4. CASE ~ (r.core > Len(cell[i])) /\ r.core <= Len(PeakArray(r, cell)) /\ cell[i][r.core] > PeakArray(r, cell)[r.core]
    <2> DEFINE q == [r EXCEPT !.at = "store", !.v = cell[i][r.core]]
    <2>1. req' = [req EXCEPT ![c] = q]
        BY <1>1, <1>4 DEF Merge, Target, PeakArray
    <2>2. q.at = "store" /\ (q.solo <=> r.solo)
        BY <1>1 DEF Requests
    <2>3. RequestOK(q, samples, cell)
        <3> HIDE DEF r
        <3> QED BY <1>1, <1>2, <1>4, MergeAboveKeeps
    <2> HIDE DEF q
    <2> QED BY <1>2, <2>1, <2>2, <2>3, OneMoves
<1>5. CASE /\ ~ (r.core > Len(cell[i]))
           /\ ~ (r.core <= Len(PeakArray(r, cell)) /\ cell[i][r.core] > PeakArray(r, cell)[r.core])
    <2> DEFINE q == [r EXCEPT !.core = @ + 1]
    <2>1. req' = [req EXCEPT ![c] = q]
        BY <1>1, <1>5 DEF Merge, Target, PeakArray
    <2>2. q.at = r.at /\ (q.solo <=> r.solo)
        BY <1>1 DEF Requests
    <2>3. RequestOK(q, samples, cell)
        <3> HIDE DEF r
        <3> QED BY <1>1, <1>2, <1>5, MergeBelowKeeps
    <2> HIDE DEF q
    <2> QED BY <1>2, <2>1, <2>2, <2>3, OneMoves
<1> QED BY <1>3, <1>4, <1>5

LEMMA StoreKeeps ==
    ASSUME PeakInv, NEW c \in Clients, Store(c)
    PROVE  PeakInv'
<1> DEFINE r == req[c]
           next == [r EXCEPT !.at = "merge", !.core = @ + 1, !.v = 0]
<1>1. /\ r \in Requests /\ RequestOK(r, samples, cell) /\ HeapOK(samples, cell)
      /\ req \in [Clients -> Requests]
    BY PeakFacts
<1>2. r.at = "store" /\ UNCHANGED << samples, reply >>
    BY DEF Store
<1>3. next.at = "merge" /\ (next.solo <=> r.solo)
    BY <1>1 DEF Requests
<1>4. CASE r.own # << >>
    <2> DEFINE q == [next EXCEPT !.own[r.core] = r.v]
    <2>1. req' = [req EXCEPT ![c] = q] /\ UNCHANGED cell
        BY <1>4 DEF Store
    <2>2. q.at = "merge" /\ (q.solo <=> r.solo)
        BY <1>1 DEF Requests
    <2>3. RequestOK(q, samples, cell)
        <3> HIDE DEF r
        <3> QED BY <1>1, <1>2, <1>4, StoreOwnKeeps
    <2> HIDE DEF q
    <2> QED BY <1>2, <2>1, <2>2, <2>3, OneMoves
<1>5. CASE r.own = << >>
    <2>1. req' = [req EXCEPT ![c] = next] /\ cell' = [cell EXCEPT ![r.seed][r.core] = r.v]
        BY <1>5 DEF Store
    <2>2. /\ HeapOK(samples, cell') /\ Later(samples, cell, samples, cell')
          /\ RequestOK(next, samples, cell')
        <3> HIDE DEF r
        <3> QED BY <1>1, <1>2, <1>5, <2>1, StoreSharedKeeps
    <2> HIDE DEF next
    <2>3. next \in Requests
        BY <2>2 DEF RequestOK
    <2>4. req' \in [Clients -> Requests] /\ req'[c] = next /\ \A b \in Clients \ {c} : req'[b] = req[b]
        BY <1>1, <2>1, <2>3
    <2>5. ASSUME NEW b \in Clients \ {c}
          PROVE  RequestOK(req[b], samples, cell')
        <3>1. ~ (Scanning(req[b]) /\ req[b].solo)
            BY <1>2, PeakFacts DEF SoloInv, Scanning
        <3>2. RequestOK(req[b], samples, cell)
            BY PeakFacts
        <3> QED BY <1>1, <2>2, <3>1, <3>2, RequestLater
    <2>6. \A b \in Clients : RequestOK(req'[b], samples, cell')
        BY <2>2, <2>4, <2>5
    <2>7. SoloInv'
        BY <1>2, <1>3, <2>4, PeakFacts DEF SoloInv
    <2> QED BY <1>2, <2>2, <2>4, <2>6, <2>7, PeakFacts DEF PeakInv
<1> QED BY <1>4, <1>5

LEMMA AnswerKeeps ==
    ASSUME PeakInv, NEW c \in Clients, NEW a, ReplyOK(a, samples),
           reply' = [reply EXCEPT ![c] = a], UNCHANGED << samples, cell >>
    PROVE  reply' \in [Clients -> Replies] /\ \A b \in Clients : ReplyOK(reply'[b], samples)
<1>1. a \in Replies
    BY DEF ReplyOK
<1> QED BY <1>1, PeakFacts

LEMMA RespondStep ==
    ASSUME PeakInv, NEW c \in Clients, Respond(c)
    PROVE  PeakInv'
<1> DEFINE r == req[c]
           a == [code |-> 200, present |-> r.seed # 0, ov |-> r.ov,
                 cores |-> IF r.seed # 0 THEN PeakArray(r, cell) ELSE << >>,
                 win |-> {i \in {r.snap[k] : k \in 1 .. Len(r.snap)} : samples[i].ts >= r.cutoff},
                 solo |-> r.solo]
<1>1. /\ RequestOK(r, samples, cell) /\ HeapOK(samples, cell)
      /\ req \in [Clients -> Requests]
    BY PeakFacts
<1>2. r.at = "scan" /\ r.j = 0 /\ UNCHANGED << samples, cell >> /\ req' = [req EXCEPT ![c] = Idle]
    BY DEF Respond
<1>3. reply' = [reply EXCEPT ![c] = a]
    BY DEF Respond, Target, PeakArray
<1>4. ReplyOK(a, samples)
    <2> HIDE DEF r
    <2> QED BY <1>1, <1>2, RespondKeeps
<1> HIDE DEF a
<1>5. reply' \in [Clients -> Replies] /\ \A b \in Clients : ReplyOK(reply'[b], samples)
    BY <1>2, <1>3, <1>4, AnswerKeeps
<1>6. RequestOK(Idle, samples, cell) /\ Idle.at = "idle" /\ Idle \in Requests
    <2>1. 0 \in Int /\ TRUE \in BOOLEAN
        OBVIOUS
    <2> QED BY <2>1, StartKeeps DEF RequestOK
<1>7. req' \in [Clients -> Requests] /\ req'[c] = Idle /\ \A b \in Clients \ {c} : req'[b] = req[b]
    BY <1>1, <1>2, <1>6
<1>8. \A b \in Clients : RequestOK(req'[b], samples, cell)
    BY <1>6, <1>7, PeakFacts
<1>9. SoloInv'
    BY <1>6, <1>7, PeakFacts DEF SoloInv
<1> QED BY <1>1, <1>2, <1>5, <1>7, <1>8, <1>9 DEF PeakInv

(* The latest sample, with its array as it stands. *)
LEMMA CpuLatestKeeps ==
    ASSUME PeakInv, NEW c \in Clients, CpuLatest(c)
    PROVE  PeakInv'
<1> DEFINE a == [NoReply EXCEPT !.code = 200, !.present = TRUE, !.ov = samples[Now].overall,
                                !.cores = cell[Now], !.win = {Now}]
<1>1. HeapOK(samples, cell)
    BY PeakFacts
<1>2. Now \in Nat /\ Now \in 1 .. Len(samples)
    <2>1. Len(samples) \in Nat
        BY <1>1, LenProperties DEF HeapOK
    <2> QED BY <2>1 DEF Now, CpuLatest
<1>3. /\ samples[Now].overall \in Nat /\ cell[Now] \in Seq(Nat)
      /\ Len(cell[Now]) = Len(samples[Now].per) /\ Len(cell[Now]) \in Nat
      /\ \A k \in 1 .. Len(cell[Now]) : cell[Now][k] \in Measured(k, samples) /\ cell[Now][k] >= samples[Now].per[k]
    BY <1>1, <1>2, SampleFields
<1>4. /\ a \in Replies /\ a.present /\ a.ov = samples[Now].overall /\ a.cores = cell[Now] /\ a.win = {Now}
    BY <1>2, <1>3 DEF NoReply, Replies
<1> HIDE DEF a
<1>5. ReplyOK(a, samples)
    BY <1>2, <1>3, <1>4 DEF ReplyOK
<1>6. reply' = [reply EXCEPT ![c] = a] /\ UNCHANGED << samples, cell, req >>
    BY DEF CpuLatest, a
<1>7. reply' \in [Clients -> Replies] /\ \A b \in Clients : ReplyOK(reply'[b], samples)
    BY <1>5, <1>6, AnswerKeeps
<1>8. SoloInv'
    BY <1>6, PeakFacts DEF SoloInv
<1> QED BY <1>6, <1>7, <1>8, PeakFacts DEF PeakInv

-----------------------------------------------------------------------------
(* The invariant *)

LEMMA PeakInit ==
    ASSUME Init
    PROVE  PeakInv
<1>1. << >> \in Seq(CpuSamples) /\ << >> \in Seq(Seq(Nat)) /\ Len(<< >>) = 0
    BY EmptySeq
<1>2. \A i \in 1 .. 0 : FALSE
    OBVIOUS
<1>3. HeapOK(samples, cell)
    BY <1>1, <1>2 DEF Init, HeapOK
<1>4. RequestOK(Idle, samples, cell) /\ Idle.at = "idle" /\ Idle \in Requests
    <2>1. 0 \in Int /\ TRUE \in BOOLEAN
        OBVIOUS
    <2> QED BY <2>1, StartKeeps DEF RequestOK
<1>5. ReplyOK(NoReply, samples) /\ NoReply \in Replies
    BY NoReplyOK DEF ReplyOK
<1>6. req = [c \in Clients |-> Idle] /\ reply = [c \in Clients |-> NoReply]
    BY DEF Init
<1>7. SoloInv
    BY <1>4, <1>6 DEF SoloInv
<1> QED BY <1>3, <1>4, <1>5, <1>6, <1>7 DEF PeakInv

LEMMA PeakStutter ==
    ASSUME PeakInv, UNCHANGED vars
    PROVE  PeakInv'
<1>1. samples' = samples /\ cell' = cell /\ req' = req /\ reply' = reply
    BY DEF vars
<1>2. SoloInv'
    BY <1>1, PeakFacts DEF SoloInv
<1> QED BY <1>1, <1>2, PeakFacts DEF PeakInv

(* A reading of any width is a sequence of loads. *)
LEMMA ReadingsAreSeqs ==
    ASSUME NEW L, L \subseteq Nat, NEW W, W \subseteq Nat \ {0},
           NEW per \in UNION {[1 .. n -> L] : n \in W}
    PROVE  per \in Seq(Nat)
<1>1. PICK n \in W : per \in [1 .. n -> L]
    OBVIOUS
<1>2. n \in Nat /\ per \in [1 .. n -> Nat]
    BY <1>1
<1> QED BY <1>2

LEMMA PeakNext ==
    ASSUME PeakInv, [Next]_vars
    PROVE  PeakInv'
<1>1. ASSUME NEW overall \in Loads, NEW per \in Readings, Sample(overall, per)
      PROVE  PeakInv'
    <2>1. overall \in Nat /\ per \in Seq(Nat)
        BY PeakAssumption, ReadingsAreSeqs DEF Readings
    <2> QED BY <1>1, <2>1, SampleKeeps
<1>2. CASE SampleFails
    BY <1>2, SampleFailsKeeps
<1>3. ASSUME NEW c \in Clients, NEW d \in Windows, Request(c, d)
      PROVE  PeakInv'
    <2>1. d \in Nat
        BY PeakAssumption
    <2> QED BY <1>3, <2>1, RequestKeeps
<1>4. ASSUME NEW c \in Clients, TakeSnapshot(c) \/ Scan(c) \/ Merge(c) \/ Store(c) \/ Respond(c)
      PROVE  PeakInv'
    BY <1>4, TakeSnapshotKeeps, ScanKeeps, MergeKeeps, StoreKeeps, RespondStep
<1>5. CASE UNCHANGED vars
    BY <1>5, PeakStutter
<1> QED BY <1>1, <1>2, <1>3, <1>4, <1>5 DEF Next

(* The invariant of the cpu module's Peak on its own, for any clients,      *)
(* loads, core counts, windows and capacity: what each request has read and *)
(* what it is about to store, in terms of the samples it has gone through.  *)
THEOREM PeakInvariant == Spec => []PeakInv
<1>1. Init => PeakInv
    BY PeakInit
<1>2. PeakInv /\ [Next]_vars => PeakInv'
    BY PeakNext
<1> QED BY <1>1, <1>2, PTL DEF Spec

-----------------------------------------------------------------------------
(* The peaks of the memory and the gpu module *)

(* A memory sample uses more than there is only if more is available. *)
MemorySamples ==
    {s \in [present : {TRUE}, ts : Nat, ok : BOOLEAN, total : Nat, available : Nat, used : Nat, pct : {0}] :
        /\ s.available <= s.total => s.used <= s.total /\ s.used <= Total
        /\ s.ok => s.total = Total}

(* A memory peak under way may have its use from another sample. *)
MemoryPeaks ==
    [present : {TRUE}, ts : Nat, ok : BOOLEAN, total : Nat, available : Nat, used : Nat, pct : {0}]
        \cup {Nothing}

GpuSamples == [present : {TRUE}, ts : Nat, dev : [Devices -> [load : Nat, err : BOOLEAN]]]
GpuPeaks == GpuSamples \cup {Nothing}

InOrder(h) == \A i, j \in 1 .. Len(h) : i <= j => h[i].ts <= h[j].ts

(* The end of Peak: the percentage of the peak's own use and total. *)
WithPct(peak) ==
    IF peak.present /\ peak.total > 0
      THEN [peak EXCEPT !.pct = (100 * peak.used) \div peak.total]
      ELSE peak

LEMMA MemoryFields ==
    ASSUME NEW s \in MemorySamples
    PROVE  /\ s.present = TRUE /\ s.ts \in Nat /\ s.ok \in BOOLEAN /\ s.total \in Nat
           /\ s.available \in Nat /\ s.used \in Nat /\ s.pct = 0 /\ s \in MemoryPeaks
           /\ s.used <= Total \/ s.available > s.total
           /\ s.used > s.total => s.available > s.total
           /\ s.ok => s.total = Total
<1>1. /\ s \in [present : {TRUE}, ts : Nat, ok : BOOLEAN, total : Nat, available : Nat, used : Nat, pct : {0}]
      /\ s.available <= s.total => s.used <= s.total /\ s.used <= Total
      /\ s.ok => s.total = Total
    BY DEF MemorySamples
<1>2. /\ s.present = TRUE /\ s.ts \in Nat /\ s.ok \in BOOLEAN /\ s.total \in Nat
      /\ s.available \in Nat /\ s.used \in Nat /\ s.pct = 0 /\ s \in MemoryPeaks
    BY <1>1 DEF MemoryPeaks
<1>3. s.used <= Total \/ s.available > s.total
    BY <1>1, <1>2
<1>4. s.used > s.total => s.available > s.total
    BY <1>1, <1>2
<1> QED BY <1>1, <1>2, <1>3, <1>4

LEMMA MemoryMergeIs ==
    ASSUME NEW p \in MemoryPeaks, NEW s \in MemorySamples, NEW cutoff \in Int
    PROVE  LET q == MemoryMerge(p, s, cutoff)
           IN  /\ q \in MemoryPeaks
               /\ s.ts < cutoff => q = p
               /\ ~ (s.ts < cutoff) /\ p = Nothing => q = s
               /\ ~ (s.ts < cutoff) /\ p # Nothing =>
                     /\ q # Nothing /\ q.used = Raise(s.used, p.used)
                     /\ q.ts = p.ts /\ q.ok = p.ok /\ q.total = p.total
<1> DEFINE q == MemoryMerge(p, s, cutoff)
<1>1. s \in MemoryPeaks /\ s.used \in Nat
    BY MemoryFields
<1>2. Nothing.present = FALSE
    BY DEF Nothing
<1>3. CASE s.ts < cutoff
    <2>1. q = p
        BY <1>3 DEF MemoryMerge
    <2> QED BY <1>3, <2>1
<1>4. CASE ~ (s.ts < cutoff) /\ p = Nothing
    <2>1. q = s
        BY <1>2, <1>4 DEF MemoryMerge
    <2> QED BY <1>1, <1>4, <2>1
<1>5. CASE ~ (s.ts < cutoff) /\ p # Nothing
    <2>1. p \in [present : {TRUE}, ts : Nat, ok : BOOLEAN, total : Nat, available : Nat, used : Nat, pct : {0}]
        BY <1>5 DEF MemoryPeaks
    <2>2. p.present = TRUE
        BY <2>1
    <2>3. q = [p EXCEPT !.used = Raise(s.used, @)]
        BY <1>5, <2>2 DEF MemoryMerge
    <2>4. Raise(s.used, p.used) \in Nat
        BY <1>1, <2>1 DEF Raise
    <2> HIDE DEF q
    <2>5. q \in [present : {TRUE}, ts : Nat, ok : BOOLEAN, total : Nat, available : Nat, used : Nat, pct : {0}]
        BY <2>1, <2>3, <2>4
    <2>6. q.present = TRUE
        BY <2>5
    <2>7. q # Nothing
        BY <1>2, <2>6
    <2>8. q.used = Raise(s.used, p.used) /\ q.ts = p.ts /\ q.ok = p.ok /\ q.total = p.total
        BY <2>1, <2>3
    <2> QED BY <1>5, <2>5, <2>7, <2>8 DEF MemoryPeaks, q
<1> QED BY <1>3, <1>4, <1>5

(* The scan of the memory module's Peak: f[n] is the peak after the newest n *)
(* samples.                                                                  *)
LEMMA MemoryUnfolds ==
    ASSUME NEW snap \in Seq(MemorySamples), NEW cutoff \in Int
    PROVE  \E f \in [0 .. Len(snap) -> MemoryPeaks] :
              /\ MemoryPeak(snap, cutoff) = WithPct(f[Len(snap)])
              /\ f[0] = Nothing
              /\ \A n \in 1 .. Len(snap) :
                    f[n] = MemoryMerge(f[n - 1], snap[Len(snap) - n + 1], cutoff)
<1> DEFINE N == Len(snap)
           A == MemoryPeaks
           a == Nothing
           Step(n, x) == MemoryMerge(x, snap[Len(snap) - n + 1], cutoff)
           g == [n \in 1 .. N |-> [x \in A |-> Step(n, x)]]
           Eq(f) == f = [n \in 0 .. N |-> IF n = 0 THEN a ELSE Step(n, f[n - 1])]
<1>1. N \in Nat /\ a \in A
    BY DEF MemoryPeaks
<1>2. \A n \in 1 .. N, x \in A : Step(n, x) \in A
    <2>1. \A n \in 1 .. N : snap[Len(snap) - n + 1] \in MemorySamples
        OBVIOUS
    <2> QED BY <2>1, MemoryMergeIs
<1>3. (\E f : Eq(f)) => \E f : Eq(f) /\ MemoryPeak(snap, cutoff) = WithPct(f[N])
    BY Zenon DEF MemoryPeak, WithPct
<1> HIDE DEF N, A, a, Step
<1>4. Steps(g, N, A) /\ \A n \in 1 .. N, x \in A : g[n][x] = Step(n, x)
    BY <1>2 DEF Steps
<1> HIDE DEF g
<1>5. \E f : Eq(f)
    <2>1. PICK f : Iterates(f, N, A, a, g)
        BY <1>1, <1>4, Iteration
    <2>2. \A n \in 0 .. N : f[n] = IF n = 0 THEN a ELSE Step(n, f[n - 1])
        BY <1>1, <1>4, <2>1 DEF Iterates
    <2>3. f = [n \in 0 .. N |-> f[n]]
        BY <2>1 DEF Iterates
    <2>4. Eq(f)
        BY <2>2, <2>3, Zenon
    <2> QED BY <2>4
<1>6. PICK f : Eq(f) /\ MemoryPeak(snap, cutoff) = WithPct(f[N])
    BY <1>3, <1>5
<1>7. f[0] = a /\ \A n \in 1 .. N : f[n] = Step(n, f[n - 1])
    BY <1>1, <1>6
<1>8. f = [n \in 0 .. N |-> f[n]]
    BY <1>6
<1>9. \A n \in 1 .. N : f[n - 1] \in A => f[n] = g[n][f[n - 1]]
    BY <1>4, <1>7
<1>10. Iterates(f, N, A, a, g)
    BY <1>1, <1>4, <1>7, <1>8, <1>9, IterationType
<1>11. f \in [0 .. N -> A]
    BY <1>10 DEF Iterates
<1> QED BY <1>6, <1>7, <1>11 DEF N, A, a, Step

(* The peak p of the samples of snap from position m on. *)
MemoryFound(p, snap, cutoff, m) ==
    /\ p = Nothing => \A i \in m .. Len(snap) : snap[i].ts < cutoff
    /\ p # Nothing =>
          /\ \E k \in m .. Len(snap) :
                /\ snap[k].ts >= cutoff /\ p.ts = snap[k].ts
                /\ p.ok = snap[k].ok /\ p.total = snap[k].total
          /\ \E k \in m .. Len(snap) : snap[k].ts >= cutoff /\ p.used = snap[k].used
          /\ \A i \in m .. Len(snap) :
                snap[i].ts >= cutoff => snap[i].used <= p.used /\ snap[i].ts <= p.ts

LEMMA MemoryFoundMore ==
    ASSUME NEW snap \in Seq(MemorySamples), NEW cutoff \in Int, InOrder(snap),
           NEW m \in 1 .. Len(snap), NEW p \in MemoryPeaks, MemoryFound(p, snap, cutoff, m + 1)
    PROVE  MemoryFound(MemoryMerge(p, snap[m], cutoff), snap, cutoff, m)
<1> DEFINE s == snap[m]
           q == MemoryMerge(p, s, cutoff)
<1>1. s \in MemorySamples /\ Len(snap) \in Nat
    OBVIOUS
<1>2. s.ts \in Nat /\ s.used \in Nat /\ s # Nothing
    <2>1. s.present = TRUE /\ s.ts \in Nat /\ s.used \in Nat
        BY <1>1, MemoryFields
    <2>2. Nothing.present = FALSE
        BY DEF Nothing
    <2> QED BY <2>1, <2>2
<1>3. \A i \in m .. Len(snap) : i = m \/ i \in m + 1 .. Len(snap)
    BY <1>1
<1>4. m \in m .. Len(snap) /\ m + 1 .. Len(snap) \subseteq m .. Len(snap)
    BY <1>1
<1>5. \A i \in 1 .. Len(snap) : snap[i].ts \in Nat /\ snap[i].used \in Nat
    <2>1. \A i \in 1 .. Len(snap) : snap[i] \in MemorySamples
        OBVIOUS
    <2> QED BY <2>1, MemoryFields
<1>6. m + 1 .. Len(snap) \subseteq 1 .. Len(snap) /\ m .. Len(snap) \subseteq 1 .. Len(snap)
    BY <1>1
<1>7. \A i \in m + 1 .. Len(snap) : s.ts <= snap[i].ts
    BY <1>6 DEF InOrder
<1>8. CASE s.ts < cutoff
    <2>1. q = p
        BY <1>1, <1>8, MemoryMergeIs
    <2>2. ~ (snap[m].ts >= cutoff)
        BY <1>2, <1>8
    <2> HIDE DEF q
    <2>3. MemoryFound(p, snap, cutoff, m)
        BY <1>3, <1>4, <1>8, <2>2 DEF MemoryFound
    <2> QED BY <2>1, <2>3 DEF q
<1>9. CASE ~ (s.ts < cutoff) /\ p = Nothing
    <2>1. q = s
        BY <1>1, <1>9, MemoryMergeIs
    <2>2. \A i \in m + 1 .. Len(snap) : ~ (snap[i].ts >= cutoff)
        BY <1>5, <1>6, <1>9 DEF MemoryFound
    <2>3. snap[m].ts >= cutoff /\ snap[m].used <= snap[m].used /\ snap[m].ts <= snap[m].ts
        BY <1>2, <1>9
    <2> HIDE DEF q
    <2>4. MemoryFound(s, snap, cutoff, m)
        BY <1>2, <1>3, <1>4, <2>2, <2>3 DEF MemoryFound
    <2> QED BY <2>1, <2>4 DEF q
<1>10. CASE ~ (s.ts < cutoff) /\ p # Nothing
    <2>1. /\ q # Nothing /\ q.used = Raise(s.used, p.used)
          /\ q.ts = p.ts /\ q.ok = p.ok /\ q.total = p.total
        BY <1>1, <1>10, MemoryMergeIs
    <2>2. PICK k \in m + 1 .. Len(snap) :
              /\ snap[k].ts >= cutoff /\ p.ts = snap[k].ts
              /\ p.ok = snap[k].ok /\ p.total = snap[k].total
        BY <1>10 DEF MemoryFound
    <2>3. PICK l \in m + 1 .. Len(snap) : snap[l].ts >= cutoff /\ p.used = snap[l].used
        BY <1>10 DEF MemoryFound
    <2>4. \A i \in m + 1 .. Len(snap) :
              snap[i].ts >= cutoff => snap[i].used <= p.used /\ snap[i].ts <= p.ts
        BY <1>10 DEF MemoryFound
    <2>5. p.used \in Nat /\ p.ts \in Nat /\ s.ts <= p.ts /\ s.ts >= cutoff
        BY <1>2, <1>5, <1>6, <1>7, <1>10, <2>2, <2>3
    <2> HIDE DEF q
    <2>6. \/ q.used = p.used /\ s.used <= p.used
          \/ q.used = s.used /\ p.used <= s.used
        BY <1>2, <2>1, <2>5 DEF Raise
    <2>7. \E j \in m .. Len(snap) : snap[j].ts >= cutoff /\ q.used = snap[j].used
        BY <1>4, <2>3, <2>5, <2>6
    <2>8. ASSUME NEW i \in m .. Len(snap), snap[i].ts >= cutoff
          PROVE  snap[i].used <= q.used /\ snap[i].ts <= q.ts
        <3>1. CASE i = m
            BY <1>2, <2>1, <2>5, <2>6, <3>1
        <3>2. CASE i \in m + 1 .. Len(snap)
            <4>1. snap[i].used <= p.used /\ snap[i].ts <= p.ts /\ snap[i].used \in Nat
                BY <1>5, <1>6, <2>4, <2>8, <3>2
            <4> QED BY <1>2, <2>1, <2>5, <2>6, <4>1
        <3> QED BY <1>3, <3>1, <3>2
    <2>9. MemoryFound(q, snap, cutoff, m)
        BY <1>4, <2>1, <2>2, <2>7, <2>8 DEF MemoryFound
    <2> QED BY <2>9 DEF q
<1> QED BY <1>8, <1>9, <1>10

(* What the scan has found when it has seen the whole history. *)
LEMMA MemoryScanned ==
    ASSUME NEW snap \in Seq(MemorySamples), NEW cutoff \in Int, InOrder(snap)
    PROVE  \E p \in MemoryPeaks :
              MemoryPeak(snap, cutoff) = WithPct(p) /\ MemoryFound(p, snap, cutoff, 1)
<1>1. PICK f \in [0 .. Len(snap) -> MemoryPeaks] :
              /\ MemoryPeak(snap, cutoff) = WithPct(f[Len(snap)])
              /\ f[0] = Nothing
              /\ \A n \in 1 .. Len(snap) :
                    f[n] = MemoryMerge(f[n - 1], snap[Len(snap) - n + 1], cutoff)
    BY MemoryUnfolds
<1> DEFINE N == Len(snap)
           S == {n \in 0 .. N : MemoryFound(f[n], snap, cutoff, N - n + 1)}
<1>2. N \in Nat /\ 0 \in 0 .. N /\ N \in 0 .. N
    OBVIOUS
<1>3. 0 \in S
    <2>1. N - 0 + 1 .. N = {}
        BY <1>2
    <2>2. MemoryFound(f[0], snap, cutoff, N - 0 + 1)
        BY <1>1, <2>1 DEF MemoryFound
    <2> QED BY <1>2, <2>2
<1>4. ASSUME NEW n \in 0 .. N - 1, n \in S PROVE n + 1 \in S
    <2>1. PICK l \in 1 .. N : l = n + 1 /\ l - 1 = n /\ l \in 0 .. N
        BY <1>2
    <2>2. PICK m \in 1 .. N : m = N - l + 1 /\ m + 1 = N - n + 1
        <3>1. N - l + 1 \in 1 .. N /\ N - l + 1 + 1 = N - n + 1
            BY <1>2, <2>1
        <3> QED BY <3>1
    <2>3. f[n] \in MemoryPeaks /\ MemoryFound(f[n], snap, cutoff, m + 1)
        BY <1>4, <2>2
    <2>4. f[l] = MemoryMerge(f[n], snap[m], cutoff)
        BY <1>1, <2>1, <2>2
    <2>5. MemoryFound(f[l], snap, cutoff, m)
        BY <2>2, <2>3, <2>4, MemoryFoundMore
    <2> QED BY <2>1, <2>2, <2>5
<1> HIDE DEF S
<1>5. \A n \in 0 .. N - 1 : n \in S => n + 1 \in S
    BY <1>4
<1>6. N \in S
    <2> HIDE DEF N
    <2> QED BY <1>2, <1>3, <1>5, SetInduction
<1>7. MemoryFound(f[N], snap, cutoff, 1)
    <2>1. N - N + 1 = 1
        BY <1>2
    <2> QED BY <1>6, <2>1 DEF S
<1>8. f[N] \in MemoryPeaks
    BY <1>2
<1> QED BY <1>1, <1>7, <1>8

(* The largest element, if it is one. *)
LEMMA MaxIs ==
    ASSUME NEW S, NEW x \in S, x \in Nat, \A y \in S : y \in Nat /\ y <= x
    PROVE  Max(S) = x
<1>1. \A y \in S : x >= y
    OBVIOUS
<1>2. \A z \in S : (\A y \in S : z >= y) => z = x
    OBVIOUS
<1> QED BY <1>1, <1>2 DEF Max

LEMMA WindowOfIs ==
    ASSUME NEW snap, NEW cutoff
    PROVE  /\ \A i \in 1 .. Len(snap) : snap[i].ts >= cutoff => snap[i] \in WindowOf(snap, cutoff)
           /\ \A s \in WindowOf(snap, cutoff) :
                 \E i \in 1 .. Len(snap) : s = snap[i] /\ snap[i].ts >= cutoff
BY DEF WindowOf

(* What is asked of the memory section of a peak answer. *)
MemoryPeakOf(p, win) ==
    /\ p.used = Max({s.used : s \in win})
    /\ p.ts = Max({s.ts : s \in win})
    /\ \E s \in win : s.ts = p.ts /\ s.ok = p.ok /\ s.total = p.total
    /\ p.ok /\ (p.used > p.total \/ p.pct > 100) => \E s \in win : s.available > s.total

(* The scan's result has the largest use and the newest time of the window, *)
(* and the rest of one sample.                                              *)
LEMMA MemoryFoundIs ==
    ASSUME NEW snap \in Seq(MemorySamples), NEW cutoff \in Int,
           NEW p \in MemoryPeaks, p # Nothing, MemoryFound(p, snap, cutoff, 1)
    PROVE  /\ p.used = Max({s.used : s \in WindowOf(snap, cutoff)})
           /\ p.ts = Max({s.ts : s \in WindowOf(snap, cutoff)})
           /\ \E s \in WindowOf(snap, cutoff) : s.ts = p.ts /\ s.ok = p.ok /\ s.total = p.total
           /\ p.used <= Total \/ \E s \in WindowOf(snap, cutoff) : s.available > s.total
           /\ p.ok => p.total = Total
<1> DEFINE W == WindowOf(snap, cutoff)
<1>1. /\ \A i \in 1 .. Len(snap) : snap[i].ts >= cutoff => snap[i] \in W
      /\ \A s \in W : \E i \in 1 .. Len(snap) : s = snap[i] /\ snap[i].ts >= cutoff
    BY WindowOfIs
<1> HIDE DEF W
<1>2. /\ \E k \in 1 .. Len(snap) :
            /\ snap[k].ts >= cutoff /\ p.ts = snap[k].ts
            /\ p.ok = snap[k].ok /\ p.total = snap[k].total
      /\ \E k \in 1 .. Len(snap) : snap[k].ts >= cutoff /\ p.used = snap[k].used
      /\ \A i \in 1 .. Len(snap) : snap[i].ts >= cutoff => snap[i].used <= p.used /\ snap[i].ts <= p.ts
    BY DEF MemoryFound
<1>3. \A i \in 1 .. Len(snap) :
          /\ snap[i].ts \in Nat /\ snap[i].used \in Nat
          /\ snap[i].used <= Total \/ snap[i].available > snap[i].total
          /\ snap[i].ok => snap[i].total = Total
    <2>1. \A i \in 1 .. Len(snap) : snap[i] \in MemorySamples
        OBVIOUS
    <2> QED BY <2>1, MemoryFields
<1>4. PICK k \in 1 .. Len(snap) :
          /\ snap[k].ts >= cutoff /\ p.ts = snap[k].ts /\ p.ok = snap[k].ok /\ p.total = snap[k].total
    BY <1>2
<1>5. PICK l \in 1 .. Len(snap) : snap[l].ts >= cutoff /\ p.used = snap[l].used
    BY <1>2
<1>6. p.used = Max({s.used : s \in W})
    <2> DEFINE S == {s.used : s \in W}
    <2>1. p.used \in S /\ p.used \in Nat
        BY <1>1, <1>3, <1>5
    <2>2. \A y \in S : y \in Nat /\ y <= p.used
        BY <1>1, <1>2, <1>3
    <2> HIDE DEF S
    <2>3. Max(S) = p.used
        BY <2>1, <2>2, MaxIs
    <2> QED BY <2>3 DEF S
<1>7. p.ts = Max({s.ts : s \in W})
    <2> DEFINE S == {s.ts : s \in W}
    <2>1. p.ts \in S /\ p.ts \in Nat
        BY <1>1, <1>3, <1>4
    <2>2. \A y \in S : y \in Nat /\ y <= p.ts
        BY <1>1, <1>2, <1>3
    <2> HIDE DEF S
    <2>3. Max(S) = p.ts
        BY <2>1, <2>2, MaxIs
    <2> QED BY <2>3 DEF S
<1>8. \E s \in W : s.ts = p.ts /\ s.ok = p.ok /\ s.total = p.total
    BY <1>1, <1>4
<1>9. p.used <= Total \/ \E s \in W : s.available > s.total
    BY <1>1, <1>3, <1>5
<1>10. p.ok => p.total = Total
    BY <1>3, <1>4
<1> QED BY <1>6, <1>7, <1>8, <1>9, <1>10 DEF W

(* A share of the whole is at most 100 percent. *)
LEMMA PercentOK ==
    ASSUME NEW a \in Nat, NEW b \in Nat, b > 0, a <= b
    PROVE  (100 * a) \div b <= 100
<1> DEFINE q == (100 * a) \div b
<1>1. q \in Int /\ b * q <= 100 * a
    OBVIOUS
<1> HIDE DEF q
<1>2. b * q <= 100 * b
    BY <1>1
<1>3. ASSUME q >= 101 PROVE FALSE
    <2>1. b * q >= b * 101
        BY <1>1, <1>3
    <2> QED BY <1>1, <1>2, <2>1
<1>4. q <= 100
    BY <1>1, <1>3
<1> QED BY <1>4 DEF q

(* Peak of the memory module: the largest use of the window, everything     *)
(* else of its newest sample, and nothing only if it has no sample.         *)
LEMMA MemoryPeakIs ==
    ASSUME NEW snap \in Seq(MemorySamples), NEW cutoff \in Int, InOrder(snap)
    PROVE  LET peak == MemoryPeak(snap, cutoff)
           IN  /\ peak.present \in BOOLEAN
               /\ peak.present => MemoryPeakOf(peak, WindowOf(snap, cutoff))
               /\ WindowOf(snap, cutoff) # {} => peak.present
<1>1. PICK p \in MemoryPeaks : MemoryPeak(snap, cutoff) = WithPct(p) /\ MemoryFound(p, snap, cutoff, 1)
    BY MemoryScanned
<1> DEFINE W == WindowOf(snap, cutoff)
           peak == MemoryPeak(snap, cutoff)
<1>2. CASE p = Nothing
    <2>1. p.present = FALSE
        BY <1>2 DEF Nothing
    <2>2. peak = p
        BY <1>1, <2>1 DEF WithPct
    <2>3. \A i \in 1 .. Len(snap) : snap[i].ts < cutoff
        BY <1>1, <1>2 DEF MemoryFound
    <2>4. \A i \in 1 .. Len(snap) : snap[i].ts \in Nat
        <3>1. \A i \in 1 .. Len(snap) : snap[i] \in MemorySamples
            OBVIOUS
        <3> QED BY <3>1, MemoryFields
    <2>5. \A i \in 1 .. Len(snap) : ~ (snap[i].ts >= cutoff)
        BY <2>3, <2>4
    <2>6. W = {}
        BY <2>5, WindowOfIs
    <2> QED BY <2>1, <2>2, <2>6
<1>3. CASE p # Nothing
    <2>1. p \in [present : {TRUE}, ts : Nat, ok : BOOLEAN, total : Nat, available : Nat, used : Nat, pct : {0}]
        BY <1>3 DEF MemoryPeaks
    <2>2. p.present = TRUE /\ p.total \in Nat /\ p.used \in Nat /\ p.pct = 0
        BY <2>1
    <2>3. /\ p.used = Max({s.used : s \in W})
          /\ p.ts = Max({s.ts : s \in W})
          /\ \E s \in W : s.ts = p.ts /\ s.ok = p.ok /\ s.total = p.total
          /\ p.used <= Total \/ \E s \in W : s.available > s.total
          /\ p.ok => p.total = Total
        BY <1>1, <1>3, MemoryFoundIs
    <2> HIDE DEF W
    <2>4. /\ peak.present = TRUE /\ peak.used = p.used /\ peak.ts = p.ts /\ peak.ok = p.ok
          /\ peak.total = p.total
          /\ peak.pct = IF p.total > 0 THEN (100 * p.used) \div p.total ELSE 0
        <3>1. CASE p.total > 0
            <4>1. peak = [p EXCEPT !.pct = (100 * p.used) \div p.total]
                BY <1>1, <2>2, <3>1 DEF WithPct
            <4> HIDE DEF peak
            <4> QED BY <2>1, <3>1, <4>1
        <3>2. CASE ~ (p.total > 0)
            <4>1. peak = p
                BY <1>1, <2>2, <3>2 DEF WithPct
            <4> QED BY <2>2, <3>2, <4>1
        <3> QED BY <3>1, <3>2
    <2>5. p.ok /\ (peak.used > peak.total \/ peak.pct > 100) => \E s \in W : s.available > s.total
        <3>1. SUFFICES ASSUME p.ok, p.used <= Total PROVE ~ (peak.used > peak.total) /\ ~ (peak.pct > 100)
            BY <2>3
        <3>2. p.used <= p.total
            BY <2>3, <3>1
        <3>3. CASE p.total > 0
            <4> DEFINE q == (100 * p.used) \div p.total
            <4>1. q <= 100
                BY <2>2, <3>2, <3>3, PercentOK
            <4>3. q \in Int
                BY <2>2, <3>3
            <4>2. peak.pct = q
                BY <2>4, <3>3
            <4> HIDE DEF q, peak
            <4> QED BY <2>2, <2>4, <3>2, <4>1, <4>2, <4>3
        <3>4. CASE ~ (p.total > 0)
            BY <2>2, <2>4, <3>2, <3>4
        <3> QED BY <3>3, <3>4
    <2> HIDE DEF peak
    <2>6. MemoryPeakOf(peak, W)
        BY <2>3, <2>4, <2>5 DEF MemoryPeakOf
    <2> QED BY <2>4, <2>6 DEF W, peak
<1> QED BY <1>2, <1>3

LEMMA GpuFields ==
    ASSUME NEW s \in GpuSamples
    PROVE  /\ s.present = TRUE /\ s.ts \in Nat
           /\ s.dev \in [Devices -> [load : Nat, err : BOOLEAN]]
           /\ \A d \in Devices : s.dev[d].load \in Nat
           /\ s # Nothing
<1>1. /\ s.present = TRUE /\ s.ts \in Nat
      /\ s.dev \in [Devices -> [load : Nat, err : BOOLEAN]]
    BY DEF GpuSamples
<1>2. Nothing.present = FALSE
    BY DEF Nothing
<1> QED BY <1>1, <1>2

LEMMA GpuMergeIs ==
    ASSUME NEW p \in GpuPeaks, NEW s \in GpuSamples, NEW cutoff \in Int
    PROVE  LET q == GpuMerge(p, s, cutoff)
           IN  /\ q \in GpuPeaks
               /\ s.ts < cutoff => q = p
               /\ ~ (s.ts < cutoff) /\ p = Nothing => q = s
               /\ ~ (s.ts < cutoff) /\ p # Nothing =>
                     /\ q # Nothing /\ q.ts = s.ts
                     /\ \A d \in Devices : /\ q.dev[d].load = Raise(s.dev[d].load, p.dev[d].load)
                                           /\ q.dev[d].err = s.dev[d].err
<1> DEFINE q == GpuMerge(p, s, cutoff)
<1>1. /\ s.ts \in Nat /\ s.dev \in [Devices -> [load : Nat, err : BOOLEAN]]
      /\ \A d \in Devices : s.dev[d].load \in Nat
    BY GpuFields
<1>2. Nothing.present = FALSE
    BY DEF Nothing
<1>3. CASE s.ts < cutoff
    <2>1. q = p
        BY <1>3 DEF GpuMerge
    <2> QED BY <1>3, <2>1
<1>4. CASE ~ (s.ts < cutoff) /\ p = Nothing
    <2>1. q = s
        BY <1>2, <1>4 DEF GpuMerge
    <2> QED BY <1>4, <2>1 DEF GpuPeaks
<1>5. CASE ~ (s.ts < cutoff) /\ p # Nothing
    <2>1. p \in GpuSamples
        BY <1>5 DEF GpuPeaks
    <2>2. p.present = TRUE /\ \A d \in Devices : p.dev[d].load \in Nat
        BY <2>1, GpuFields
    <2> DEFINE D == [d \in Devices |-> [s.dev[d] EXCEPT !.load = Raise(@, p.dev[d].load)]]
    <2>3. q = [s EXCEPT !.dev = D]
        BY <1>5, <2>2 DEF GpuMerge
    <2>4. ASSUME NEW d \in Devices
          PROVE  /\ D[d] \in [load : Nat, err : BOOLEAN]
                 /\ D[d].load = Raise(s.dev[d].load, p.dev[d].load) /\ D[d].err = s.dev[d].err
        <3>1. Raise(s.dev[d].load, p.dev[d].load) \in Nat
            BY <1>1, <2>2 DEF Raise
        <3>2. s.dev[d] \in [load : Nat, err : BOOLEAN]
            BY <1>1
        <3>3. D[d] = [s.dev[d] EXCEPT !.load = Raise(s.dev[d].load, p.dev[d].load)]
            BY <3>2
        <3> QED BY <3>1, <3>2, <3>3
    <2>5. D \in [Devices -> [load : Nat, err : BOOLEAN]]
        BY <2>4
    <2> HIDE DEF D, q
    <2>6. q \in GpuSamples /\ q.dev = D /\ q.ts = s.ts
        BY <2>3, <2>5 DEF GpuSamples
    <2>7. q # Nothing
        BY <2>6, GpuFields
    <2> QED BY <1>5, <2>4, <2>6, <2>7 DEF GpuPeaks, q
<1> QED BY <1>3, <1>4, <1>5

(* The scan of the gpu module's Peak: f[n] is the peak of the oldest n. *)
LEMMA GpuUnfolds ==
    ASSUME NEW snap \in Seq(GpuSamples), NEW cutoff \in Int
    PROVE  \E f \in [0 .. Len(snap) -> GpuPeaks] :
              /\ GpuPeak(snap, cutoff) = f[Len(snap)]
              /\ f[0] = Nothing
              /\ \A n \in 1 .. Len(snap) : f[n] = GpuMerge(f[n - 1], snap[n], cutoff)
<1> DEFINE N == Len(snap)
           A == GpuPeaks
           a == Nothing
           Step(n, x) == GpuMerge(x, snap[n], cutoff)
           g == [n \in 1 .. N |-> [x \in A |-> Step(n, x)]]
           Eq(f) == f = [n \in 0 .. N |-> IF n = 0 THEN a ELSE Step(n, f[n - 1])]
<1>1. N \in Nat /\ a \in A
    BY DEF GpuPeaks
<1>2. \A n \in 1 .. N, x \in A : Step(n, x) \in A
    <2>1. \A n \in 1 .. N : snap[n] \in GpuSamples
        OBVIOUS
    <2> QED BY <2>1, GpuMergeIs
<1>3. (\E f : Eq(f)) => \E f : Eq(f) /\ GpuPeak(snap, cutoff) = f[N]
    BY Zenon DEF GpuPeak
<1> HIDE DEF N, A, a, Step
<1>4. Steps(g, N, A) /\ \A n \in 1 .. N, x \in A : g[n][x] = Step(n, x)
    BY <1>2 DEF Steps
<1> HIDE DEF g
<1>5. \E f : Eq(f)
    <2>1. PICK f : Iterates(f, N, A, a, g)
        BY <1>1, <1>4, Iteration
    <2>2. \A n \in 0 .. N : f[n] = IF n = 0 THEN a ELSE Step(n, f[n - 1])
        BY <1>1, <1>4, <2>1 DEF Iterates
    <2>3. f = [n \in 0 .. N |-> f[n]]
        BY <2>1 DEF Iterates
    <2>4. Eq(f)
        BY <2>2, <2>3, Zenon
    <2> QED BY <2>4
<1>6. PICK f : Eq(f) /\ GpuPeak(snap, cutoff) = f[N]
    BY <1>3, <1>5
<1>7. f[0] = a /\ \A n \in 1 .. N : f[n] = Step(n, f[n - 1])
    BY <1>1, <1>6
<1>8. f = [n \in 0 .. N |-> f[n]]
    BY <1>6
<1>9. \A n \in 1 .. N : f[n - 1] \in A => f[n] = g[n][f[n - 1]]
    BY <1>4, <1>7
<1>10. Iterates(f, N, A, a, g)
    BY <1>1, <1>4, <1>7, <1>8, <1>9, IterationType
<1>11. f \in [0 .. N -> A]
    BY <1>10 DEF Iterates
<1> QED BY <1>6, <1>7, <1>11 DEF N, A, a, Step

(* Everything but the loads of a peak is that of sample s. *)
TakenFrom(p, s) == p.ts = s.ts /\ \A d \in Devices : p.dev[d].err = s.dev[d].err

(* The peak p of the oldest n samples of snap. *)
GpuFound(p, snap, cutoff, n) ==
    /\ p = Nothing => \A i \in 1 .. n : snap[i].ts < cutoff
    /\ p # Nothing =>
          /\ \E k \in 1 .. n : /\ snap[k].ts >= cutoff /\ TakenFrom(p, snap[k])
                              /\ \A i \in k + 1 .. n : snap[i].ts < cutoff
          /\ \A d \in Devices :
                \E k \in 1 .. n : snap[k].ts >= cutoff /\ p.dev[d].load = snap[k].dev[d].load
          /\ \A i \in 1 .. n : snap[i].ts >= cutoff =>
                snap[i].ts <= p.ts /\ \A d \in Devices : snap[i].dev[d].load <= p.dev[d].load

LEMMA GpuFoundMore ==
    ASSUME NEW snap \in Seq(GpuSamples), NEW cutoff \in Int, InOrder(snap),
           NEW n \in 1 .. Len(snap), NEW p \in GpuPeaks, GpuFound(p, snap, cutoff, n - 1)
    PROVE  GpuFound(GpuMerge(p, snap[n], cutoff), snap, cutoff, n)
<1> DEFINE s == snap[n]
           q == GpuMerge(p, s, cutoff)
<1>1. s \in GpuSamples /\ Len(snap) \in Nat
    OBVIOUS
<1>2. s.ts \in Nat /\ s # Nothing /\ \A d \in Devices : s.dev[d].load \in Nat
    BY <1>1, GpuFields
<1>3. \A i \in 1 .. n : i = n \/ i \in 1 .. n - 1
    BY <1>1
<1>4. n \in 1 .. n /\ 1 .. n - 1 \subseteq 1 .. n
    BY <1>1
<1>5. \A i \in 1 .. Len(snap) : snap[i].ts \in Nat /\ \A d \in Devices : snap[i].dev[d].load \in Nat
    <2>1. \A i \in 1 .. Len(snap) : snap[i] \in GpuSamples
        OBVIOUS
    <2> QED BY <2>1, GpuFields
<1>6. 1 .. n - 1 \subseteq 1 .. Len(snap) /\ 1 .. n \subseteq 1 .. Len(snap)
    BY <1>1
<1>7. \A i \in 1 .. n - 1 : snap[i].ts <= s.ts
    <2>1. \A i \in 1 .. n - 1 : i <= n
        BY <1>1
    <2> QED BY <1>6, <2>1 DEF InOrder
<1>8. CASE s.ts < cutoff
    <2>1. q = p
        BY <1>1, <1>8, GpuMergeIs
    <2>2. ~ (snap[n].ts >= cutoff)
        BY <1>2, <1>8
    <2> HIDE DEF q
    <2>3. \A k \in 1 .. n - 1 : \A i \in k + 1 .. n : i = n \/ i \in k + 1 .. n - 1
        BY <1>1
    <2>4. GpuFound(p, snap, cutoff, n)
        BY <1>3, <1>4, <1>8, <2>2, <2>3 DEF GpuFound
    <2> QED BY <2>1, <2>4 DEF q
<1>9. CASE ~ (s.ts < cutoff) /\ p = Nothing
    <2>1. q = s
        BY <1>1, <1>9, GpuMergeIs
    <2>2. \A i \in 1 .. n - 1 : ~ (snap[i].ts >= cutoff)
        BY <1>5, <1>6, <1>9 DEF GpuFound
    <2>3. /\ snap[n].ts >= cutoff /\ snap[n].ts <= snap[n].ts
          /\ \A d \in Devices : snap[n].dev[d].load <= snap[n].dev[d].load
        BY <1>2, <1>9
    <2> HIDE DEF q
    <2>4. TakenFrom(s, snap[n]) /\ \A i \in n + 1 .. n : FALSE
        BY <1>1 DEF TakenFrom
    <2>5. GpuFound(s, snap, cutoff, n)
        BY <1>2, <1>3, <1>4, <2>2, <2>3, <2>4 DEF GpuFound
    <2> QED BY <2>1, <2>5 DEF q
<1>10. CASE ~ (s.ts < cutoff) /\ p # Nothing
    <2>1. /\ q # Nothing /\ q.ts = s.ts
          /\ \A d \in Devices : /\ q.dev[d].load = Raise(s.dev[d].load, p.dev[d].load)
                                /\ q.dev[d].err = s.dev[d].err
        BY <1>1, <1>10, GpuMergeIs
    <2>2. /\ \A d \in Devices :
                \E k \in 1 .. n - 1 : snap[k].ts >= cutoff /\ p.dev[d].load = snap[k].dev[d].load
          /\ \A i \in 1 .. n - 1 : snap[i].ts >= cutoff =>
                \A d \in Devices : snap[i].dev[d].load <= p.dev[d].load
        BY <1>10 DEF GpuFound
    <2>3. s.ts >= cutoff
        BY <1>2, <1>10
    <2> HIDE DEF q
    <2>4. ASSUME NEW d \in Devices
          PROVE  /\ \E k \in 1 .. n : snap[k].ts >= cutoff /\ q.dev[d].load = snap[k].dev[d].load
                 /\ \A i \in 1 .. n : snap[i].ts >= cutoff => snap[i].dev[d].load <= q.dev[d].load
        <3>1. PICK k \in 1 .. n - 1 : snap[k].ts >= cutoff /\ p.dev[d].load = snap[k].dev[d].load
            BY <2>2
        <3> DEFINE x == s.dev[d].load
                   y == p.dev[d].load
                   z == q.dev[d].load
        <3>2. x \in Nat /\ y \in Nat /\ z = Raise(x, y)
            BY <1>2, <1>5, <1>6, <2>1, <3>1
        <3> HIDE DEF x, y, z
        <3>3. (z = x \/ z = y) /\ x <= z /\ y <= z
            BY <3>2 DEF Raise
        <3>4. \E j \in 1 .. n : snap[j].ts >= cutoff /\ z = snap[j].dev[d].load
            BY <1>4, <2>3, <3>1, <3>3 DEF x, y
        <3>5. ASSUME NEW i \in 1 .. n, snap[i].ts >= cutoff PROVE snap[i].dev[d].load <= z
            <4>1. CASE i = n
                BY <3>3, <4>1 DEF x
            <4>2. CASE i \in 1 .. n - 1
                <5>1. snap[i].dev[d].load <= y /\ snap[i].dev[d].load \in Nat
                    BY <1>5, <1>6, <2>2, <3>5, <4>2 DEF y
                <5> QED BY <3>2, <3>3, <5>1
            <4> QED BY <1>3, <4>1, <4>2
        <3> QED BY <3>4, <3>5 DEF z
    <2>5. \A i \in 1 .. n : snap[i].ts <= q.ts
        BY <1>2, <1>3, <1>7, <2>1
    <2>6. TakenFrom(q, snap[n]) /\ \A i \in n + 1 .. n : FALSE
        BY <1>1, <2>1 DEF TakenFrom
    <2>7. GpuFound(q, snap, cutoff, n)
        BY <1>4, <2>1, <2>3, <2>4, <2>5, <2>6 DEF GpuFound
    <2> QED BY <2>7 DEF q
<1> QED BY <1>8, <1>9, <1>10

LEMMA GpuScanned ==
    ASSUME NEW snap \in Seq(GpuSamples), NEW cutoff \in Int, InOrder(snap)
    PROVE  GpuPeak(snap, cutoff) \in GpuPeaks /\ GpuFound(GpuPeak(snap, cutoff), snap, cutoff, Len(snap))
<1>1. PICK f \in [0 .. Len(snap) -> GpuPeaks] :
              /\ GpuPeak(snap, cutoff) = f[Len(snap)]
              /\ f[0] = Nothing
              /\ \A n \in 1 .. Len(snap) : f[n] = GpuMerge(f[n - 1], snap[n], cutoff)
    BY GpuUnfolds
<1> DEFINE N == Len(snap)
           S == {n \in 0 .. N : GpuFound(f[n], snap, cutoff, n)}
<1>2. N \in Nat /\ 0 \in 0 .. N /\ N \in 0 .. N
    OBVIOUS
<1>3. 0 \in S
    <2>1. 1 .. 0 = {}
        OBVIOUS
    <2>2. GpuFound(f[0], snap, cutoff, 0)
        BY <1>1, <2>1 DEF GpuFound
    <2> QED BY <1>2, <2>2
<1>4. ASSUME NEW n \in 0 .. N - 1, n \in S PROVE n + 1 \in S
    <2>1. PICK l \in 1 .. N : l = n + 1 /\ l - 1 = n /\ l \in 0 .. N
        BY <1>2
    <2>2. f[n] \in GpuPeaks /\ GpuFound(f[n], snap, cutoff, l - 1)
        BY <1>4, <2>1
    <2>3. f[l] = GpuMerge(f[n], snap[l], cutoff)
        BY <1>1, <2>1
    <2>4. GpuFound(f[l], snap, cutoff, l)
        BY <2>1, <2>2, <2>3, GpuFoundMore
    <2> QED BY <2>1, <2>4
<1> HIDE DEF S
<1>5. \A n \in 0 .. N - 1 : n \in S => n + 1 \in S
    BY <1>4
<1>6. N \in S
    <2> HIDE DEF N
    <2> QED BY <1>2, <1>3, <1>5, SetInduction
<1> QED BY <1>1, <1>2, <1>6 DEF S

(* What is asked of the gpu section of a peak answer. *)
GpuPeakOf(p, win, last) ==
    /\ TakenFrom(p, last)
    /\ \A d \in Devices : p.dev[d].load = Max({s.dev[d].load : s \in win})

(* Peak of the gpu module: for each device the largest load of the window,  *)
(* the rest of the newest sample, and nothing if the window has no sample.  *)
LEMMA GpuPeakIs ==
    ASSUME NEW snap \in Seq(GpuSamples), NEW cutoff \in Int, InOrder(snap)
    PROVE  LET peak == GpuPeak(snap, cutoff)
           IN  /\ peak \in GpuPeaks
               /\ peak # Nothing => /\ WindowOf(snap, cutoff) # {}
                                    /\ GpuPeakOf(peak, WindowOf(snap, cutoff), snap[Len(snap)])
<1> DEFINE W == WindowOf(snap, cutoff)
           p == GpuPeak(snap, cutoff)
           N == Len(snap)
<1>1. p \in GpuPeaks /\ GpuFound(p, snap, cutoff, N)
    BY GpuScanned
<1>2. /\ \A i \in 1 .. N : snap[i].ts >= cutoff => snap[i] \in W
      /\ \A s \in W : \E i \in 1 .. N : s = snap[i] /\ snap[i].ts >= cutoff
    BY WindowOfIs
<1>3. \A i \in 1 .. N : snap[i].ts \in Nat /\ \A d \in Devices : snap[i].dev[d].load \in Nat
    <2>1. \A i \in 1 .. N : snap[i] \in GpuSamples
        OBVIOUS
    <2> QED BY <2>1, GpuFields
<1> HIDE DEF W, p, N
<1>4. ASSUME p # Nothing PROVE W # {} /\ GpuPeakOf(p, W, snap[N])
    <2>1. /\ \E k \in 1 .. N : /\ snap[k].ts >= cutoff /\ TakenFrom(p, snap[k])
                               /\ \A i \in k + 1 .. N : snap[i].ts < cutoff
          /\ \A d \in Devices :
                \E k \in 1 .. N : snap[k].ts >= cutoff /\ p.dev[d].load = snap[k].dev[d].load
          /\ \A i \in 1 .. N : snap[i].ts >= cutoff =>
                \A d \in Devices : snap[i].dev[d].load <= p.dev[d].load
        BY <1>1, <1>4 DEF GpuFound
    <2>2. PICK k \in 1 .. N : /\ snap[k].ts >= cutoff /\ TakenFrom(p, snap[k])
                              /\ \A i \in k + 1 .. N : snap[i].ts < cutoff
        BY <2>1
    <2>3. k = N
        <3>1. N \in Nat
            BY DEF N
        <3>2. ASSUME k # N PROVE FALSE
            <4>1. k \in 1 .. Len(snap) /\ N \in 1 .. Len(snap) /\ k <= N /\ N \in k + 1 .. N
                BY <3>1, <3>2 DEF N
            <4>2. snap[k].ts <= snap[N].ts
                BY <4>1 DEF InOrder
            <4>3. snap[k].ts \in Nat /\ snap[N].ts \in Nat
                BY <1>3, <4>1 DEF N
            <4>4. snap[N].ts < cutoff
                BY <2>2, <4>1
            <4> QED BY <2>2, <4>2, <4>3, <4>4
        <3> QED BY <3>2
    <2>4. W # {}
        BY <1>2, <2>2
    <2>5. ASSUME NEW d \in Devices PROVE p.dev[d].load = Max({s.dev[d].load : s \in W})
        <3> DEFINE S == {s.dev[d].load : s \in W}
                   x == p.dev[d].load
        <3>1. x \in S /\ x \in Nat
            BY <1>2, <1>3, <2>1
        <3>2. \A y \in S : y \in Nat /\ y <= x
            BY <1>2, <1>3, <2>1
        <3> HIDE DEF S, x
        <3>3. Max(S) = x
            BY <3>1, <3>2, MaxIs
        <3> QED BY <3>3 DEF S, x
    <2> QED BY <2>2, <2>3, <2>4, <2>5 DEF GpuPeakOf
<1> QED BY <1>1, <1>4 DEF W, p, N

-----------------------------------------------------------------------------
(* Behind the combined handler *)

(* The samples have times, in order and none in the future. *)
TimesOK(h, t) ==
    InOrder(h) /\ \A i \in 1 .. Len(h) : h[i].ts \in Nat /\ h[i].ts <= t

HandlerInv ==
    /\ load \in Workloads /\ clock \in Nat
    /\ load.module = "memory" => hist \in Seq(MemorySamples)
    /\ load.module = "gpu" => hist \in Seq(GpuSamples)
    /\ load.module \in {"memory", "gpu"} => TimesOK(hist, clock)

CombinedInv == PeakInv /\ HandlerInv

LEMMA CpuKeeps ==
    ASSUME CombinedInv, Cpu
    PROVE  CombinedInv'
<1>1. PeakInv /\ load \in Workloads
    BY DEF CombinedInv, HandlerInv
<1>2. /\ load.clients \subseteq Clients /\ load.widths \subseteq Nat \ {0}
      /\ load.loads \subseteq Nat /\ load.overall \subseteq Nat
    BY <1>1, CombinedAssumption
<1>3. ASSUME NEW overall \in load.overall, NEW per \in UNION {[1 .. n -> load.loads] : n \in load.widths},
             Sample(overall, per)
      PROVE  PeakInv'
    <2>1. overall \in Nat /\ per \in Seq(Nat)
        BY <1>2, ReadingsAreSeqs
    <2> QED BY <1>1, <1>3, <2>1, SampleKeeps
<1>4. SampleFails => PeakInv'
    BY <1>1, SampleFailsKeeps
<1>5. ASSUME NEW c \in load.clients, NEW d \in Windows, Request(c, d)
      PROVE  PeakInv'
    <2>1. d \in Nat /\ c \in Clients
        BY <1>2, PeakAssumption
    <2> QED BY <1>1, <1>5, <2>1, RequestKeeps
<1>6. ASSUME NEW c \in load.clients,
             TakeSnapshot(c) \/ Scan(c) \/ Merge(c) \/ Store(c) \/ Respond(c) \/ CpuLatest(c)
      PROVE  PeakInv'
    <2>1. c \in Clients
        BY <1>2
    <2> QED BY <1>1, <1>6, <2>1, TakeSnapshotKeeps, ScanKeeps, MergeKeeps, StoreKeeps, RespondStep, CpuLatestKeeps
<1>7. PeakInv'
    BY <1>3, <1>4, <1>5, <1>6 DEF Cpu
<1>8. HandlerInv'
    BY DEF Cpu, others, CombinedInv, HandlerInv
<1> QED BY <1>7, <1>8 DEF CombinedInv

(* An unsigned subtraction that does not go below zero is exact. *)
LEMMA MinusExact ==
    ASSUME NEW a \in 0 .. Total, NEW b \in 0 .. a
    PROVE  Minus(a, b) = a - b
<1>1. Word \in Nat /\ Total \in Nat /\ Total + 1 < Word
    BY CombinedAssumption
<1>2. a - b \in Nat /\ a - b < Word
    BY <1>1
<1>3. \A n \in Nat : n < Word => n % Word = n
    BY <1>1
<1> QED BY <1>2, <1>3 DEF Minus

(* usedWithoutReclaimable never wraps, but may return a Used that had. *)
LEMMA UsedAddsNoWrap ==
    ASSUME NEW vm \in VirtualMemory
    PROVE  /\ usedWithoutReclaimable(vm) \in Nat /\ vm.available \in Nat
           /\ vm.available <= Total => usedWithoutReclaimable(vm) <= Total
<1>1. Total \in Nat /\ Word \in Nat
    BY CombinedAssumption
<1>2. /\ vm.free \in 0 .. Total + 1 /\ vm.buffers \in 0 .. Total /\ vm.cached \in 0 .. Total
      /\ vm.available \in 0 .. Total + 1 /\ vm.used \in 0 .. Word - 1
      /\ vm.used = Minus(Total, vm.available)
    BY DEF VirtualMemory
<1> DEFINE taken == Minus(Total, vm.free)
           kept == Minus(taken, vm.buffers)
           read == /\ Total > 0 /\ vm.free > 0 /\ vm.free <= Total
                   /\ vm.buffers <= taken /\ vm.cached <= kept
           avail == Total > 0 /\ vm.available > 0 /\ vm.available <= Total
<1>3. CASE read
    <2>1. vm.free \in 0 .. Total /\ Total \in 0 .. Total
        BY <1>1, <1>2, <1>3
    <2>2. taken = Total - vm.free
        BY <2>1, MinusExact
    <2>3. taken \in 0 .. Total
        BY <1>1, <2>1, <2>2
    <2>4. vm.buffers \in 0 .. taken
        BY <1>2, <1>3, <2>3
    <2> HIDE DEF taken
    <2>5. kept = taken - vm.buffers
        BY <2>3, <2>4, MinusExact
    <2>6. kept \in 0 .. Total
        BY <1>1, <2>3, <2>4, <2>5
    <2>7. vm.cached \in 0 .. kept
        BY <1>2, <1>3, <2>6
    <2> HIDE DEF kept
    <2>8. Minus(kept, vm.cached) = kept - vm.cached
        BY <2>6, <2>7, MinusExact
    <2>9. Minus(kept, vm.cached) \in 0 .. Total
        BY <1>1, <2>6, <2>7, <2>8
    <2>10. usedWithoutReclaimable(vm) = Minus(kept, vm.cached)
        BY <1>3 DEF usedWithoutReclaimable, kept, taken
    <2> QED BY <1>1, <1>2, <2>9, <2>10
<1>4. CASE ~ read /\ avail
    <2>1. vm.available \in 0 .. Total /\ Total \in 0 .. Total
        BY <1>1, <1>2, <1>4
    <2>2. Minus(Total, vm.available) = Total - vm.available
        BY <2>1, MinusExact
    <2>3. usedWithoutReclaimable(vm) = Minus(Total, vm.available)
        BY <1>4 DEF usedWithoutReclaimable
    <2> QED BY <1>1, <1>2, <2>1, <2>2, <2>3
<1>5. CASE ~ read /\ ~ avail
    <2>1. usedWithoutReclaimable(vm) = vm.used
        BY <1>5 DEF usedWithoutReclaimable
    <2>2. ASSUME vm.available <= Total PROVE vm.used <= Total
        <3>1. vm.available \in 0 .. Total /\ Total \in 0 .. Total
            BY <1>1, <1>2, <2>2
        <3>2. vm.used = Total - vm.available
            BY <1>2, <3>1, MinusExact
        <3> QED BY <1>1, <3>1, <3>2
    <2>3. vm.used \in Nat /\ vm.available \in Nat
        BY <1>1, <1>2
    <2> QED BY <2>1, <2>2, <2>3
<1> QED BY <1>3, <1>4, <1>5

(* The next sample is the newest. *)
LEMMA TimesAppend ==
    ASSUME NEW T, NEW h \in Seq(T), NEW s \in T, s.ts = clock, clock \in Nat, TimesOK(h, clock)
    PROVE  TimesOK(Append(h, s), clock)
<1> DEFINE L == Len(h)
           q == Append(h, s)
<1>1. L \in Nat /\ Len(q) = L + 1 /\ q[L + 1] = s /\ \A i \in 1 .. L : q[i] = h[i]
    OBVIOUS
<1> HIDE DEF L, q
<1>2. \A i \in 1 .. L + 1 : i = L + 1 \/ i \in 1 .. L
    BY <1>1
<1>3. /\ \A i, j \in 1 .. L : i <= j => h[i].ts <= h[j].ts
      /\ \A i \in 1 .. L : h[i].ts \in Nat /\ h[i].ts <= clock
    BY DEF TimesOK, InOrder, L
<1>4. \A i \in 1 .. L + 1 : q[i].ts \in Nat /\ q[i].ts <= clock
    BY <1>1, <1>2, <1>3
<1>5. ASSUME NEW i \in 1 .. L + 1, NEW j \in 1 .. L + 1, i <= j PROVE q[i].ts <= q[j].ts
    <2>1. CASE j = L + 1
        BY <1>1, <1>4, <2>1
    <2>2. CASE j \in 1 .. L
        <3>1. i \in 1 .. L
            BY <1>1, <1>5, <2>2
        <3> QED BY <1>1, <1>3, <1>5, <2>2, <3>1
    <2> QED BY <1>2, <2>1, <2>2
<1> QED BY <1>1, <1>4, <1>5 DEF TimesOK, InOrder, q

LEMMA MemorySampleKeeps ==
    ASSUME CombinedInv, (\E vm \in VirtualMemory : MemorySample(vm)) \/ MemoryFails
    PROVE  CombinedInv'
<1>1. PeakInv /\ HandlerInv
    BY DEF CombinedInv
<1>2. Total \in Nat
    BY CombinedAssumption
<1>3. clock \in Nat /\ hist \in Seq(MemorySamples) /\ load.module = "memory" /\ TimesOK(hist, clock)
    BY <1>1 DEF HandlerInv, MemorySample, MemoryFails
<1>4. ASSUME NEW ok \in BOOLEAN, NEW total \in Nat, NEW available \in Nat, NEW used \in Nat,
             available <= total => used <= total /\ used <= Total, ok => total = Total,
             Publish([present |-> TRUE, ts |-> clock, ok |-> ok, total |-> total,
                      available |-> available, used |-> used, pct |-> 0])
      PROVE  CombinedInv'
    <2> DEFINE s == [present |-> TRUE, ts |-> clock, ok |-> ok, total |-> total,
                     available |-> available, used |-> used, pct |-> 0]
    <2>1. s \in MemorySamples /\ s.ts = clock
        BY <1>3, <1>4 DEF MemorySamples
    <2>2. hist' = Append(hist, s) /\ UNCHANGED << vars, load, clock >>
        BY <1>4 DEF Publish
    <2> HIDE DEF s
    <2>3. hist' \in Seq(MemorySamples)
        BY <1>3, <2>1, <2>2, AppendProperties
    <2>4. TimesOK(hist', clock)
        BY <1>3, <2>1, <2>2, TimesAppend
    <2>5. PeakInv'
        BY <1>1, <2>2, PeakStutter
    <2> QED BY <1>1, <1>3, <2>2, <2>3, <2>4, <2>5 DEF CombinedInv, HandlerInv
<1>5. ASSUME NEW vm \in VirtualMemory, MemorySample(vm)
      PROVE  CombinedInv'
    <2>1. /\ usedWithoutReclaimable(vm) \in Nat /\ vm.available \in Nat
          /\ vm.available <= Total => usedWithoutReclaimable(vm) <= Total
        BY UsedAddsNoWrap
    <2>2. Publish([present |-> TRUE, ts |-> clock, ok |-> TRUE, total |-> Total,
                   available |-> vm.available, used |-> usedWithoutReclaimable(vm), pct |-> 0])
        BY <1>5 DEF MemorySample
    <2>3. TRUE \in BOOLEAN
        OBVIOUS
    <2> QED BY <1>2, <1>4, <2>1, <2>2, <2>3
<1>6. CASE MemoryFails
    <2>1. Publish([present |-> TRUE, ts |-> clock, ok |-> FALSE, total |-> 0,
                   available |-> 0, used |-> 0, pct |-> 0])
        BY <1>6 DEF MemoryFails
    <2>2. FALSE \in BOOLEAN /\ 0 \in Nat /\ 0 <= 0 /\ 0 <= Total
        BY <1>2
    <2> QED BY <1>4, <2>1, <2>2
<1> QED BY <1>5, <1>6

LEMMA GpuSampleKeeps ==
    ASSUME CombinedInv, NEW dev \in [Devices -> DeviceReadings], GpuSample(dev)
    PROVE  CombinedInv'
<1>1. PeakInv /\ HandlerInv
    BY DEF CombinedInv
<1> DEFINE s == [present |-> TRUE, ts |-> clock, dev |-> dev]
<1>2. hist' = Append(hist, s) /\ UNCHANGED << vars, load, clock >> /\ load.module # "memory"
    BY DEF GpuSample, Publish
<1>3. clock \in Nat
    BY <1>1 DEF HandlerInv
<1>4. dev \in [Devices -> [load : Nat, err : BOOLEAN]]
    <2>1. DeviceReadings \subseteq [load : Nat, err : BOOLEAN]
        BY PeakAssumption DEF DeviceReadings
    <2> QED BY <2>1
<1>5. s \in GpuSamples /\ s.ts = clock
    BY <1>3, <1>4 DEF GpuSamples
<1> HIDE DEF s
<1>6. ASSUME load.module = "gpu" PROVE hist' \in Seq(GpuSamples) /\ TimesOK(hist', clock)
    <2>1. hist \in Seq(GpuSamples) /\ TimesOK(hist, clock)
        BY <1>1, <1>6 DEF HandlerInv
    <2>2. hist' \in Seq(GpuSamples)
        BY <1>2, <1>5, <2>1, AppendProperties
    <2> QED BY <1>2, <1>3, <1>5, <2>1, <2>2, TimesAppend
<1>7. PeakInv'
    BY <1>1, <1>2, PeakStutter
<1> QED BY <1>1, <1>2, <1>6, <1>7 DEF CombinedInv, HandlerInv

LEMMA CombinedNextKeeps ==
    ASSUME CombinedInv, [CombinedNext]_cvars
    PROVE  CombinedInv'
<1>1. PeakInv /\ HandlerInv
    BY DEF CombinedInv
<1>2. CASE Cpu
    BY <1>2, CpuKeeps
<1>3. CASE Advance
    <2>1. PeakInv'
        BY <1>1, <1>3, PeakStutter DEF Advance
    <2>2. UNCHANGED << load, hist >> /\ clock' = clock + 1 /\ clock \in Nat
        BY <1>1, <1>3 DEF HandlerInv, Advance
    <2>3. TimesOK(hist, clock) => TimesOK(hist, clock + 1)
        BY <2>2 DEF TimesOK
    <2> QED BY <1>1, <2>1, <2>2, <2>3 DEF CombinedInv, HandlerInv
<1>4. CASE (\E vm \in VirtualMemory : MemorySample(vm)) \/ MemoryFails
    BY <1>4, MemorySampleKeeps
<1>a. CASE \E dev \in [Devices -> DeviceReadings] : GpuSample(dev)
    BY <1>a, GpuSampleKeeps
<1>5. CASE StorageSample
    <2>1. UNCHANGED << vars, load, clock >> /\ load.module = "storage"
        BY <1>5 DEF StorageSample, Publish
    <2>2. PeakInv'
        BY <1>1, <2>1, PeakStutter
    <2> QED BY <1>1, <2>1, <2>2 DEF CombinedInv, HandlerInv
<1>6. CASE \E c \in Clients : (\E d \in Windows : AskPeak(c, d)) \/ AnswerPeak(c) \/ AnswerLatest(c)
                           \/ AskLatest(c) \/ BadWindow(c)
    <2>1. UNCHANGED << vars, load, clock, hist >>
        BY <1>6 DEF AskPeak, AnswerPeak, AnswerLatest, AskLatest, BadWindow
    <2>2. PeakInv'
        BY <1>1, <2>1, PeakStutter
    <2> QED BY <1>1, <2>1, <2>2 DEF CombinedInv, HandlerInv
<1>7. CASE UNCHANGED cvars
    <2>1. UNCHANGED << vars, load, clock, hist >>
        BY <1>7 DEF cvars, others
    <2>2. PeakInv'
        BY <1>1, <2>1, PeakStutter
    <2> QED BY <1>1, <2>1, <2>2 DEF CombinedInv, HandlerInv
<1> QED BY <1>2, <1>3, <1>4, <1>a, <1>5, <1>6, <1>7 DEF CombinedNext

(* The same behind the combined handler, where a cpu answer may also be the *)
(* latest sample, and with the memory module: a sample of it uses more      *)
(* memory than there is only if more is available.                          *)
THEOREM CombinedInvariant == CombinedSpec => []CombinedInv
<1>1. CombinedInit => CombinedInv
    <2>1. SUFFICES ASSUME CombinedInit PROVE CombinedInv
        OBVIOUS
    <2>2. PeakInv
        BY <2>1, PeakInit DEF CombinedInit
    <2>3. << >> \in Seq(MemorySamples) /\ << >> \in Seq(GpuSamples)
        BY EmptySeq
    <2>4. TimesOK(<< >>, clock)
        BY DEF TimesOK, InOrder
    <2> QED BY <2>1, <2>2, <2>3, <2>4 DEF CombinedInit, CombinedInv, HandlerInv
<1>2. CombinedInv /\ [CombinedNext]_cvars => CombinedInv'
    BY CombinedNextKeeps
<1> QED BY <1>1, <1>2, PTL DEF CombinedSpec

-----------------------------------------------------------------------------
(* What an answer says *)

(* The overall load of a peak answer is the maximum of the window, and the  *)
(* section is left out only if the window has no sample (cpu/module.go      *)
(* Peak), for any clients, windows and capacity.                            *)
THEOREM OverallIsExact == CombinedSpec => []OverallIsMaximum
<1>1. ASSUME CombinedInv
      PROVE  OverallIsMaximum
    <2>1. \A c \in Clients : ReplyOK(reply[c], samples)
        BY <1>1, PeakFacts DEF CombinedInv
    <2> QED BY <2>1 DEF ReplyOK, OverallLoads, OverallIsMaximum
<1> QED BY <1>1, CombinedInvariant, PTL

(* No core's peak is understated by a request that was alone over a window  *)
(* of one width, whatever racing requests have left in the shared arrays.   *)
THEOREM SoloPeaksCover == CombinedSpec => []PeakNeverUnderstates
<1>1. ASSUME CombinedInv
      PROVE  PeakNeverUnderstates
    <2>1. \A c \in Clients : ReplyOK(reply[c], samples)
        BY <1>1, PeakFacts DEF CombinedInv
    <2> QED BY <2>1 DEF ReplyOK, Uniform, PeakNeverUnderstates
<1> QED BY <1>1, CombinedInvariant, PTL

(* What a published sample or an answer holds for a core was measured on    *)
(* it, and never less than the sample's own, though the stores of Peak race.*)
THEOREM SharedArraysAreHonest == CombinedSpec => []SharedArraysHonest
<1>1. ASSUME CombinedInv
      PROVE  SharedArraysHonest
    <2>1. HeapOK(samples, cell) /\ \A c \in Clients : ReplyOK(reply[c], samples)
        BY <1>1, PeakFacts DEF CombinedInv
    <2> DEFINE M(k) == {samples[j].per[k] : j \in {j \in 1 .. Now : k <= Len(samples[j].per)}}
    <2>2. \A k : M(k) = Measured(k, samples)
        BY DEF Measured, Now
    <2> HIDE DEF M
    <2>3. \A i \in 1 .. Now : \A k \in 1 .. Len(cell[i]) : cell[i][k] \in M(k) /\ cell[i][k] >= samples[i].per[k]
        BY <2>1, <2>2 DEF HeapOK, Now
    <2>4. \A c \in Clients : \A k \in 1 .. Len(reply[c].cores) : reply[c].cores[k] \in M(k)
        BY <2>1, <2>2 DEF ReplyOK
    <2> QED BY <2>3, <2>4 DEF M, SharedArraysHonest
<1> QED BY <1>1, CombinedInvariant, PTL

-----------------------------------------------------------------------------
(* The memory and the gpu section *)

MemoryAnswer(a) ==
    /\ a.peak /\ a.sample.present => MemoryPeakOf(a.sample, a.win)
    /\ a.peak /\ a.win # {} => a.sample.present

GpuAnswer(a) ==
    a.peak => /\ a.sample.present
              /\ a.win = {} => a.sample = a.last
              /\ a.win # {} => GpuPeakOf(a.sample, a.win, a.last)

Asks == [at : {"idle", "snapshot", "latest"}, cutoff : Int]

(* What the sections given so far say, and what a request under way relies  *)
(* on.                                                                      *)
SectionInv ==
    /\ ask \in [Clients -> Asks]
    /\ \A c \in Clients : ask[c].at # "idle" => hist # << >>
    /\ load.module = "memory" => \A c \in Clients : ask[c].at # "latest"
    /\ DOMAIN section = Clients
    /\ load.module = "memory" => \A c \in Clients : MemoryAnswer(section[c])
    /\ load.module = "gpu" => \A c \in Clients : GpuAnswer(section[c])

LEMMA NoPeak ==
    ASSUME NEW a, a.peak = FALSE
    PROVE  MemoryAnswer(a) /\ GpuAnswer(a)
BY DEF MemoryAnswer, GpuAnswer

LEMMA SectionInit == CombinedInit => SectionInv
<1> SUFFICES ASSUME CombinedInit PROVE SectionInv
    OBVIOUS
<1>1. NoSection.peak = FALSE
    BY DEF NoSection
<1>2. MemoryAnswer(NoSection) /\ GpuAnswer(NoSection)
    BY <1>1, NoPeak
<1>3. NotAsking \in Asks /\ NotAsking.at = "idle"
    BY DEF NotAsking, Asks
<1> QED BY <1>2, <1>3 DEF CombinedInit, SectionInv

(* The ring buffer keeps the newest samples in their order. *)
LEMMA RingOK ==
    ASSUME NEW T, NEW h \in Seq(T)
    PROVE  /\ Ring(h) \in Seq(T) /\ (InOrder(h) => InOrder(Ring(h)))
           /\ h # << >> => Ring(h)[Len(Ring(h))] = h[Len(h)]
<1> DEFINE L == Len(h)
           o == IF L < Cap THEN 0 ELSE L - Cap
           q == SubSeq(h, o + 1, L)
<1>1. L \in Nat /\ Cap \in Nat /\ Cap > 0
    BY PeakAssumption
<1>2. o \in 0 .. L
    BY <1>1
<1>3. Ring(h) = q
    <2>1. (IF L < Cap THEN 1 ELSE L - Cap + 1) = o + 1
        BY <1>1
    <2> HIDE DEF o
    <2> QED BY <2>1 DEF Ring
<1> HIDE DEF o
<1>4. q \in Seq(T) /\ Len(q) = L - o /\ \A i \in 1 .. L - o : q[i] = h[i + o]
    <2>1. o + 1 \in 1 .. L + 1 /\ o \in Nat
        BY <1>1, <1>2
    <2>2. q \in Seq(T) /\ Len(q) = IF o + 1 <= L THEN L - (o + 1) + 1 ELSE 0
        BY <1>1, <2>1, SubSeqProperties
    <2>3. Len(q) = L - o
        BY <1>1, <1>2, <2>2
    <2>4. \A i \in 1 .. L - (o + 1) + 1 : q[i] = h[(o + 1) + i - 1]
        BY <1>1, <2>1, SubSeqProperties
    <2>5. \A i \in 1 .. L - o : i \in 1 .. L - (o + 1) + 1 /\ (o + 1) + i - 1 = i + o
        BY <1>1, <2>1
    <2> QED BY <2>2, <2>3, <2>4, <2>5
<1> HIDE DEF q
<1>5. ASSUME InOrder(h), NEW i \in 1 .. L - o, NEW j \in 1 .. L - o, i <= j
      PROVE  q[i].ts <= q[j].ts
    <2>1. i + o \in 1 .. L /\ j + o \in 1 .. L /\ i + o <= j + o
        BY <1>1, <1>2, <1>5
    <2>2. h[i + o].ts <= h[j + o].ts
        BY <1>5, <2>1 DEF InOrder
    <2> QED BY <1>4, <2>2
<1>6. InOrder(h) => InOrder(q)
    BY <1>4, <1>5 DEF InOrder
<1>7. ASSUME h # << >> PROVE q[Len(q)] = h[L]
    <2>1. L > 0
        BY <1>1, <1>7, EmptySeq
    <2>2. o < L
        BY <1>1, <2>1 DEF o
    <2>3. L - o \in 1 .. L - o /\ (L - o) + o = L
        BY <1>1, <1>2, <2>2
    <2> QED BY <1>4, <2>3
<1> QED BY <1>3, <1>4, <1>6, <1>7

LEMMA SectionFields ==
    ASSUME NEW sample, NEW win
    PROVE  /\ PeakSection(sample, win).sample = sample
           /\ PeakSection(sample, win).win = win
           /\ PeakSection(sample, win).peak = TRUE
           /\ PeakSection(sample, win).last = Latest
BY DEF PeakSection

LEMMA MemorySectionOK ==
    ASSUME NEW sample, NEW win, sample.present => MemoryPeakOf(sample, win),
           win # {} => sample.present
    PROVE  MemoryAnswer(PeakSection(sample, win))
<1> DEFINE a == PeakSection(sample, win)
<1>1. a.sample = sample /\ a.win = win
    BY SectionFields
<1> HIDE DEF a
<1>2. MemoryAnswer(a)
    BY <1>1, Zenon DEF MemoryAnswer
<1> QED BY <1>2 DEF a

LEMMA GpuSectionOK ==
    ASSUME NEW sample, NEW win, sample.present,
           win = {} => sample = Latest, win # {} => GpuPeakOf(sample, win, Latest)
    PROVE  GpuAnswer(PeakSection(sample, win))
<1> DEFINE a == PeakSection(sample, win)
<1>1. a.sample = sample /\ a.win = win /\ a.last = Latest
    BY DEF PeakSection
<1> HIDE DEF a
<1>2. GpuAnswer(a)
    BY <1>1, Zenon DEF GpuAnswer
<1> QED BY <1>2 DEF a

LEMMA MemoryAnswered ==
    ASSUME CombinedInv, load.module = "memory", NEW cutoff \in Int
    PROVE  MemoryAnswer(PeakSection(PeakOf(Ring(hist), cutoff), WindowOf(Ring(hist), cutoff)))
<1>1. hist \in Seq(MemorySamples) /\ InOrder(hist)
    BY DEF CombinedInv, HandlerInv, TimesOK
<1> DEFINE snap == Ring(hist)
<1>2. snap \in Seq(MemorySamples) /\ InOrder(snap)
    BY <1>1, RingOK
<1> HIDE DEF snap
<1> DEFINE peak == MemoryPeak(snap, cutoff)
           W == WindowOf(snap, cutoff)
<1>3. PeakOf(snap, cutoff) = peak
    BY DEF PeakOf
<1>4. /\ peak.present \in BOOLEAN
      /\ peak.present => MemoryPeakOf(peak, W)
      /\ W # {} => peak.present
    BY <1>2, MemoryPeakIs
<1> HIDE DEF peak, W
<1>5. MemoryAnswer(PeakSection(peak, W))
    BY <1>4, MemorySectionOK, Zenon
<1> QED BY <1>3, <1>5 DEF snap, W

LEMMA GpuAnswered ==
    ASSUME CombinedInv, load.module = "gpu", hist # << >>, NEW cutoff \in Int,
           PeakOf(Ring(hist), cutoff).present
    PROVE  GpuAnswer(PeakSection(PeakOf(Ring(hist), cutoff), WindowOf(Ring(hist), cutoff)))
<1>1. hist \in Seq(GpuSamples) /\ InOrder(hist)
    BY DEF CombinedInv, HandlerInv, TimesOK
<1> DEFINE snap == Ring(hist)
<1>2. snap \in Seq(GpuSamples) /\ InOrder(snap) /\ snap[Len(snap)] = Latest
    BY <1>1, RingOK DEF Latest
<1> HIDE DEF snap
<1> DEFINE peak == GpuPeak(snap, cutoff)
           W == WindowOf(snap, cutoff)
<1>3. PeakOf(snap, cutoff) = peak
    BY DEF PeakOf
<1>4. peak # Nothing => W # {} /\ GpuPeakOf(peak, W, Latest)
    BY <1>2, GpuPeakIs
<1>5. peak.present
    BY <1>3 DEF snap
<1>6. Nothing.present = FALSE
    BY DEF Nothing
<1> HIDE DEF peak, W
<1>7. peak # Nothing
    BY <1>5, <1>6
<1>8. GpuAnswer(PeakSection(peak, W))
    BY <1>4, <1>5, <1>7, GpuSectionOK, Zenon
<1> QED BY <1>3, <1>8 DEF snap, W

(* The fallback. *)
LEMMA GpuLatestAnswered ==
    ASSUME CombinedInv, load.module = "gpu", hist # << >>
    PROVE  GpuAnswer(PeakSection(Latest, {}))
<1>1. hist \in Seq(GpuSamples)
    BY DEF CombinedInv, HandlerInv
<1>2. Latest \in GpuSamples
    BY <1>1 DEF Latest
<1>3. Latest.present = TRUE
    BY <1>2, GpuFields
<1> QED BY <1>3, GpuSectionOK, Zenon

(* One section is replaced. *)
LEMMA SectionReplaced ==
    ASSUME SectionInv, NEW c \in Clients, NEW a, section' = [section EXCEPT ![c] = a],
           load.module = "memory" => MemoryAnswer(a), load.module = "gpu" => GpuAnswer(a),
           UNCHANGED << load, hist >>,
           ask' \in [Clients -> Asks],
           \A b \in Clients : ask'[b].at # "idle" => hist # << >>,
           load.module = "memory" => \A b \in Clients : ask'[b].at # "latest"
    PROVE  SectionInv'
<1>1. \A b \in Clients : section'[b] = a \/ section'[b] = section[b]
    BY DEF SectionInv
<1>2. DOMAIN section' = Clients
    BY DEF SectionInv
<1> QED BY <1>1, <1>2 DEF SectionInv

LEMMA SectionStep ==
    ASSUME CombinedInv, SectionInv, [CombinedNext]_cvars
    PROVE  SectionInv'
<1>1. CASE UNCHANGED << load, ask, section >> /\ (hist # << >> => hist' # << >>)
    BY <1>1 DEF SectionInv
<1>2. CASE Cpu \/ Advance \/ UNCHANGED cvars
    <2>1. UNCHANGED << load, hist, ask, section >>
        BY <1>2 DEF Cpu, Advance, others, cvars
    <2> QED BY <1>1, <2>1
<1>3. ASSUME NEW s, Publish(s) PROVE SectionInv'
    <2>1. hist' = Append(hist, s) /\ UNCHANGED << load, ask, section >>
        BY <1>3 DEF Publish
    <2>2. hist' # << >>
        BY <2>1
    <2> QED BY <1>1, <2>1, <2>2
<1>4. CASE \/ \E vm \in VirtualMemory : MemorySample(vm)
           \/ MemoryFails
           \/ \E dev \in [Devices -> DeviceReadings] : GpuSample(dev)
           \/ StorageSample
    BY <1>3, <1>4 DEF MemorySample, MemoryFails, GpuSample, StorageSample
<1>5. ASSUME NEW c \in Clients, NEW d \in Windows, AskPeak(c, d) PROVE SectionInv'
    <2>1. clock - d \in Int
        BY PeakAssumption DEF CombinedInv, HandlerInv
    <2>2. /\ ask' = [ask EXCEPT ![c] = [at |-> "snapshot", cutoff |-> clock - d]]
          /\ section' = [section EXCEPT ![c] = NoSection]
          /\ UNCHANGED << load, hist >> /\ hist # << >>
        BY <1>5 DEF AskPeak, Reply, Asking
    <2>3. ask' \in [Clients -> Asks]
        BY <2>1, <2>2 DEF SectionInv, Asks
    <2>4. NoSection.peak = FALSE
        BY DEF NoSection
    <2>5. MemoryAnswer(NoSection) /\ GpuAnswer(NoSection)
        BY <2>4, NoPeak
    <2>6. load.module = "memory" => \A b \in Clients : ask'[b].at # "latest"
        BY <2>2 DEF SectionInv
    <2> QED BY <2>2, <2>3, <2>5, <2>6, SectionReplaced
<1>6. ASSUME NEW c \in Clients, AnswerPeak(c) PROVE SectionInv'
    <2> DEFINE cutoff == ask[c].cutoff
               peak == PeakOf(Ring(hist), cutoff)
               a == PeakSection(peak, WindowOf(Ring(hist), cutoff))
    <2>1. /\ ask[c].at = "snapshot" /\ UNCHANGED << load, hist >>
          /\ IF peak.present \/ load.module = "memory"
               THEN section' = [section EXCEPT ![c] = a] /\ ask' = [ask EXCEPT ![c] = NotAsking]
               ELSE ask' = [ask EXCEPT ![c].at = "latest"] /\ UNCHANGED section
        BY <1>6, Zenon DEF AnswerPeak, Reply
    <2>2. cutoff \in Int /\ hist # << >> /\ ask \in [Clients -> Asks]
        BY <2>1 DEF SectionInv, Asks
    <2>3. load.module = "memory" => MemoryAnswer(a)
        BY <2>2, MemoryAnswered
    <2>4. load.module = "gpu" /\ peak.present => GpuAnswer(a)
        BY <2>2, GpuAnswered
    <2>5. NotAsking \in Asks /\ NotAsking.at = "idle"
        BY DEF NotAsking, Asks
    <2> HIDE DEF a, peak
    <2>6. CASE peak.present \/ load.module = "memory"
        <3>1. ask' \in [Clients -> Asks]
            BY <2>1, <2>2, <2>5, <2>6
        <3>2. load.module = "gpu" => GpuAnswer(a)
            BY <2>4, <2>6
        <3>3. load.module = "memory" => \A b \in Clients : ask'[b].at # "latest"
            BY <2>1, <2>2, <2>5, <2>6 DEF SectionInv
        <3> QED BY <2>1, <2>2, <2>3, <2>6, <3>1, <3>2, <3>3, SectionReplaced
    <2>7. CASE ~ (peak.present \/ load.module = "memory")
        <3>1. ask' = [ask EXCEPT ![c].at = "latest"] /\ UNCHANGED section
            BY <2>1, <2>7
        <3>2. ask' \in [Clients -> Asks]
            BY <2>2, <3>1 DEF Asks
        <3> QED BY <2>1, <2>2, <2>7, <3>1, <3>2 DEF SectionInv
    <2> QED BY <2>6, <2>7
<1>b. ASSUME NEW c \in Clients, AnswerLatest(c) PROVE SectionInv'
    <2> DEFINE a == PeakSection(Latest, {})
    <2>1. /\ ask[c].at = "latest" /\ UNCHANGED << load, hist >>
          /\ section' = [section EXCEPT ![c] = a] /\ ask' = [ask EXCEPT ![c] = NotAsking]
        BY <1>b DEF AnswerLatest, Reply
    <2>2. hist # << >> /\ load.module # "memory" /\ ask \in [Clients -> Asks]
        BY <2>1 DEF SectionInv
    <2>3. load.module = "gpu" => GpuAnswer(a)
        BY <2>2, GpuLatestAnswered
    <2>4. NotAsking \in Asks
        BY DEF NotAsking, Asks
    <2> HIDE DEF a
    <2>5. ask' \in [Clients -> Asks]
        BY <2>1, <2>2, <2>4
    <2> QED BY <2>1, <2>2, <2>3, <2>5, SectionReplaced
<1>7. ASSUME NEW c \in Clients, AskLatest(c) \/ BadWindow(c) PROVE SectionInv'
    <2>1. PICK a : a.peak = FALSE /\ section' = [section EXCEPT ![c] = a]
        <3>1. CASE AskLatest(c)
            <4> DEFINE sample == IF load.module = "gpu disabled" THEN Nothing ELSE Latest
                       b == [NoSection EXCEPT !.code = 200, !.sample = sample]
            <4>1. section' = [section EXCEPT ![c] = b]
                BY <3>1, Zenon DEF AskLatest, Reply
            <4> HIDE DEF sample
            <4>2. b.peak = FALSE
                BY DEF NoSection
            <4> HIDE DEF b
            <4> QED BY <4>1, <4>2
        <3>2. CASE BadWindow(c)
            <4>1. [NoSection EXCEPT !.code = 400].peak = FALSE
                BY DEF NoSection
            <4> QED BY <3>2, <4>1 DEF BadWindow, Reply
        <3> QED BY <1>7, <3>1, <3>2
    <2>2. UNCHANGED << load, hist, ask >>
        BY <1>7 DEF AskLatest, BadWindow
    <2>3. MemoryAnswer(a) /\ GpuAnswer(a)
        BY <2>1, NoPeak
    <2> QED BY <2>1, <2>2, <2>3, SectionReplaced DEF SectionInv
<1> QED BY <1>2, <1>4, <1>5, <1>6, <1>b, <1>7 DEF CombinedNext

LEMMA SectionInvariant == CombinedSpec => [](CombinedInv /\ SectionInv)
BY SectionInit, SectionStep, CombinedInvariant, PTL DEF CombinedSpec

(* The unsigned arithmetic of memory/module.go adds no overflow, for any    *)
(* size of memory, any word that holds it and any figures of the kernel: a  *)
(* sample that uses more than there is has more than that available, and a  *)
(* peak whose newest sample was read does only with one of them in its      *)
(* window.                                                                  *)
THEOREM MemoryArithmeticIsSound == CombinedSpec => []MemoryAddsNoOverflow
<1>1. ASSUME CombinedInv, SectionInv PROVE MemoryAddsNoOverflow
    <2>1. SUFFICES ASSUME load.module = "memory"
                   PROVE  /\ \A i \in 1 .. Len(hist) :
                                hist[i].used > hist[i].total => hist[i].available > hist[i].total
                          /\ \A a \in Peaks :
                                a.sample.ok /\ (a.sample.used > a.sample.total \/ a.sample.pct > 100)
                                    => \E s \in a.win : s.available > s.total
        BY DEF MemoryAddsNoOverflow
    <2>2. hist \in Seq(MemorySamples)
        BY <1>1, <2>1 DEF CombinedInv, HandlerInv
    <2>3. \A i \in 1 .. Len(hist) : hist[i] \in MemorySamples
        BY <2>2
    <2>4. \A i \in 1 .. Len(hist) : hist[i].used > hist[i].total => hist[i].available > hist[i].total
        BY <2>3, MemoryFields
    <2>5. \A a \in Peaks : MemoryPeakOf(a.sample, a.win)
        BY <1>1, <2>1 DEF SectionInv, MemoryAnswer, Peaks
    <2> QED BY <2>4, <2>5 DEF MemoryPeakOf
<1> QED BY <1>1, SectionInvariant, PTL

(* Peak of the memory module (memory/module.go:88-121) is the largest use   *)
(* of the window under the newest time in it, and is left out only if the   *)
(* window has no sample, for any history, capacity and window.              *)
THEOREM MemoryPeaksAreExact == CombinedSpec => []MemoryPeakExact
<1>1. ASSUME CombinedInv, SectionInv PROVE MemoryPeakExact
    <2>1. SUFFICES ASSUME load.module = "memory"
                   PROVE  /\ \A a \in Peaks :
                                /\ a.sample.used = Max({s.used : s \in a.win})
                                /\ a.sample.ts = Max({s.ts : s \in a.win})
                                /\ \E s \in a.win : /\ s.ts = a.sample.ts /\ s.ok = a.sample.ok
                                                    /\ s.total = a.sample.total
                          /\ \A c \in Clients :
                                section[c].peak /\ section[c].win # {} => section[c].sample.present
        BY DEF MemoryPeakExact
    <2>2. \A a \in Peaks : MemoryPeakOf(a.sample, a.win)
        BY <1>1, <2>1 DEF SectionInv, MemoryAnswer, Peaks
    <2>3. \A c \in Clients : section[c].peak /\ section[c].win # {} => section[c].sample.present
        BY <1>1, <2>1 DEF SectionInv, MemoryAnswer
    <2> QED BY <2>2, <2>3 DEF MemoryPeakOf
<1> QED BY <1>1, SectionInvariant, PTL

(* Peak of the gpu module (gpu/module.go:109-175) is, for any set of        *)
(* devices, each device's largest load of the window and the newest         *)
(* sample's time and errors; with no sample in the window the section is    *)
(* the newest sample itself.                                                *)
THEOREM GpuPeaksAreExact == CombinedSpec => []GpuPeakExact
<1>1. ASSUME CombinedInv, SectionInv PROVE GpuPeakExact
    <2>1. ASSUME load.module = "gpu", NEW c \in Clients, section[c].peak PROVE GpuAnswer(section[c])
        BY <1>1, <2>1 DEF SectionInv
    <2> QED BY <2>1 DEF GpuAnswer, GpuPeakOf, TakenFrom, GpuPeakExact
<1> QED BY <1>1, SectionInvariant, PTL
=============================================================================
