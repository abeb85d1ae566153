------------------------------ MODULE CpuPeak ------------------------------
(***************************************************************************)
(* GET /metrics?mode=peak for the cpu module: Peak of internal/cpu/module.go *)
(* and the cpu part of CombinedHandler.ServeHTTP.  A Go slice is a reference: *)
(* the ring buffer's Snapshot copies the samples, but the copies share the  *)
(* per-core arrays of the published ones, so arrays live in a heap here,    *)
(* one for each sample, and Peak's stores go where the code's go.           *)
(*                                                                         *)
(* The clock moves with the sampler, one sample at each instant, and starts *)
(* so long after the zero time that no window reaches back to it.           *)
(***************************************************************************)
EXTENDS Integers, Sequences

CONSTANTS
    Clients,        \* clients, one outstanding request each
    Loads,          \* percentages
    Widths,         \* how many cores a reading may have
    Windows,        \* the ?window= values
    Epoch,          \* the instant before the first sample, on a clock with zero time 0
    Cap,            \* history capacity
    MaxSamples      \* bound: samples in a run

ASSUME PeakAssumption ==
    /\ Loads \subseteq Nat /\ Widths \subseteq Nat \ {0} /\ Windows \subseteq Nat \ {0}
    /\ Cap \in Nat \ {0} /\ MaxSamples \in Nat
    /\ Epoch \in Nat /\ \A d \in Windows : d < Epoch

VARIABLES
    samples,        \* samples[i]: timestamp, overall load and readings of sample i
    cell,           \* cell[i]: the array PerCorePercent of sample i refers to
    req,            \* req[c]: the locals of c's Peak
    reply           \* reply[c]: the cpu section of c's last answer

vars == << samples, cell, req, reply >>

Now == Len(samples)

(* The ring buffer, oldest first, as sample numbers. *)
Buffered == [i \in 1 .. (IF Now < Cap THEN Now ELSE Cap) |->
                (IF Now < Cap THEN 0 ELSE Now - Cap) + i]

(* History: win, the samples of the snapshot in the window; solo, whether   *)
(* no other request was under way at any time.                              *)
Idle == [at |-> "idle", cutoff |-> 0, snap |-> << >>, j |-> 0, seed |-> 0,
         own |-> << >>, ov |-> 0, core |-> 0, v |-> 0, solo |-> TRUE]
NoReply == [code |-> 0, present |-> FALSE, ov |-> 0, cores |-> << >>, win |-> {}, solo |-> TRUE]

Init ==
    /\ samples = << >> /\ cell = << >>
    /\ req = [c \in Clients |-> Idle]
    /\ reply = [c \in Clients |-> NoReply]

Readings == UNION { [1 .. n -> Loads] : n \in Widths }

-----------------------------------------------------------------------------
(* collectSample and Publish; a failed sample has the zero time, which is   *)
(* before every cutoff.                                                     *)

Sample(overall, per) ==
    /\ Now < MaxSamples
    /\ samples' = Append(samples, [ts |-> Epoch + Now + 1, overall |-> overall, per |-> per])
    /\ cell' = Append(cell, per)
    /\ UNCHANGED << req, reply >>

SampleFails ==
    /\ Now < MaxSamples
    /\ samples' = Append(samples, [ts |-> 0, overall |-> 0, per |-> << >>])
    /\ cell' = Append(cell, << >>)
    /\ UNCHANGED << req, reply >>

-----------------------------------------------------------------------------
(* What peak.PerCorePercent refers to: its own array, once a longer one has *)
(* been copied, otherwise that of the sample it was seeded from.            *)
Target(r) == IF r.own # << >> THEN r.own ELSE cell[r.seed]

(* Mutants of the steps below: the loop stops at the first sample of the    *)
(* window; an older sample replaces the overall load, or a core's, instead  *)
(* of raising it.                                                           *)
ScanNewestOnly(c) ==
    /\ req[c].at = "scan" /\ req[c].j > 0
    /\ LET r == req[c]  i == r.snap[r.j]
       IN  IF samples[i].ts < r.cutoff
             THEN req' = [req EXCEPT ![c].j = @ - 1]
             ELSE req' = [req EXCEPT ![c].j = 0, ![c].seed = i, ![c].ov = samples[i].overall]
    /\ UNCHANGED << samples, cell, reply >>

RaiseReplaces(a, b) == a

MergeAlways(c) ==
    /\ req[c].at = "merge"
    /\ LET r == req[c]  i == r.snap[r.j]
       IN  IF r.core > Len(cell[i])
             THEN req' = [req EXCEPT ![c].at = "scan", ![c].j = @ - 1, ![c].core = 0]
             ELSE req' = [req EXCEPT ![c].at = "store", ![c].v = cell[i][r.core]]
    /\ UNCHANGED << samples, cell, reply >>

(* The peak of the overall load so far, with one more sample. *)
Raise(a, b) == IF a > b THEN a ELSE b

(* Peak is called, after New has published the first sample: the cutoff is  *)
(* taken ...                                                                *)
Request(c, d) ==
    /\ Now > 0 /\ req[c].at = "idle"
    /\ LET others == {b \in Clients : req[b].at # "idle"}
       IN  req' = [b \in Clients |->
              IF b = c THEN [Idle EXCEPT !.at = "snapshot", !.cutoff = Epoch + Now - d, !.solo = others = {}]
              ELSE IF b \in others THEN [req[b] EXCEPT !.solo = FALSE] ELSE req[b]]
    /\ reply' = [reply EXCEPT ![c] = NoReply]
    /\ UNCHANGED << samples, cell >>

(* ... then the snapshot. *)
TakeSnapshot(c) ==
    /\ req[c].at = "snapshot"
    /\ req' = [req EXCEPT ![c].at = "scan", ![c].snap = Buffered, ![c].j = Len(Buffered)]
    /\ UNCHANGED << samples, cell, reply >>

(* One iteration of the loop over the snapshot, newest first, up to the     *)
(* merge of the per-core loads.                                             *)
Scan(c) ==
    /\ req[c].at = "scan" /\ req[c].j > 0
    /\ LET r == req[c]
           i == r.snap[r.j]
       IN  IF samples[i].ts < r.cutoff
             THEN req' = [req EXCEPT ![c].j = @ - 1]
             ELSE IF r.seed = 0
             THEN req' = [req EXCEPT ![c].j = @ - 1, ![c].seed = i, ![c].ov = samples[i].overall]
             ELSE req' = [req EXCEPT
                     ![c].ov = Raise(samples[i].overall, @),
                     ![c].own = IF Len(cell[i]) > Len(Target(r)) THEN cell[i] ELSE @,
                     ![c].at = "merge", ![c].core = 1]
    /\ UNCHANGED << samples, cell, reply >>

(* One core of an older sample is compared with the peak's. *)
Merge(c) ==
    /\ req[c].at = "merge"
    /\ LET r == req[c]
           i == r.snap[r.j]
       IN  IF r.core > Len(cell[i])
             THEN req' = [req EXCEPT ![c].at = "scan", ![c].j = @ - 1, ![c].core = 0]
             ELSE IF r.core <= Len(Target(r)) /\ cell[i][r.core] > Target(r)[r.core]
             THEN req' = [req EXCEPT ![c].at = "store", ![c].v = cell[i][r.core]]
             ELSE req' = [req EXCEPT ![c].core = @ + 1]
    /\ UNCHANGED << samples, cell, reply >>

(* peak.PerCorePercent[i] = v *)
Store(c) ==
    /\ req[c].at = "store"
    /\ LET r == req[c]
           next == [r EXCEPT !.at = "merge", !.core = @ + 1, !.v = 0]
       IN  IF r.own # << >>
             THEN /\ req' = [req EXCEPT ![c] = [next EXCEPT !.own[r.core] = r.v]]
                  /\ UNCHANGED cell
             ELSE /\ req' = [req EXCEPT ![c] = next]
                  /\ cell' = [cell EXCEPT ![r.seed][r.core] = r.v]
    /\ UNCHANGED << samples, reply >>

(* The combined handler: a Peak that found nothing is a nil *Sample in a    *)
(* non-nil interface, so the fallback to Latest is not taken, assignSample  *)
(* drops it, and the answer has no cpu section.                             *)
Respond(c) ==
    /\ req[c].at = "scan" /\ req[c].j = 0
    /\ LET r == req[c]
       IN  reply' = [reply EXCEPT ![c] =
              [code |-> 200, present |-> r.seed # 0, ov |-> r.ov,
               cores |-> IF r.seed # 0 THEN Target(r) ELSE << >>,
               win |-> {i \in {r.snap[k] : k \in 1 .. Len(r.snap)} : samples[i].ts >= r.cutoff},
               solo |-> r.solo]]
    /\ req' = [req EXCEPT ![c] = Idle]
    /\ UNCHANGED << samples, cell >>

-----------------------------------------------------------------------------
Next ==
    \/ \E overall \in Loads, per \in Readings : Sample(overall, per)
    \/ SampleFails
    \/ \E c \in Clients : \/ \E d \in Windows : Request(c, d)
                          \/ TakeSnapshot(c) \/ Scan(c) \/ Merge(c) \/ Store(c) \/ Respond(c)

Spec == Init /\ [][Next]_vars

-----------------------------------------------------------------------------
(* Properties *)

(* The loads core k had in the window c asked about. *)
Observed(c, k) == {samples[i].per[k] : i \in {i \in reply[c].win : k <= Len(samples[i].per)}}

(* The overall loads in that window. *)
OverallLoads(c) == {samples[i].overall : i \in reply[c].win}

(* The overall load of a peak answer is the maximum of the window           *)
(* (module.go:81-83), however the sampler goes on meanwhile and however     *)
(* many earlier requests have written into the published samples; and the   *)
(* section is there whenever the window has a sample.                       *)
OverallIsMaximum ==
    \A c \in Clients : reply[c].code = 200 =>
        /\ reply[c].win # {} => reply[c].present
        /\ reply[c].present => /\ reply[c].ov \in OverallLoads(c)
                               /\ \A x \in OverallLoads(c) : x <= reply[c].ov

(* No core's peak is understated: when no other request ran meanwhile and   *)
(* the number of cores is the same all over the window, every load in the   *)
(* window is at most the peak reported for its core, whatever requests that *)
(* raced earlier have left in the shared arrays.                            *)
PeakNeverUnderstates ==
    \A c \in Clients :
        (reply[c].present /\ reply[c].solo /\ \A i, j \in reply[c].win : Len(samples[i].per) = Len(samples[j].per))
            => \A i \in reply[c].win :
                  /\ Len(reply[c].cores) >= Len(samples[i].per)
                  /\ \A k \in 1 .. Len(samples[i].per) : reply[c].cores[k] >= samples[i].per[k]

(* Though requests store into the arrays of published samples, and their    *)
(* stores race, what a sample or an answer holds for a core is a load that  *)
(* was measured on that core, and never less than the sample's own.         *)
SharedArraysHonest ==
    LET Measured(k) == {samples[j].per[k] : j \in {j \in 1 .. Now : k <= Len(samples[j].per)}}
    IN  /\ \A i \in 1 .. Now : \A k \in 1 .. Len(cell[i]) :
              cell[i][k] \in Measured(k) /\ cell[i][k] >= samples[i].per[k]
        /\ \A c \in Clients : \A k \in 1 .. Len(reply[c].cores) : reply[c].cores[k] \in Measured(k)

(* "the maximum observed over the trailing duration d" (peakable.go:12-13): *)
(* the peak of a core is a load it had in the window.                       *)
PeakWasObserved ==
    \A c \in Clients : reply[c].present =>
        \A k \in 1 .. Len(reply[c].cores) : reply[c].cores[k] \in Observed(c, k)
=============================================================================
