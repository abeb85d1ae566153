----------------------------- MODULE MetricsAPI -----------------------------
(***************************************************************************)
(* The HTTP handlers that read a sampling module while it samples:          *)
(* GET /metrics/<name> and GET /metrics/<name>/history (RegisterRoutes and  *)
(* HistoryWithin in internal/metrics/base.go) and GET /health               *)
(* (internal/server/handlers/health.go).  A handler that looks at the       *)
(* module twice does so in two steps, between which the sampler and the     *)
(* clock may move.  Clients are served from the moment Start has been       *)
(* called; each makes any number of requests, one after another.            *)
(***************************************************************************)
EXTENDS Sampler

CONSTANTS
    Clients,        \* the clients, one outstanding request each
    Windows,        \* the ?duration= values clients ask for
    Limits,         \* the ?limit= values, 0 for none
    BadWindow       \* a ?duration= that does not parse or is not positive

ASSUME APIAssumption ==
    /\ Windows \subseteq Nat \ {0} /\ Limits \subseteq Nat
    /\ BadWindow \notin Windows
    /\ \A d \in Windows : d < Epoch   \* the clock starts long after the zero time

VARIABLES
    at,             \* at[c]: where c's request is
    cutoff,         \* cutoff[c]: HistoryWithin's cutoff
    limit,          \* limit[c]: the parsed ?limit=
    age,            \* age[c]: the LastSampleAge of health.go:57
    mark,           \* history variable: stamped when age[c] was read
    reply,          \* reply[c]: the last answer c was given
    seen            \* history variable: the newest sample c has been shown

cvars == << at, cutoff, limit, age, mark, reply, seen >>
vars == << svars, cvars >>

Reply(route, code, items, ms) == [route |-> route, code |-> code, items |-> items, age |-> ms]

NoReply == Reply("none", 0, << >>, 0)
HealthReply(degraded, ms) == Reply("health", IF degraded THEN 503 ELSE 200, << >>, ms)

ClientInit ==
    /\ at = [c \in Clients |-> "idle"]
    /\ cutoff = [c \in Clients |-> 0]
    /\ limit = [c \in Clients |-> 0]
    /\ age = [c \in Clients |-> 0]
    /\ mark = [c \in Clients |-> 0]
    /\ reply = [c \in Clients |-> NoReply]
    /\ seen = [c \in Clients |-> 0]

(* The response is written and the handler's locals are gone. *)
Answer(c, r) ==
    /\ reply' = [reply EXCEPT ![c] = r]
    /\ at' = [at EXCEPT ![c] = "idle"]
    /\ cutoff' = [cutoff EXCEPT ![c] = 0]
    /\ limit' = [limit EXCEPT ![c] = 0]
    /\ age' = [age EXCEPT ![c] = 0]
    /\ mark' = [mark EXCEPT ![c] = 0]
    /\ seen' = IF r.items = << >> THEN seen
               ELSE LET newest == r.items[Len(r.items)].id
                    IN  [seen EXCEPT ![c] = IF newest > seen[c] THEN newest ELSE seen[c]]

(* HistoryWithin's filter: the samples whose Timestamp is not before the    *)
(* cutoff, oldest first.                                                    *)
Keep(s, t) ==
    LET out[n \in 0 .. Len(s)] ==
          IF n = 0 THEN << >>
          ELSE IF s[n].ts >= t THEN Append(out[n - 1], s[n]) ELSE out[n - 1]
    IN  out[Len(s)]

(* BuildHistoryResponse: the last n entries when n is positive. *)
Trim(s, n) == IF n > 0 /\ Len(s) > n THEN SubSeq(s, Len(s) - n + 1, Len(s)) ELSE s

-----------------------------------------------------------------------------
(* Mutants *)

(* The age is compared with a looser threshold. *)
HealthCompareLoose(c) ==
    /\ at[c] = "compare"
    /\ Answer(c, HealthReply(LastSampleAge > 3 * Interval, age[c]))
    /\ UNCHANGED svars

-----------------------------------------------------------------------------
(* GET /metrics/<name> *)
GetLatest(c) ==
    /\ started /\ at[c] = "idle"
    /\ Answer(c, IF ~ Enabled THEN Reply("latest", 404, << >>, 0)
                 ELSE IF latest = None THEN Reply("latest", 503, << >>, 0)
                 ELSE Reply("latest", 200, << latest >>, 0))
    /\ UNCHANGED svars

(* GET /metrics/<name>/history, up to the cutoff; a disabled module and a   *)
(* bad duration are refused.                                                *)
GetHistory(c, d, n) ==
    /\ started /\ at[c] = "idle"
    /\ IF ~ Enabled \/ d = BadWindow
         THEN Answer(c, Reply("history", IF ~ Enabled THEN 404 ELSE 400, << >>, 0))
         ELSE /\ at' = [at EXCEPT ![c] = "snapshot"]
              /\ cutoff' = [cutoff EXCEPT ![c] = now - d]
              /\ limit' = [limit EXCEPT ![c] = n]
              /\ reply' = [reply EXCEPT ![c] = NoReply]
              /\ UNCHANGED << age, mark, seen >>
    /\ UNCHANGED svars

(* The Snapshot, the filter and the response. *)
HistorySnapshot(c) ==
    /\ at[c] = "snapshot"
    /\ Answer(c, Reply("history", 200, Trim(Keep(buf, cutoff[c]), limit[c]), 0))
    /\ UNCHANGED svars

(* GET /health, the age that goes into the response. *)
GetHealth(c) ==
    /\ started /\ at[c] = "idle"
    /\ IF Enabled
         THEN /\ at' = [at EXCEPT ![c] = "compare"]
              /\ age' = [age EXCEPT ![c] = LastSampleAge]
              /\ mark' = [mark EXCEPT ![c] = stamped]
              /\ reply' = [reply EXCEPT ![c] = NoReply]
              /\ UNCHANGED << cutoff, limit, seen >>
         ELSE Answer(c, HealthReply(FALSE, 0))
    /\ UNCHANGED svars

(* The age is read again for the comparison. *)
HealthCompare(c) ==
    /\ at[c] = "compare"
    /\ Answer(c, HealthReply(Stale, age[c]))
    /\ UNCHANGED svars

-----------------------------------------------------------------------------
ClientNext(c) ==
    \/ GetLatest(c)
    \/ \E d \in Windows \cup {BadWindow}, n \in Limits : GetHistory(c, d, n)
    \/ HistorySnapshot(c)
    \/ GetHealth(c)
    \/ HealthCompare(c)

APIInit == Init /\ ClientInit
APINext == \/ Next /\ UNCHANGED cvars
           \/ \E c \in Clients : ClientNext(c)

APISpec == APIInit /\ [][APINext]_vars

(* Clients owe nothing. *)
APILiveSpec == APISpec /\ SamplerFairness

-----------------------------------------------------------------------------
(* Properties *)

(* What a client has been shown is never taken back, although latest and    *)
(* the history are stored one after the other: a later GET /metrics/<name>  *)
(* is at least as new as everything the client has seen on either route,    *)
(* and a history lags by at most the one sample whose Publish is under way. *)
NoBackwardReads ==
    [][\A c \in Clients :
         (reply'[c] # reply[c] /\ reply'[c].items # << >>) =>
            LET newest == reply'[c].items[Len(reply'[c].items)].id
            IN  newest >= seen[c] - (IF reply'[c].route = "latest" THEN 0 ELSE 1)]_vars

(* History returns the samples collected within the trailing duration       *)
(* (module.go:34-36): whatever the sampler publishes between the cutoff and *)
(* the snapshot, the answer has the samples still held whose timestamp is   *)
(* in the window, in chronological order, and when a limit cuts it, it is   *)
(* the newest ones that stay.  A timestamp is not the time of the values,   *)
(* so the window of the values is kept on one side only: the gpu module     *)
(* shows no value read before the window, the others miss none read in it   *)
(* (but for a failed cpu sample, which has no timestamp).                   *)
HistoryIsTheWindow ==
    [][\A c \in Clients :
         (at[c] = "snapshot" /\ at'[c] = "idle") =>
            LET items == reply'[c].items
                readInWindow(s) == Kind # "gpu" /\ s.ts # ZeroTime /\ s.at >= cutoff[c]
            IN  /\ \A i \in 1 .. Len(items) - 1 :
                      items[i].id < items[i + 1].id /\ items[i].ts <= items[i + 1].ts
                /\ \A i \in 1 .. Len(items) :
                      items[i].ts >= cutoff[c] /\ (Kind = "gpu" => items[i].at >= cutoff[c])
                /\ \A i \in 1 .. Len(buf) :
                      /\ buf[i].ts >= cutoff[c] \/ readInWindow(buf[i])
                      /\ limit[c] = 0 \/ i > Len(buf) - limit[c]
                      => \E j \in 1 .. Len(items) : items[j] = buf[i]]_vars

(* The age and the status of one /health answer come from two reads.  They  *)
(* contradict each other (an old age under "ok") only if a sample was       *)
(* published between the two.                                               *)
HealthContradictionExplained ==
    [][\A c \in Clients :
         (at[c] = "compare" /\ at'[c] = "idle"
            /\ reply'[c].code = 200 /\ reply'[c].age > 2 * Interval)
                => stamped > mark[c]]_vars

(* "ok" from /health, then GET /metrics/<name> of the cpu, memory or gpu    *)
(* module: the values served are not older than the threshold plus the time *)
(* one collection takes.  Nothing of the kind holds of the storage module,  *)
(* whose usages may come from a call of an earlier round                    *)
(* (storage/collector.go:68).                                               *)
HealthyMeansFresh ==
    [][\A c \in Clients :
         (Prompt /\ Kind # "storage" /\ at[c] = "compare" /\ at'[c] = "idle" /\ reply'[c].code = 200)
            => now - latest.at <= 2 * Interval + CollectBound]_vars
=============================================================================
