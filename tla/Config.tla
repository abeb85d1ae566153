------------------------------- MODULE Config -------------------------------
(***************************************************************************)
(* internal/config/config.go: the defaults and the validation a parsed      *)
(* configuration goes through before anything is built from it.  Durations  *)
(* are milliseconds, and a zero stands for a key the file does not have.    *)
(* Log and header texts only have defaults and are left out.                *)
(***************************************************************************)
EXTENDS Cors

(* The result of a file that cannot be read or parsed. *)
Unreadable == [readable |-> FALSE]

(* The routes of main.go, besides the modules' own. *)
Routes == {"/health", "/metrics", "/profile"}

(* The default host. *)
Loopback == "127.0.0.1"

(* A file that can be parsed: the keys have their Go types. *)
Configs ==
    [readable : {TRUE}, host : {Loopback} \cup STRING, port : Int, interval : Int, capacity : Int, modules : SUBSET STRING,
     mounts : Seq([path : STRING, alias : STRING]), cors : BOOLEAN, origins : Seq(Origins),
     limit : BOOLEAN, rps : Int, burst : Int, exempt : SUBSET (Routes \cup STRING)]

(* The configuration of an empty file: every key at its zero value. *)
ZeroConfig == [readable |-> TRUE, host |-> "", port |-> 0, interval |-> 0, capacity |-> 0,
               modules |-> {}, mounts |-> << >>, cors |-> FALSE, origins |-> << >>,
               limit |-> FALSE, rps |-> 0, burst |-> 0, exempt |-> {}]

MaxPort == 65535

-----------------------------------------------------------------------------
applyDefaults(c) == [c EXCEPT
    !.host = IF @ = "" THEN Loopback ELSE @,
    !.interval = IF @ = 0 THEN 1000 ELSE @,
    !.capacity = IF @ <= 0 THEN 60 ELSE @,
    !.rps = IF @ = 0 THEN 10 ELSE @,
    !.burst = IF @ = 0 THEN 20 ELSE @,
    !.exempt = IF @ = {} THEN {"/health"} ELSE @]

(* Every mount has a path and an alias, and no path is listed twice. *)
MountsValid(mounts) ==
    /\ \A i \in 1 .. Len(mounts) : mounts[i].path # "" /\ mounts[i].alias # ""
    /\ \A i, j \in 1 .. Len(mounts) : mounts[i].path = mounts[j].path => i = j

SecurityValid(c) ==
    /\ c.cors => \A i \in 1 .. Len(c.origins) : Parse(c.origins[i]).ok
    /\ c.limit => c.rps > 0 /\ c.burst > 0

(* Mutant of Validate: the burst is not checked. *)
ValidateNoBurst(c) ==
    /\ c.host # "" /\ c.port \in 1 .. MaxPort /\ c.interval >= 100 /\ c.capacity >= 1
    /\ "storage" \in c.modules => MountsValid(c.mounts)
    /\ SecurityValid([c EXCEPT !.burst = 1])

Validate(c) ==
    /\ c.host # ""
    /\ c.port \in 1 .. MaxPort
    /\ c.interval >= 100
    /\ c.capacity >= 1
    /\ "storage" \in c.modules => MountsValid(c.mounts)
    /\ SecurityValid(c)

(* Load returns the configuration to use, or its zero value with an error. *)
Load(raw) ==
    IF raw.readable /\ Validate(applyDefaults(raw)) THEN applyDefaults(raw) ELSE Unreadable

-----------------------------------------------------------------------------
(* What the rest of the program makes of a configuration. *)

(* metrics.NewBase makes a ring buffer of the capacity for every module. *)
RingBufferPanics(c) == c.modules # {} /\ c.capacity <= 0

(* RunLoop makes a ticker of the interval in every sampling goroutine. *)
TickerPanics(c) == c.interval <= 0

(* The listeners of two configurations exclude each other: one port, and    *)
(* one address or a wildcard.                                               *)
SameAddr(c, d) ==
    /\ c.port = d.port
    /\ c.host = d.host \/ {c.host, d.host} \cap {"0.0.0.0", "::"} # {}

(* middleware.RateLimit is a no-op unless all three hold. *)
LimiterActive(c) == c.limit /\ c.rps > 0 /\ c.burst > 0
=============================================================================
