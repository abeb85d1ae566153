-------------------------------- MODULE Cors --------------------------------
(***************************************************************************)
(* internal/cors: the grammar of allowed_origins, which the configuration   *)
(* and the middleware share, and the match of a request's Origin header.    *)
(*                                                                         *)
(* An origin or pattern is its scheme, whether userinfo comes before the    *)
(* host, and the host split at its dots; the empty host is << "" >>.  Text  *)
(* without a scheme ("", "*", "null") has the scheme "none".                *)
(***************************************************************************)
EXTENDS Integers, Sequences

Origin(scheme, host) == [scheme |-> scheme, user |-> FALSE, host |-> host]

Origins == [scheme : STRING, user : BOOLEAN, host : Seq(STRING) \ {<< >>}]

(* A request without the header. *)
NoOrigin == Origin("none", << "" >>)

(* The labels that hold a '*'; the only one that is a wildcard is "*". *)
Starred == {"*", "a*"}

-----------------------------------------------------------------------------
(* Mutants *)

(* A suffix comparison: any number of labels may come before the host. *)
MatchSuffix(p, o) ==
    /\ o.scheme = p.scheme /\ ~ o.user
    /\ IF p.wildcard
         THEN \E n \in 1 .. Len(o.host) - 1 : SubSeq(o.host, n + 1, Len(o.host)) = p.host
         ELSE o.host = p.host

-----------------------------------------------------------------------------
Parse(s) ==
    LET wildcard == Len(s.host) > 1 /\ s.host[1] = "*"
        host == IF wildcard THEN Tail(s.host) ELSE s.host
    IN  [ok |-> /\ s.scheme \in {"http", "https"}
                /\ ~ s.user
                /\ host # << "" >>
                /\ wildcard => Len(host) > 1
                /\ \A i \in 1 .. Len(host) : host[i] \notin Starred,
         scheme |-> s.scheme, host |-> host, wildcard |-> wildcard]

(* Pattern.Match *)
Match(p, o) ==
    /\ o.scheme = p.scheme
    /\ ~ o.user
    /\ IF p.wildcard
         THEN /\ Len(o.host) > 1
              /\ o.host[1] \notin Starred \cup {""}
              /\ Tail(o.host) = p.host
         ELSE o.host = p.host

(* The patterns Middleware keeps: an entry that does not parse is skipped. *)
Patterns(allowed) == {Parse(allowed[i]) : i \in {i \in 1 .. Len(allowed) : Parse(allowed[i]).ok}}

(* Middleware is a no-op when disabled or left without patterns. *)
CorsActive(enabled, allowed) == enabled /\ Patterns(allowed) # {}

-----------------------------------------------------------------------------
(* The grammar as documented (origin.go:13-19, 94-96): a literal text       *)
(* admits itself, one with a leading '*' the hosts that have one plain      *)
(* label in its place.                                                      *)
Admits(s, o) ==
    /\ ~ o.user
    /\ IF s.host[1] = "*"
         THEN /\ o.host[1] \notin Starred \cup {""}
              /\ o = [s EXCEPT !.host[1] = o.host[1]]
         ELSE o = s
=============================================================================
