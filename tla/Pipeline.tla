------------------------------ MODULE Pipeline ------------------------------
(***************************************************************************)
(* internal/server/server.go: the chain every request goes through,         *)
(* recovery, request id, access log, CORS, rate limiter and mux, with       *)
(* requests served concurrently and handlers that may panic.  The limiter   *)
(* is RateLimiter's, step by step; the other layers only have state of the  *)
(* request they are serving, so each is a step of that request.             *)
(***************************************************************************)
EXTENDS RateLimiter, Cors

CONSTANTS
    Setups,         \* the security settings the chain may be built with
    Requests,       \* what clients send
    NoAddr          \* a request without X-Forwarded-For

(* Clients have addresses, and the configuration's validation has parsed    *)
(* every origin of a chain with CORS (config.go:200-205).                   *)
ASSUME PipelineAssumption ==
    /\ \A q \in Requests : /\ q.remote \in Addrs /\ q.xff \in Addrs \cup {NoAddr}
                           /\ q.origin \in Origins
    /\ Requests # {}
    /\ \A s \in Setups : /\ s.cors \in BOOLEAN
                         /\ s.cors => /\ s.allowed \in Seq(Origins)
                                      /\ \A i \in 1 .. Len(s.allowed) : Parse(s.allowed[i]).ok

VARIABLES
    setup,          \* the settings, fixed when the chain is built
    stage,          \* stage[r]: the layer request r has reached
    req,            \* req[r]: the request
    resp            \* resp[r]: what has been written and logged for it

chain == << stage, req, resp >>
vars == << lvars, setup, chain >>

(* code: the status on the wire, 0 before; allow: the CORS headers are set; *)
(* id: X-Request-Id; log, logId: the access log's line, if there is one.    *)
NoResp == [code |-> 0, allow |-> FALSE, retry |-> 0, id |-> "none",
           log |-> 0, logId |-> "none", panicked |-> FALSE]
NoReq == CHOOSE q \in Requests : TRUE

Init ==
    /\ LimiterInit
    /\ setup \in Setups
    /\ stage = [r \in Reqs |-> "idle"]
    /\ req = [r \in Reqs |-> NoReq]
    /\ resp = [r \in Reqs |-> NoResp]

Go(r, next) == stage' = [stage EXCEPT ![r] = next]

(* WriteHeader: the first status is the one that is sent. *)
WriteHeader(w, code) == IF w.code = 0 THEN [w EXCEPT !.code = code] ELSE w

(* The inner handlers have returned: the access log writes its line. *)
AccessLog(w) == [w EXCEPT !.log = w.code, !.logId = w.id]

(* A response is complete. *)
Respond(r, w) == Go(r, "done") /\ resp' = [resp EXCEPT ![r] = AccessLog(w)]

-----------------------------------------------------------------------------
(* Recovery, RequestID and AccessLog are entered; an id that is not valid   *)
(* is replaced by a fresh one.                                              *)
Accept(r, q) ==
    /\ stage[r] = "idle"
    /\ Go(r, "cors")
    /\ req' = [req EXCEPT ![r] = q]
    /\ resp' = [resp EXCEPT ![r] = [NoResp EXCEPT !.id = IF q.idValid THEN "client" ELSE "fresh"]]
    /\ UNCHANGED << lvars, setup >>

Matched(o) == \E p \in Patterns(setup.allowed) : Match(p, o)

(* Mutant of Cors: a preflight gets its headers and goes on to the mux. *)
CorsForwards(r) ==
    /\ stage[r] = "cors"
    /\ Go(r, "limit")
    /\ resp' = [resp EXCEPT ![r].allow = setup.cors /\ Matched(req[r].origin)]
    /\ UNCHANGED << lvars, setup, req >>

(* cors.Middleware *)
Cors(r) ==
    /\ stage[r] = "cors"
    /\ LET o == req[r].origin
           preflight == req[r].method = "OPTIONS"
           headers == [resp[r] EXCEPT !.allow = TRUE]
       IN  IF ~ CorsActive(setup.cors, setup.allowed) \/ o = NoOrigin
             THEN Go(r, "limit") /\ UNCHANGED resp
             ELSE IF Matched(o)
             THEN IF preflight THEN Respond(r, WriteHeader(headers, 204))
                               ELSE Go(r, "limit") /\ resp' = [resp EXCEPT ![r] = headers]
             ELSE IF preflight THEN Respond(r, WriteHeader(resp[r], 403))
                               ELSE Go(r, "limit") /\ UNCHANGED resp
    /\ UNCHANGED << lvars, setup, req >>

(* Mutant of clientIP: the header is believed whatever the setting. *)
clientIPTrusting(q) == IF q.xff # NoAddr THEN q.xff ELSE q.remote

(* The first entry of X-Forwarded-For when proxies are trusted and it is    *)
(* not blank, otherwise the peer.                                           *)
clientIP(q) == IF setup.trust /\ q.xff # NoAddr THEN q.xff ELSE q.remote

Exempt(q) == q.path \in setup.exempt

(* RateLimit is entered, or is a no-op, or lets an exempt path by. *)
EnterLimiter(r) ==
    /\ stage[r] = "limit"
    /\ IF setup.limit /\ ~ Exempt(req[r])
         THEN Arrive(r, clientIP(req[r])) /\ Go(r, "wait")
         ELSE Go(r, "handler") /\ UNCHANGED lvars
    /\ UNCHANGED << setup, req, resp >>

LimiterStep(r) == Step(r) /\ UNCHANGED << setup, chain >>

Pass(r) ==
    /\ at[r] = "granted" /\ Finish(r)
    /\ Go(r, "handler")
    /\ UNCHANGED << setup, req, resp >>

Deny(r) ==
    /\ at[r] = "denied" /\ Finish(r)
    /\ Respond(r, WriteHeader([resp[r] EXCEPT !.retry = retry[r]], 429))
    /\ UNCHANGED << setup, req >>

(* The mux: the routes are GET routes. *)
Handle(r) ==
    /\ stage[r] = "handler"
    /\ Respond(r, WriteHeader(resp[r], IF req[r].method = "GET" THEN 200 ELSE 405))
    /\ UNCHANGED << lvars, setup, req >>

(* Mutant of HandlerPanics: Recovery logs and writes nothing. *)
HandlerPanicsSilently(r, written) ==
    /\ stage[r] = "handler" /\ req[r].method = "GET"
    /\ resp' = [resp EXCEPT ![r] =
          [(IF written THEN WriteHeader(resp[r], 200) ELSE resp[r]) EXCEPT !.panicked = TRUE]]
    /\ Go(r, "done")
    /\ UNCHANGED << lvars, setup, req >>

(* A handler panics, before or after its status is on the wire.  The panic  *)
(* unwinds past the access log, which has not deferred its line, and        *)
(* Recovery writes a 500.                                                   *)
HandlerPanics(r, written) ==
    /\ stage[r] = "handler" /\ req[r].method = "GET"
    /\ LET w == IF written THEN WriteHeader(resp[r], 200) ELSE resp[r]
       IN  resp' = [resp EXCEPT ![r] = [WriteHeader(w, 500) EXCEPT !.panicked = TRUE]]
    /\ Go(r, "done")
    /\ UNCHANGED << lvars, setup, req >>

(* The client has its answer. *)
Hangup(r) ==
    /\ stage[r] = "done"
    /\ Go(r, "idle")
    /\ req' = [req EXCEPT ![r] = NoReq] /\ resp' = [resp EXCEPT ![r] = NoResp]
    /\ UNCHANGED << lvars, setup >>

-----------------------------------------------------------------------------
Serve(r) ==
    \/ Cors(r) \/ EnterLimiter(r) \/ LimiterStep(r) \/ Pass(r) \/ Deny(r) \/ Handle(r)
    \/ \E written \in BOOLEAN : HandlerPanics(r, written)

Next ==
    \/ (Advance \/ Sweep) /\ UNCHANGED << setup, chain >>
    \/ \E r \in Reqs : (\E q \in Requests : Accept(r, q)) \/ Serve(r) \/ Hangup(r)

Spec == Init /\ [][Next]_vars

-----------------------------------------------------------------------------
(* Properties *)

(* "preflight OPTIONS requests are short-circuited at CORS and never reach  *)
(* the token bucket" (server.go:28-30): with CORS in force a preflight is   *)
(* answered 204 or 403, and never counted, delayed or denied.               *)
PreflightNeverCharged ==
    \A r \in Reqs :
        (CorsActive(setup.cors, setup.allowed) /\ req[r].method = "OPTIONS" /\ req[r].origin # NoOrigin)
            => /\ stage[r] # "wait"
               /\ stage[r] = "done" => resp[r].code = (IF resp[r].allow THEN 204 ELSE 403)

(* The CORS headers are on exactly the answers to origins the documented    *)
(* grammar admits, whichever layer wrote the answer: a 429 of the limiter   *)
(* or the 500 after a panic has them too, or the page could not read it.    *)
CorsHeadersExact ==
    \A r \in Reqs : stage[r] = "done" =>
        (resp[r].allow <=>
            /\ setup.cors /\ req[r].origin # NoOrigin
            /\ \E i \in 1 .. Len(setup.allowed) : Admits(setup.allowed[i], req[r].origin))

(* Every request is answered, also when its handler panics; its access-log  *)
(* line can be missing only if the handler panicked (the line is not        *)
(* deferred, chain.go:153-154); and what the line says, the status and the  *)
(* id, is what the client got (chain.go:146-168).                           *)
LogMatchesAnswer ==
    \A r \in Reqs : stage[r] = "done" =>
        /\ resp[r].code # 0
        /\ ~ resp[r].panicked => resp[r].log # 0
        /\ resp[r].log # 0 => resp[r].log = resp[r].code /\ resp[r].logId = resp[r].id

(* Without trusted proxies a client is its peer address: one peer cannot    *)
(* get more through than its address is allowed (GrantsWithinRate),         *)
(* whatever headers it sends.                                               *)
OnePeerOneBucket ==
    (~ setup.trust /\ \A q \in Requests, s \in Requests : q.remote = s.remote)
        => \A q \in Requests : \A a \in Addrs :
              /\ Cost * granted[q.remote] <= Full * Bursts(q.remote) + now
              /\ a # q.remote => granted[a] = 0
=============================================================================
