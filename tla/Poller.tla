------------------------------- MODULE Poller -------------------------------
(***************************************************************************)
(* The web view's poller.js: panels of a page that ask for the same thing   *)
(* share one poller, which fetches /metrics over and over and /profile      *)
(* until it has it.  JavaScript runs one callback at a time to its next     *)
(* await, so each action here is what runs between two awaits.              *)
(*                                                                         *)
(* The document the server answers with is a version number, 0 is null.  A  *)
(* timer fires some time; how long it is set for is left out.               *)
(***************************************************************************)
EXTENDS Integers

CONSTANTS
    Keys,           \* what can be asked for: api, refresh and query
    Panels,         \* subscribers
    KeyOf,          \* KeyOf[s]: what panel s asks for
    Throwing,       \* the panels whose callback throws
    MaxVersion      \* bound: the document changes this often

ASSUME PollerAssumption ==
    /\ KeyOf \in [Panels -> Keys] /\ Throwing \subseteq Panels /\ MaxVersion \in Nat \ {0}

VARIABLES
    server,         \* "up": every request is answered, in time; "stalled": none; "flaky"
    version,        \* the server's document
    poller,         \* poller[k]: the poller of key k
    callbacks,      \* callbacks[k]: the panels that are subscribed to it
    shown           \* shown[s]: the state panel s was last called with

vars == << server, version, poller, callbacks, shown >>

(* at and profileAt: the await tick and loadProfile have reached; timers:   *)
(* pending timeouts for them.                                               *)
NoPoller == [exists |-> FALSE, at |-> "rest", body |-> 0, timers |-> 0, lastData |-> 0, lastError |-> FALSE,
             profileAt |-> "rest", profileTimers |-> 0, profile |-> FALSE, profileError |-> FALSE]

currentState(q) == [data |-> q.lastData, error |-> q.lastError,
                    profile |-> q.profile, profileError |-> q.profileError]
Blank == currentState(NoPoller)

Init ==
    /\ server \in {"up", "flaky", "stalled"} /\ version = 1
    /\ poller = [k \in Keys |-> NoPoller]
    /\ callbacks = [k \in Keys |-> {}]
    /\ shown = [s \in Panels |-> Blank]

HasResult(q) == q.lastData # 0 \/ q.lastError

(* safeCall for each of the panels: one that throws is left as it is. *)
broadcast(q, panels) ==
    shown' = [s \in Panels |-> IF s \in panels \ Throwing THEN currentState(q) ELSE shown[s]]

Update(k, q) == poller' = [poller EXCEPT ![k] = q] /\ UNCHANGED << server, version, callbacks >>

-----------------------------------------------------------------------------
(* The server *)

ServerTurns(how) ==
    /\ server # how
    /\ server' = how
    /\ UNCHANGED << version, poller, callbacks, shown >>

Change ==
    /\ version < MaxVersion
    /\ version' = version + 1
    /\ UNCHANGED << server, poller, callbacks, shown >>

-----------------------------------------------------------------------------
(* tick and loadProfile up to their first await; neither is entered twice.  *)
tick(q) == IF q.at = "rest" THEN [q EXCEPT !.at = "fetch"] ELSE q
loadProfile(q) == IF q.profile \/ q.profileAt # "rest" THEN q ELSE [q EXCEPT !.profileAt = "fetch"]
createPoller == loadProfile(tick([NoPoller EXCEPT !.exists = TRUE]))

(* Mutants: each new panel has the metrics fetched at once; it is not shown *)
(* what there is; a failed attempt is the last.                             *)

subscribeRefreshes(s) ==
    LET k == KeyOf[s]  q == IF poller[k].exists THEN tick(poller[k]) ELSE createPoller
    IN  /\ s \notin callbacks[k]
        /\ poller' = [poller EXCEPT ![k] = q]
        /\ callbacks' = [callbacks EXCEPT ![k] = @ \cup {s}]
        /\ IF HasResult(q) THEN broadcast(q, {s}) ELSE UNCHANGED shown
        /\ UNCHANGED << server, version >>

subscribeWaits(s) ==
    LET k == KeyOf[s]
    IN  /\ s \notin callbacks[k]
        /\ poller' = [poller EXCEPT ![k] = IF @.exists THEN @ ELSE createPoller]
        /\ callbacks' = [callbacks EXCEPT ![k] = @ \cup {s}]
        /\ UNCHANGED << server, version, shown >>

TickFailsForGood(k) ==
    /\ poller[k].at \in {"fetch", "body"} /\ server # "up"
    /\ LET q == [poller[k] EXCEPT !.at = "rest", !.lastError = TRUE]
       IN  Update(k, q) /\ broadcast(q, callbacks[k])

-----------------------------------------------------------------------------
(* The first panel of a key creates its poller, which starts both loops; a  *)
(* later one is shown the most recent result.                               *)
subscribe(s) ==
    LET k == KeyOf[s]
        q == IF poller[k].exists THEN poller[k] ELSE createPoller
    IN  /\ s \notin callbacks[k]
        /\ poller' = [poller EXCEPT ![k] = q]
        /\ callbacks' = [callbacks EXCEPT ![k] = @ \cup {s}]
        /\ IF HasResult(q) THEN broadcast(q, {s}) ELSE UNCHANGED shown
        /\ UNCHANGED << server, version >>

unsubscribe(s) ==
    /\ s \in callbacks[KeyOf[s]]
    /\ callbacks' = [callbacks EXCEPT ![KeyOf[s]] = @ \ {s}]
    /\ shown' = [shown EXCEPT ![s] = Blank]
    /\ UNCHANGED << server, version, poller >>

(* A timeout fires. *)
TickTimer(k) ==
    /\ poller[k].timers > 0
    /\ Update(k, tick([poller[k] EXCEPT !.timers = @ - 1]))
    /\ UNCHANGED shown

ProfileTimer(k) ==
    /\ poller[k].profileTimers > 0
    /\ Update(k, loadProfile([poller[k] EXCEPT !.profileTimers = @ - 1]))
    /\ UNCHANGED shown

(* fetch: the head of an answer with an ok status is there ... *)
TickHead(k) ==
    /\ poller[k].at = "fetch" /\ server # "stalled"
    /\ Update(k, [poller[k] EXCEPT !.at = "body", !.body = version])
    /\ UNCHANGED shown

scheduleNext(q) == [q EXCEPT !.at = "rest", !.body = 0, !.timers = @ + 1]

(* ... and res.json has read its body. *)
TickSucceeds(k) ==
    /\ poller[k].at = "body" /\ server # "stalled"
    /\ LET q == scheduleNext([poller[k] EXCEPT !.lastData = poller[k].body, !.lastError = FALSE])
       IN  Update(k, q) /\ broadcast(q, callbacks[k])

(* The connection fails, the status or the body is bad, or the abort timer  *)
(* fires first.                                                             *)
TickFails(k) ==
    /\ poller[k].at \in {"fetch", "body"} /\ server # "up"
    /\ LET q == scheduleNext([poller[k] EXCEPT !.lastError = TRUE])
       IN  Update(k, q) /\ broadcast(q, callbacks[k])

ProfileHead(k) ==
    /\ poller[k].profileAt = "fetch" /\ server # "stalled"
    /\ Update(k, [poller[k] EXCEPT !.profileAt = "body"])
    /\ UNCHANGED shown

(* The end of loadProfile: it is tried again until there is a profile. *)
ProfileEnds(k, loaded) ==
    /\ poller[k].profileAt \in (IF loaded THEN {"body"} ELSE {"fetch", "body"})
    /\ server # (IF loaded THEN "stalled" ELSE "up")
    /\ LET q == [poller[k] EXCEPT !.profileAt = "rest", !.profile = loaded, !.profileError = ~ loaded,
                                  !.profileTimers = IF loaded THEN @ ELSE @ + 1]
       IN  /\ Update(k, q)
           /\ IF HasResult(q) THEN broadcast(q, callbacks[k]) ELSE UNCHANGED shown

-----------------------------------------------------------------------------
Tick(k) == TickTimer(k) \/ TickHead(k) \/ TickSucceeds(k) \/ TickFails(k)
Profile(k) == ProfileTimer(k) \/ ProfileHead(k) \/ \E loaded \in BOOLEAN : ProfileEnds(k, loaded)

Next ==
    \/ \E how \in {"up", "flaky", "stalled"} : ServerTurns(how)
    \/ Change
    \/ \E s \in Panels : subscribe(s) \/ unsubscribe(s)
    \/ \E k \in Keys : Tick(k) \/ Profile(k)

(* Timeouts fire, and a request is answered, fails or is aborted in the     *)
(* end; nothing is assumed of the server.                                   *)
Spec ==
    /\ Init /\ [][Next]_vars
    /\ \A k \in Keys : WF_vars(Tick(k)) /\ WF_vars(Profile(k))

-----------------------------------------------------------------------------
(* Properties *)

(* "Multiple panels ... share a single fetch" (poller.js:1-4): a key has    *)
(* one request for the metrics or one timer for the next, never both, two   *)
(* or none, however panels come and go; and the same for the profile until  *)
(* it is there.                                                             *)
OneChain ==
    \A k \in Keys : poller[k].exists =>
        /\ (poller[k].timers = 1) # (poller[k].at # "rest") /\ poller[k].timers <= 1
        /\ poller[k].profileTimers <= 1
        /\ IF poller[k].profile
             THEN poller[k].profileTimers = 0 /\ poller[k].profileAt = "rest"
             ELSE (poller[k].profileTimers = 1) # (poller[k].profileAt # "rest")

(* From the first result on every subscribed panel shows what its poller    *)
(* has: late subscribers, panels beside one that throws, and panels whose   *)
(* profile comes long after their data included.                            *)
PanelsAreCurrent ==
    \A s \in Panels \ Throwing : LET q == poller[KeyOf[s]] IN
        (s \in callbacks[KeyOf[s]] /\ HasResult(q)) => shown[s] = currentState(q)

(* A page opened while the monitor is starting, hanging or failing (see     *)
(* poller.js:148-152) comes right by itself once the monitor has: with a    *)
(* server that stays up the error goes away, and data and profile are there. *)
PageRecovers ==
    \A k \in Keys :
        (<>[](server = "up") /\ <>(poller[k].exists))
            => <>[](~ poller[k].lastError /\ poller[k].lastData # 0 /\ poller[k].profile)
=============================================================================
