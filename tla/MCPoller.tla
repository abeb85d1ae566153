------------------------------ MODULE MCPoller ------------------------------
(***************************************************************************)
(* Poller with three panels that share a poller, one of which throws.       *)
(* Pollers of different keys share nothing but the server.                  *)
(***************************************************************************)
EXTENDS Poller

MCKeyOf == [s \in Panels |-> "latest"]
=============================================================================
