----------------------------- MODULE MCWsEndpoint -----------------------------
(* Small instances of WsEndpoint for TLC. *)
EXTENDS WsEndpoint
=============================================================================
