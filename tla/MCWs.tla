-------------------------------- MODULE MCWs --------------------------------
(* Small instances of WsConnection for TLC. *)
EXTENDS WsConnection
=============================================================================
