------------------------------ MODULE MCWsHub ------------------------------
(* Small instances of WsHub. *)
EXTENDS WsHub
CONSTANTS c1, c2
MCClients == {c1, c2}
=============================================================================
