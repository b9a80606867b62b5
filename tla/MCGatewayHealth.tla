---------------------------- MODULE MCGatewayHealth ----------------------------
(* Small instances of GatewayHealth: one for server mode, one for client mode. *)
EXTENDS GatewayHealth
================================================================================
