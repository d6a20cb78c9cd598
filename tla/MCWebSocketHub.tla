---------------------------- MODULE MCWebSocketHub ----------------------------
(* Finite instances of WebSocketHub for TLC.                               *)
(* No symmetry: the hub's safety is checked together with its liveness.    *)
EXTENDS WebSocketHub, TLC
=============================================================================
