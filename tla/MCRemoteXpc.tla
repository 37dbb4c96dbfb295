---------------------------- MODULE MCRemoteXpc ----------------------------
(* One discovery connection; two calls on it or one service started by it.   *)
EXTENDS RemoteServiceDiscovery

CONSTANTS c1, c2
==============================================================================
