--------------------------- MODULE MCServiceSocket ---------------------------
(* One socket of any service.                                                 *)
EXTENDS ServiceTable, ServiceSocket

CONSTANTS c1, c2
==============================================================================
