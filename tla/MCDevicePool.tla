----------------------------- MODULE MCDevicePool -----------------------------
(* One device with a cable and a network transport (or plugged in twice),    *)
(* another with one; the first also answers Bonjour.                         *)
EXTENDS DevicePool, TLC

CONSTANTS d1, d2, d3, s1, s2

MCSerialOf == (d1 :> s1) @@ (d2 :> s1) @@ (d3 :> s2)
==============================================================================
