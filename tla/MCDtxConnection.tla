--------------------------- MODULE MCDtxConnection ---------------------------
(* Two channels opened at once, an invoke with or without a reply, and an    *)
(* event on the first channel that carries the identifier of the invoke. Its *)
(* fragments and those of the reply come in every order: of three each, so   *)
(* that a body can take another's place and leave a hole.                    *)
EXTENDS DtxConnection, TLC

CONSTANTS o1, o2, i1, e1

MCEvId == e1 :> 3
MCEvCode == e1 :> 1
MCOutFrags == (o1 :> 1) @@ (o2 :> 1) @@ (i1 :> 2)
MCInFrags == (o1 :> 1) @@ (o2 :> 1) @@ (i1 :> 3) @@ (e1 :> 3)
==============================================================================
