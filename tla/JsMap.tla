-------------------------------- MODULE JsMap --------------------------------
(***************************************************************************)
(* A JavaScript Map as a function on its keys. The order of its entries is *)
(* left out: no property depends on it.                                    *)
(***************************************************************************)
EXTENDS Functions

Empty == [k \in {} |-> k]

\* m.set(k, v)
Put(m, k, v) == [x \in DOMAIN m \cup {k} |-> IF x = k THEN v ELSE m[x]]

\* m.delete(k)
Drop(m, k) == Restrict(m, DOMAIN m \ {k})
==============================================================================
