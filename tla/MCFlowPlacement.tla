--------------------------- MODULE MCFlowPlacement ---------------------------
EXTENDS FlowPlacement

CONSTANTS w1, w2, o1, o2, o3

(* One worker takes any number of flows, the other three. *)
OneSmall == [w \in Worker |-> IF w = w1 THEN 0 ELSE 3]

(* A light, a middle and a heavy org. *)
Unequal == [o \in Org |-> IF o = o1 THEN 1 ELSE IF o = o2 THEN 2 ELSE 3]
=============================================================================
