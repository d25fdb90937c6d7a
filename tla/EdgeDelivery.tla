---------------------------- MODULE EdgeDelivery ----------------------------
(***************************************************************************)
(* What the uplink of an edge agent promises its local producers: a point  *)
(* that was committed stays in the custody of the agent until the server   *)
(* has it, or until it is among the oldest and the bounds of the queue     *)
(* push it out.                                                            *)
(***************************************************************************)
EXTENDS Naturals

VARIABLES
  next,      \* number of the next point
  held,      \* points in the custody of the agent
  delivered, \* points the server has, once or more often
  discarded  \* points given up

vars == <<next, held, delivered, discarded>>

Init == next = 1 /\ held = {} /\ delivered = {} /\ discarded = {}

Commit ==
  /\ next' = next + 1
  /\ held' = held \cup {next}
  /\ UNCHANGED <<delivered, discarded>>

(* Also again, and also after the agent has given the points up. *)
Deliver ==
  /\ \E S \in SUBSET (1 .. next - 1) : delivered' = delivered \cup S
  /\ UNCHANGED <<next, held, discarded>>

Release ==
  /\ \E S \in SUBSET (held \cap delivered) : held' = held \ S
  /\ UNCHANGED <<next, delivered, discarded>>

Discard ==
  /\ \E S \in SUBSET held :
       /\ \A s \in S, r \in held \ S : s < r
       /\ held' = held \ S
       /\ discarded' = discarded \cup S
  /\ UNCHANGED <<next, delivered>>

Next == Commit \/ Deliver \/ Release \/ Discard

Spec == Init /\ [][Next]_vars

(* No point is ever lost without a trace. *)
Accounted == 1 .. next - 1 = held \cup delivered \cup discarded
=============================================================================
