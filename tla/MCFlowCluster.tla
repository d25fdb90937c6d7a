---------------------------- MODULE MCFlowCluster ----------------------------
(* Model-checking instances of FlowCluster. *)
EXTENDS FlowCluster, TLC

CONSTANTS a, b, n1, n2, empty, c1

(* Two workers, one incarnation each. *)
TwoWorkers == n1 :> a @@ n2 :> b

(* One worker. *)
OneNode == n1 :> a

(* One worker id, registered twice. *)
OneWorker == n1 :> a @@ n2 :> a
=============================================================================
