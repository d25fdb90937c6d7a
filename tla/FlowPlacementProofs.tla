------------------------- MODULE FlowPlacementProofs -------------------------
(***************************************************************************)
(* Theorems of FlowPlacement: type correctness, that the plan of a round   *)
(* is coherent and that rebalancing brings the workers no further apart,   *)
(* for every set of orgs and workers and all limits;                       *)
(* and of RowLease, the lease under which the controller runs its rounds:  *)
(* it is exclusive for every set of processes and every duration.          *)
(***************************************************************************)
EXTENDS FlowPlacement, RowLease, FiniteSetTheorems, WellFoundedInduction, TLAPS

(* What the survey has done so far: only placed orgs are released, and no  *)
(* org counts for a worker it is not placed on.                            *)
SurveyInv ==
  pc = "survey" =>
    /\ todo \subseteq Placed
    /\ \A o \in Org : owned[o] \in {NoWorker, origin[o]}
    /\ \A c \in changes : c.kind = "release" /\ c.org \in Placed

(* An org waiting for its place has none and no change; any other has a    *)
(* change unless the plan counts it where it was.                          *)
PlanningInv ==
  pc \in {"survey", "failover"} =>
    /\ pc = "failover" => todo = {}
    /\ todo \cap orphans = {}
    /\ \A o \in todo \cup orphans : owned[o] = NoWorker /\ \A c \in changes : c.org # o
    /\ \A o \in Org \ (todo \cup orphans) : owned[o] # origin[o] => \E c \in changes : c.org = o

ChangesInv ==
  /\ pc \in {"sleep", "placements", "weights"} => changes = {}
  /\ \A c, d \in changes : c.org = d.org => c = d
  /\ \A c \in changes :
       /\ c.from = origin[c.org] /\ c.to = owned[c.org]
       /\ c.kind = "release" <=> c.to = NoWorker
       /\ c.kind = "release" => known /\ count[c.org] = 0

PlanInv == ChangesInv /\ PlanningInv /\ SurveyInv

-----------------------------------------------------------------------------
(* The records of a plan. *)
LEMMA ReleasedType ==
  ASSUME TypeOK, NEW o \in Org
  PROVE  /\ Released(o) \in Change
         /\ Released(o).org = o /\ Released(o).from = origin[o]
         /\ Released(o).to = NoWorker /\ Released(o).kind = "release"
BY SMTT(30) DEF TypeOK, Released, Change, Place

LEMMA AssignedType ==
  ASSUME NEW o \in Org, NEW w \in Worker
  PROVE  /\ Assigned(o, w) \in Change
         /\ Assigned(o, w).org = o /\ Assigned(o, w).from = NoWorker
         /\ Assigned(o, w).to = w /\ Assigned(o, w).kind # "release"
BY SMTT(30) DEF Assigned, Change

LEMMA MovedType ==
  ASSUME NEW o \in Org, NEW v \in Worker \cup {NoWorker}, NEW w \in Worker
  PROVE  /\ Moved(o, v, w) \in Change
         /\ Moved(o, v, w).org = o /\ Moved(o, v, w).from = v
         /\ Moved(o, v, w).to = w /\ Moved(o, v, w).kind # "release"
BY SMTT(30) DEF Moved, Change

LEMMA WeightType ==
  ASSUME TypeOK, NEW o \in Org
  PROVE  Weight(o) \in Nat
<1>1. count[o] \in Nat
  BY BoundAssumption DEF TypeOK, Weights
<1> QED BY <1>1 DEF Weight

LEMMA GiveType ==
  ASSUME TypeOK, NEW o \in Org, NEW w \in Worker, Give(o, w)
  PROVE  load' \in [Worker -> Nat] /\ owned' \in Place
<1>1. load[w] + Weight(o) \in Nat
  BY WeightType DEF TypeOK
<1> QED BY <1>1 DEF Give, TypeOK, Place

LEMMA TypeInit == Init => TypeOK
<1> SUFFICES ASSUME Init PROVE TypeOK
  OBVIOUS
<1>1. NoPlace \in Place /\ NoLoad \in [Worker -> Nat]
  BY DEF NoPlace, NoLoad, Place
<1>2. NoCount \in Weights
  <2>1. ASSUME NEW o \in Org PROVE 0 <= MaxWeight[o] /\ 0 \in 0 .. MaxWeight[o]
    BY BoundAssumption
  <2> QED BY <2>1 DEF NoCount, Weights
<1>3. MaxStale \in 0 .. MaxStale /\ 0 \in 0 .. MaxMoves /\ 0 \in 0 .. MaxChurn
  BY BoundAssumption, LimitAssumption
<1> QED BY <1>1, <1>2, <1>3 DEF Init, TypeOK

LEMMA TypeReset == TypeOK /\ Reset => 
  /\ pc' = "sleep" /\ views' \subseteq Worker /\ origin' \in Place /\ kept' \subseteq Org /\ known' \in BOOLEAN
  /\ count' \in Weights /\ todo' \subseteq Org /\ orphans' \subseteq Org
  /\ load' \in [Worker -> Nat] /\ owned' \in Place /\ moves' \in 0 .. MaxMoves
  /\ changes' = {} /\ checked' = {}
<1> SUFFICES ASSUME TypeOK, Reset
             PROVE  /\ pc' = "sleep" /\ views' \subseteq Worker /\ origin' \in Place
                    /\ kept' \subseteq Org /\ known' \in BOOLEAN
                    /\ count' \in Weights /\ todo' \subseteq Org /\ orphans' \subseteq Org
                    /\ load' \in [Worker -> Nat] /\ owned' \in Place /\ moves' \in 0 .. MaxMoves
                    /\ changes' = {} /\ checked' = {}
  OBVIOUS
<1>1. NoPlace \in Place /\ NoLoad \in [Worker -> Nat]
  BY DEF NoPlace, NoLoad, Place
<1>2. NoCount \in Weights
  <2>1. ASSUME NEW o \in Org PROVE 0 <= MaxWeight[o] /\ 0 \in 0 .. MaxWeight[o]
    BY BoundAssumption
  <2> QED BY <2>1 DEF NoCount, Weights
<1>3. 0 \in 0 .. MaxMoves
  BY LimitAssumption
<1> QED BY <1>1, <1>2, <1>3 DEF Reset

LEMMA TypeNext == TypeOK /\ [Next]_vars => TypeOK'
<1> SUFFICES ASSUME TypeOK, [Next]_vars PROVE TypeOK'
  OBVIOUS
<1>a. MaxStale \in Nat /\ MaxMoves \in Nat /\ MaxChurn \in Nat
  BY BoundAssumption, LimitAssumption
<1>b. ASSUME Churn PROVE churn' \in 0 .. MaxChurn
  BY <1>a, <1>b DEF Churn, TypeOK
<1>1. CASE ReadWorkers
  BY <1>1 DEF TypeOK, ReadWorkers, dbVars, planVars
<1>2. CASE ReadPlacements
  BY <1>2 DEF TypeOK, ReadPlacements, dbVars, planVars
<1>3. CASE ReadWeights
  <2>1. count' \in Weights /\ stale' \in 0 .. MaxStale /\ known' \in BOOLEAN /\ pc' = "survey"
    <3>1. CASE known' = TRUE /\ count' = flows /\ stale' = 0
      BY <1>a, <1>3, <3>1 DEF TypeOK, ReadWeights
    <3>2. CASE known' = FALSE /\ count' = NoCount /\ stale < MaxStale /\ stale' = stale + 1
      <4>1. ASSUME NEW o \in Org PROVE 0 <= MaxWeight[o] /\ 0 \in 0 .. MaxWeight[o]
        BY BoundAssumption
      <4>2. NoCount \in Weights
        BY <4>1 DEF NoCount, Weights
      <4>3. stale + 1 \in 0 .. MaxStale
        BY <1>a, <3>2 DEF TypeOK
      <4> QED BY <1>3, <3>2, <4>2, <4>3 DEF ReadWeights
    <3> QED BY <1>3, <3>1, <3>2 DEF ReadWeights
  <2>2. load' \in [Worker -> Nat] /\ owned' \in Place /\ moves' \in 0 .. MaxMoves /\ todo' \subseteq Org
    BY <1>3, <1>a DEF ReadWeights, NoLoad, NoPlace, Place, Placed
  <2>3. changes' \subseteq Change /\ checked' \subseteq Change /\ orphans' \subseteq Org
    BY <1>3 DEF ReadWeights
  <2> QED BY <1>3, <2>1, <2>2, <2>3 DEF TypeOK, ReadWeights, dbVars
<1>4. ASSUME NEW o \in Org, Survey(o) PROVE TypeOK'
  <2>0. o \in Org /\ todo' \subseteq Org
    BY <1>4 DEF Survey, TypeOK
  <2>1. CASE changes' = changes \cup {Released(o)} /\ UNCHANGED <<orphans, load, owned>>
    <3>1. changes' \subseteq Change
      BY <2>1, ReleasedType DEF TypeOK
    <3> QED BY <1>4, <2>0, <2>1, <3>1 DEF TypeOK, Survey, dbVars, readVars
  <2>2. CASE origin[o] \in views /\ Give(o, origin[o]) /\ UNCHANGED <<orphans, changes>>
    <3>1. origin[o] \in Worker
      BY <2>2 DEF TypeOK
    <3>2. load' \in [Worker -> Nat] /\ owned' \in Place
      BY <1>a, <2>2, <3>1, GiveType
    <3> QED BY <1>4, <2>0, <2>2, <3>2 DEF TypeOK, Survey, dbVars, readVars
  <2>3. CASE orphans' = orphans \cup {o} /\ UNCHANGED <<load, owned, changes>>
    BY <1>4, <2>0, <2>3 DEF TypeOK, Survey, dbVars, readVars
  <2> QED BY <1>4, <2>1, <2>2, <2>3 DEF Survey
<1>5. CASE Surveyed
  <2>1. pc' \in {"apply", "failover"} /\ orphans' \subseteq Org
    BY <1>5 DEF TypeOK, Surveyed
  <2> QED BY <1>5, <2>1 DEF TypeOK, Surveyed, dbVars, readVars
<1>6. ASSUME NEW o \in Org, NEW w \in Worker, Failover(o, w) PROVE TypeOK'
  <2>1. load' \in [Worker -> Nat] /\ owned' \in Place
    BY <1>a, <1>6, GiveType DEF Failover
  <2>2. origin[o] \in Worker \cup {NoWorker}
    BY DEF TypeOK, Place
  <2>3. changes' \subseteq Change
    BY <1>6, <2>2, AssignedType, MovedType DEF Failover, TypeOK
  <2> QED BY <1>6, <2>1, <2>3 DEF TypeOK, Failover, dbVars, readVars
<1>7. ASSUME NEW o \in Org, NEW v \in Worker, NEW w \in Worker, Rebalance(o, v, w) PROVE TypeOK'
  <2>1. Weight(o) \in Nat /\ load[v] \in Nat /\ load[w] \in Nat /\ Weight(o) < load[v] - load[w]
    BY <1>a, <1>7, WeightType DEF TypeOK, Rebalance, Movable
  <2>2. v # w
    BY <2>1
  <2>3. load[v] - Weight(o) \in Nat /\ load[w] + Weight(o) \in Nat
    BY <2>1
  <2>4. load' \in [Worker -> Nat] 
    BY <1>7, <2>2, <2>3 DEF TypeOK, Rebalance
  <2>5. owned' \in Place /\ moves' \in 0 .. MaxMoves
    BY <1>a, <1>7 DEF TypeOK, Rebalance, Place
  <2>6. origin[o] \in Worker \cup {NoWorker}
    BY DEF TypeOK, Place
  <2>7. changes' \subseteq Change
    BY <1>7, <2>6, AssignedType, MovedType DEF Rebalance, Redirect, TypeOK
  <2> QED BY <1>7, <2>4, <2>5, <2>7 DEF TypeOK, Rebalance, dbVars, readVars
<1>8. CASE Planned
  BY <1>8 DEF TypeOK, Planned, dbVars, readVars, planVars
<1>9. ASSUME NEW c \in changes, Apply(c) PROVE TypeOK'
  <2>1. c.org \in Org /\ c.to \in Worker \cup {NoWorker}
    BY SMTT(30) DEF TypeOK, Change
  <2>2. place' \in Place /\ young' \subseteq Org
    BY <1>9, <2>1 DEF TypeOK, Apply, Place
  <2> QED BY <1>9, <2>2 DEF TypeOK, Apply, readVars
<1>10. ASSUME NEW c \in changes, Check(c) PROVE TypeOK'
  <2>1. checked' \subseteq Change /\ changes' \subseteq Change
    BY <1>10 DEF TypeOK, Check
  <2> QED BY <1>10, <2>1 DEF TypeOK, Check, dbVars, readVars
<1>11. ASSUME NEW c \in checked, Delete(c) PROVE TypeOK'
  <2>1. c.org \in Org
    BY SMTT(30) DEF TypeOK, Change
  <2>2. place' \in Place /\ young' \subseteq Org
    BY <1>11, <2>1 DEF TypeOK, Delete, Place
  <2> QED BY <1>11, <2>2 DEF TypeOK, Delete, readVars
<1>12. CASE EndRound
  BY <1>12, TypeReset DEF TypeOK, EndRound, dbVars
<1>13. CASE RoundFails
  BY <1>13, <1>b, TypeReset DEF TypeOK, RoundFails, dbVars
<1>14. ASSUME NEW w \in Worker, WorkerTurns(w) PROVE TypeOK'
  <2>1. ready' \subseteq Worker
    BY <1>14 DEF TypeOK, WorkerTurns
  <2> QED BY <1>14, <1>b, <2>1 DEF TypeOK, WorkerTurns, Meanwhile, readVars, planVars
<1>15. ASSUME NEW o \in Org, NEW w \in Worker, EnsureOwner(o, w) PROVE TypeOK'
  <2>1. place' \in Place /\ young' \subseteq Org
    BY <1>15 DEF TypeOK, EnsureOwner, Place
  <2> QED BY <1>15, <1>b, <2>1 DEF TypeOK, EnsureOwner, Meanwhile, readVars, planVars
<1>16. ASSUME NEW o \in Org, NEW n \in 0 .. MaxWeight[o], Deploy(o, n) PROVE TypeOK'
  <2>1. n \in UNION {0 .. MaxWeight[p] : p \in Org} /\ n <= MaxWeight[o]
    BY BoundAssumption
  <2>2. flows' \in Weights
    BY <1>16, <2>1 DEF TypeOK, Deploy, Weights
  <2>3. young' \subseteq Org
    BY <1>16 DEF TypeOK, Deploy
  <2> QED BY <1>16, <1>b, <2>2, <2>3 DEF TypeOK, Deploy, Meanwhile, readVars, planVars
<1>17. ASSUME NEW o \in Org, NEW w \in Worker, Elsewhere(o, w) PROVE TypeOK'
  <2>1. place' \in Place /\ young' \subseteq Org
    BY <1>17 DEF TypeOK, Elsewhere, Place
  <2> QED BY <1>17, <1>b, <2>1 DEF TypeOK, Elsewhere, Meanwhile, readVars, planVars
<1>18. CASE Aging
  BY <1>18 DEF TypeOK, Aging, readVars, planVars
<1>19. CASE UNCHANGED vars
  BY <1>19 DEF TypeOK, vars, dbVars, readVars, planVars
<1> QED
  BY <1>1, <1>2, <1>3, <1>4, <1>5, <1>6, <1>7, <1>8, <1>9, <1>10, <1>11, <1>12, <1>13, <1>14,
     <1>15, <1>16, <1>17, <1>18, <1>19 DEF Next, Round, Disturbance

(* The type invariant of the rounds, for every instance. *)
THEOREM TypeCorrect == Spec => []TypeOK
BY TypeInit, TypeNext, PTL DEF Spec

-----------------------------------------------------------------------------
(* The plan. *)

LEMMA PlanInit == Init => PlanInv
BY DEF Init, PlanInv, ChangesInv, PlanningInv, SurveyInv

(* Steps that leave the reads and the plan alone, or drop some changes.    *)
LEMMA PlanKept ==
  ASSUME PlanInv, UNCHANGED <<origin, known, count, owned>>, changes' \subseteq changes,
         \/ pc' = "apply"
         \/ UNCHANGED <<pc, todo, orphans, changes>>
  PROVE  PlanInv'
<1>1. ChangesInv'
  BY DEF PlanInv, ChangesInv
<1>2. PlanningInv' /\ SurveyInv'
  BY DEF PlanInv, PlanningInv, SurveyInv, Placed
<1> QED BY <1>1, <1>2 DEF PlanInv

LEMMA PlanEmpty ==
  ASSUME changes' = {}, pc' \in {"sleep", "placements", "weights"}
  PROVE  PlanInv'
BY DEF PlanInv, ChangesInv, PlanningInv, SurveyInv

LEMMA SurveyPlan ==
  ASSUME TypeOK, PlanInv, NEW o \in Org, Survey(o)
  PROVE  PlanInv'
<1>0. /\ o \in todo /\ todo' = todo \ {o} /\ pc = "survey" /\ pc' = "survey"
      /\ UNCHANGED <<origin, known, count>>
  BY DEF Survey, readVars
<1>1. /\ owned[o] = NoWorker /\ \A c \in changes : c.org # o
      /\ o \notin orphans /\ origin[o] # NoWorker /\ Placed' = Placed /\ o \in Placed
  BY <1>0 DEF PlanInv, PlanningInv, SurveyInv, Placed
<1>2. CASE known /\ count[o] = 0 /\ changes' = changes \cup {Released(o)} /\ UNCHANGED <<orphans, load, owned>>
  <2>1. ChangesInv'
    BY <1>0, <1>1, <1>2, ReleasedType DEF PlanInv, ChangesInv
  <2>2. PlanningInv'
    BY <1>0, <1>1, <1>2, ReleasedType DEF PlanInv, PlanningInv
  <2>3. SurveyInv'
    BY <1>0, <1>1, <1>2, ReleasedType DEF PlanInv, SurveyInv
  <2> QED BY <2>1, <2>2, <2>3 DEF PlanInv
<1>3. CASE origin[o] \in views /\ Give(o, origin[o]) /\ UNCHANGED <<orphans, changes>>
  <2>1. \A p \in Org : owned'[p] = IF p = o THEN origin[o] ELSE owned[p]
    BY <1>3 DEF Give, TypeOK, Place
  <2>2. \A c \in changes : c.org \in Org
    BY SMTT(30) DEF TypeOK, Change
  <2>3. ChangesInv'
    BY <1>0, <1>1, <1>3, <2>1, <2>2 DEF PlanInv, ChangesInv
  <2>4. PlanningInv'
    BY <1>0, <1>1, <1>3, <2>1, <2>2 DEF PlanInv, PlanningInv, TypeOK
  <2>5. SurveyInv'
    BY <1>0, <1>1, <1>3, <2>1 DEF PlanInv, SurveyInv
  <2> QED BY <2>3, <2>4, <2>5 DEF PlanInv
<1>4. CASE orphans' = orphans \cup {o} /\ UNCHANGED <<load, owned, changes>>
  <2>1. ChangesInv'
    BY <1>0, <1>4 DEF PlanInv, ChangesInv
  <2>2. PlanningInv'
    BY <1>0, <1>1, <1>4 DEF PlanInv, PlanningInv
  <2>3. SurveyInv'
    BY <1>0, <1>1, <1>4 DEF PlanInv, SurveyInv
  <2> QED BY <2>1, <2>2, <2>3 DEF PlanInv
<1> QED BY <1>2, <1>3, <1>4 DEF Survey

LEMMA SurveyedPlan ==
  ASSUME TypeOK, PlanInv, Surveyed
  PROVE  PlanInv'
<1>0. /\ pc = "survey" /\ todo = {} /\ pc' \in {"apply", "failover"} /\ todo' = {}
      /\ orphans' = orphans \cup {o \in Org : count[o] > 0 /\ o \notin Placed}
      /\ UNCHANGED <<origin, known, count, owned, changes>>
  BY DEF Surveyed, readVars
<1>1. ChangesInv'
  BY <1>0 DEF PlanInv, ChangesInv
<1>2. ASSUME NEW o \in Org, o \notin Placed
      PROVE  owned[o] = NoWorker /\ \A c \in changes : c.org # o
  BY <1>0, <1>2 DEF PlanInv, SurveyInv, Placed
<1>3. \A o \in orphans' : owned[o] = NoWorker /\ \A c \in changes : c.org # o
  BY <1>0, <1>2 DEF PlanInv, PlanningInv
<1>4. PlanningInv'
  BY <1>0, <1>3 DEF PlanInv, PlanningInv
<1>5. SurveyInv'
  BY <1>0 DEF SurveyInv
<1> QED BY <1>1, <1>4, <1>5 DEF PlanInv

LEMMA FailoverPlan ==
  ASSUME TypeOK, PlanInv, NEW o \in Org, NEW w \in Worker, Failover(o, w)
  PROVE  PlanInv'
<1> DEFINE new == IF origin[o] = NoWorker THEN Assigned(o, w) ELSE Moved(o, origin[o], w)
<1>0. /\ o \in orphans /\ orphans' = orphans \ {o} /\ pc = "failover" /\ pc' = "failover"
      /\ changes' = changes \cup {new} /\ todo' = todo
      /\ UNCHANGED <<origin, known, count>>
  BY DEF Failover, readVars
<1>1. new.org = o /\ new.from = origin[o] /\ new.to = w /\ new.kind # "release"
  <2>1. origin[o] \in Worker \cup {NoWorker}
    BY DEF TypeOK, Place
  <2> QED BY <2>1, AssignedType, MovedType
<1>2. \A c \in changes : c.org # o /\ c.org \in Org
  <2>1. \A c \in changes : c.org \in Org
    BY SMTT(30) DEF TypeOK, Change
  <2> QED BY <1>0, <2>1 DEF PlanInv, PlanningInv
<1>3. \A p \in Org : owned'[p] = IF p = o THEN w ELSE owned[p]
  BY DEF Failover, Give, TypeOK, Place
<1> HIDE DEF new
<1>4. ChangesInv'
  BY <1>0, <1>1, <1>2, <1>3, NoneAssumption DEF PlanInv, ChangesInv
<1>5. PlanningInv'
  BY <1>0, <1>1, <1>2, <1>3 DEF PlanInv, PlanningInv, TypeOK
<1>6. SurveyInv'
  BY <1>0 DEF SurveyInv
<1> QED BY <1>4, <1>5, <1>6 DEF PlanInv

LEMMA RebalancePlan ==
  ASSUME TypeOK, PlanInv, NEW o \in Org, NEW v \in Worker, NEW w \in Worker, Rebalance(o, v, w)
  PROVE  PlanInv'
<1>0. /\ pc = "failover" /\ pc' = "failover" /\ orphans = {} /\ UNCHANGED <<todo, orphans, origin, known, count>>
      /\ todo = {} /\ owned[o] = v /\ changes' = Redirect(o, v, w)
  BY DEF Rebalance, Balancing, Movable, readVars, PlanInv, PlanningInv
<1>1. PICK new : /\ changes' = (changes \ ChangesOf(o)) \cup {new}
                 /\ new.org = o /\ new.from = origin[o] /\ new.to = w /\ new.kind # "release"
  <2>1. origin[o] \in Worker \cup {NoWorker}
    BY DEF TypeOK, Place
  <2>2. CASE ChangesOf(o) = {}
    <3>1. origin[o] = v
      BY <1>0, <2>2 DEF PlanInv, PlanningInv, ChangesOf
    <3> QED BY <1>0, <2>2, <3>1, MovedType DEF Redirect
  <2>3. CASE ChangesOf(o) # {} /\ origin[o] = NoWorker
    BY <1>0, <2>3, AssignedType DEF Redirect
  <2>4. CASE ChangesOf(o) # {} /\ origin[o] # NoWorker
    BY <1>0, <2>1, <2>4, MovedType DEF Redirect
  <2> QED BY <2>2, <2>3, <2>4
<1>2. \A c \in changes \ ChangesOf(o) : c \in changes /\ c.org # o /\ c.org \in Org
  <2>1. \A c \in changes : c.org \in Org
    BY SMTT(30) DEF TypeOK, Change
  <2> QED BY <2>1 DEF ChangesOf
<1>3. \A p \in Org : owned'[p] = IF p = o THEN w ELSE owned[p]
  BY DEF Rebalance, TypeOK, Place
<1>4. ChangesInv'
  BY <1>0, <1>1, <1>2, <1>3, NoneAssumption DEF PlanInv, ChangesInv
<1>5. PlanningInv'
  <2>1. ASSUME NEW p \in Org, owned'[p] # origin[p] PROVE \E c \in changes' : c.org = p
    <3>1. CASE p = o
      BY <1>1, <3>1
    <3>2. CASE p # o
      <4>1. PICK c \in changes : c.org = p
        BY <1>0, <1>3, <2>1, <3>2 DEF PlanInv, PlanningInv
      <4> QED BY <1>1, <3>2, <4>1 DEF ChangesOf
    <3> QED BY <3>1, <3>2
  <2> QED BY <1>0, <2>1 DEF PlanningInv
<1>6. SurveyInv'
  BY <1>0 DEF SurveyInv
<1> QED BY <1>4, <1>5, <1>6 DEF PlanInv

LEMMA PlanNext == TypeOK /\ PlanInv /\ [Next]_vars => PlanInv'
<1> SUFFICES ASSUME TypeOK, PlanInv, [Next]_vars PROVE PlanInv'
  OBVIOUS
<1>1. CASE ReadWorkers \/ ReadPlacements
  <2>1. changes' = {} /\ pc' \in {"placements", "weights"}
    BY <1>1 DEF ReadWorkers, ReadPlacements, planVars, PlanInv, ChangesInv
  <2> QED BY <2>1, PlanEmpty
<1>2. CASE ReadWeights
  <2>1. /\ pc' = "survey" /\ changes' = {} /\ todo' = Placed /\ orphans' = {}
        /\ owned' = [o \in Org |-> NoWorker] /\ UNCHANGED origin
    BY <1>2 DEF ReadWeights, NoPlace
  <2> QED BY <2>1 DEF PlanInv, ChangesInv, PlanningInv, SurveyInv, Placed
<1>3. CASE Planned \/ (\E c \in changes : Apply(c) \/ Check(c)) \/ (\E c \in checked : Delete(c))
  <2>1. CASE Planned
    BY <2>1, PlanKept DEF Planned, readVars, planVars
  <2>2. ASSUME NEW c \in changes, Apply(c) PROVE PlanInv'
    BY <2>2, PlanKept DEF Apply, readVars
  <2>3. ASSUME NEW c \in changes, Check(c) PROVE PlanInv'
    BY <2>3, PlanKept DEF Check, readVars
  <2>4. ASSUME NEW c \in checked, Delete(c) PROVE PlanInv'
    BY <2>4, PlanKept DEF Delete, readVars
  <2> QED BY <1>3, <2>1, <2>2, <2>3, <2>4
<1>4. CASE EndRound \/ RoundFails
  BY <1>4, PlanEmpty DEF EndRound, RoundFails, Reset
<1>5. ASSUME \/ \E w \in Worker : WorkerTurns(w)
             \/ \E o \in Org, w \in Worker : EnsureOwner(o, w) \/ Elsewhere(o, w)
             \/ \E o \in Org : \E n \in 0 .. MaxWeight[o] : Deploy(o, n)
      PROVE  PlanInv'
  <2>1. UNCHANGED <<pc, readVars, planVars>>
    BY <1>5 DEF WorkerTurns, EnsureOwner, Elsewhere, Deploy, Meanwhile
  <2> QED BY <2>1, PlanKept DEF readVars, planVars
<1>6. CASE Aging \/ UNCHANGED vars
  BY <1>6, PlanKept DEF Aging, vars, readVars, planVars
<1> QED
  BY <1>1, <1>2, <1>3, <1>4, <1>5, <1>6, SurveyPlan, SurveyedPlan, FailoverPlan, RebalancePlan
  DEF Next, Round, Disturbance

(* The plan moves every org at most once, from where it was read to where  *)
(* the plan counts it, for any orgs, workers, capacities and limits (plan).*)
THEOREM PlanCoherent == Spec => []PlanMatches
<1>1. Init => TypeOK /\ PlanInv
  BY TypeInit, PlanInit
<1>2. TypeOK /\ PlanInv /\ [Next]_vars => (TypeOK /\ PlanInv)'
  BY TypeNext, PlanNext
<1>3. PlanInv => PlanMatches
  BY DEF PlanInv, ChangesInv, PlanningInv, PlanMatches, Balancing, ChangesOf
<1> QED BY <1>1, <1>2, <1>3, PTL DEF Spec

-----------------------------------------------------------------------------
(* Proofs by induction over data take a least counterexample: a smallest  *)
(* number, or a smallest subset of a finite set.                           *)
LEMMA LeastNumber ==
  ASSUME NEW T \in SUBSET Nat, T # {}
  PROVE  \E n \in T : \A m \in T : n <= m
<1> DEFINE R == OpToRel(<, Nat)
<1>1. IsWellFoundedOn(R, Nat)
  BY NatLessThanWellFounded
<1>2. \A m, n \in Nat : <<m, n>> \in R <=> m < n
  BY DEF OpToRel
<1> HIDE DEF R
<1>3. PICK n \in T : \A m \in T : ~(<<m, n>> \in R)
  BY <1>1, WFMin
<1>4. ASSUME NEW m \in T PROVE n <= m
  <2>1. m \in Nat /\ n \in Nat
    OBVIOUS
  <2>2. ~(m < n)
    BY <1>2, <1>3, <2>1
  <2> QED BY <2>1, <2>2
<1> QED BY <1>4

LEMMA LeastSet ==
  ASSUME NEW S, IsFiniteSet(S), NEW B \in SUBSET SUBSET S, B # {}
  PROVE  \E t \in B : \A u \in B : u \subseteq t => u = t
<1>1. IsWellFoundedOn(StrictSubsetOrdering(S), SUBSET S)
  BY FS_FiniteSubsetsOfFinite, FS_StrictSubsetOrderingWellFounded
<1>2. PICK t \in B : \A u \in B : ~(<<u, t>> \in StrictSubsetOrdering(S))
  BY <1>1, WFMin
<1>3. ASSUME NEW u \in B, u \subseteq t, u # t PROVE FALSE
  <2>1. u \in SUBSET S /\ t \in SUBSET S
    OBVIOUS
  <2>2. <<u, t>> \in StrictSubsetOrdering(S)
    BY <1>3, <2>1 DEF StrictSubsetOrdering
  <2> QED BY <1>2, <2>2
<1> QED BY <1>3

-----------------------------------------------------------------------------
(* Sums. The fold that adds the weights of a set of orgs takes them in the *)
(* order of CHOOSE; it is the function that meets this equation.           *)
First(s) == CHOOSE x \in s : TRUE
WeightIn(c, o) == IF c[o] = 0 THEN 1 ELSE c[o]
TotalOf(c, h, s) == IF s = {} THEN 0 ELSE WeightIn(c, First(s)) + h[s \ {First(s)}]
Totals(c, S, h) == \A s \in SUBSET S : h[s] = TotalOf(c, h, s)

LEMMA FirstIn == ASSUME NEW s, s # {} PROVE First(s) \in s
BY DEF First

(* The equation has a solution: the number of orgs for which it has none   *)
(* would have a least one.                                                 *)
LEMMA TotalsExist ==
  ASSUME NEW c \in [Org -> Nat], NEW S \in SUBSET Org
  PROVE  \E h \in [SUBSET S -> Nat] : Totals(c, S, h)
<1>1. /\ IsFiniteSet(S)
      /\ \A s \in SUBSET S : IsFiniteSet(s) /\ Cardinality(s) \in Nat /\ Cardinality(s) <= Cardinality(S)
  BY FiniteAssumption, FS_Subset, FS_CardinalityType
<1> DEFINE UpTo(n, h) == \A s \in SUBSET S : Cardinality(s) < n => h[s] = TotalOf(c, h, s)
           Bad == {n \in Nat : ~\E h \in [SUBSET S -> Nat] : UpTo(n, h)}
<1>2. CASE Bad = {}
  <2>1. Cardinality(S) \in Nat /\ Cardinality(S) + 1 \in Nat
    BY <1>1, FS_CardinalityType
  <2>2. PICK h \in [SUBSET S -> Nat] : UpTo(Cardinality(S) + 1, h)
    BY <1>2, <2>1
  <2>3. \A s \in SUBSET S : Cardinality(s) < Cardinality(S) + 1
    BY <1>1, <2>1
  <2>4. Totals(c, S, h)
    BY <2>2, <2>3 DEF Totals
  <2> QED BY <2>4
<1>3. CASE Bad # {}
  <2>1. PICK n \in Bad : \A m \in Bad : n <= m
    BY <1>3, LeastNumber
  <2>2. n # 0
    <3>1. [s \in SUBSET S |-> 0] \in [SUBSET S -> Nat] /\ UpTo(0, [s \in SUBSET S |-> 0])
      BY <1>1
    <3> QED BY <3>1
  <2>3. PICK h \in [SUBSET S -> Nat] : UpTo(n - 1, h)
    <3>1. n - 1 \in Nat /\ n - 1 \notin Bad
      <4>1. n \in Nat
        OBVIOUS
      <4> HIDE DEF Bad
      <4> QED BY <2>1, <2>2, <4>1
    <3> QED BY <3>1
  <2>0. n \in Nat /\ n - 1 \in Nat
    BY <2>1, <2>2
  <2> DEFINE g == [s \in SUBSET S |-> IF s = {} THEN 0
                                     ELSE IF Cardinality(s) < n THEN TotalOf(c, h, s) ELSE 0]
  <2>4. \A s \in SUBSET S : s # {} => 
           /\ First(s) \in s /\ WeightIn(c, First(s)) \in Nat
           /\ s \ {First(s)} \in SUBSET S /\ h[s \ {First(s)}] \in Nat
           /\ Cardinality(s \ {First(s)}) = Cardinality(s) - 1
    BY <1>1, FirstIn, FS_RemoveElement DEF WeightIn
  <2>5. g \in [SUBSET S -> Nat]
    <3>1. ASSUME NEW s \in SUBSET S, s # {} PROVE WeightIn(c, First(s)) + h[s \ {First(s)}] \in Nat
      <4>1. WeightIn(c, First(s)) \in Nat /\ h[s \ {First(s)}] \in Nat
        BY <2>4, <3>1
      <4> QED BY <4>1
    <3> QED BY <3>1 DEF TotalOf
  <2>6. ASSUME NEW s \in SUBSET S, Cardinality(s) < n - 1 PROVE g[s] = h[s]
    <3>1. h[s] = TotalOf(c, h, s) /\ Cardinality(s) < n
      BY <1>1, <2>0, <2>3, <2>6
    <3> QED BY <3>1 DEF TotalOf
  <2>7. ASSUME NEW s \in SUBSET S, Cardinality(s) < n PROVE g[s] = TotalOf(c, g, s)
    <3>1. CASE s = {}
      BY <3>1 DEF TotalOf
    <3>2. CASE s # {}
      <4>1. g[s \ {First(s)}] = h[s \ {First(s)}]
        <5>1. /\ Cardinality(s) \in Nat /\ s \ {First(s)} \in SUBSET S
              /\ Cardinality(s \ {First(s)}) = Cardinality(s) - 1
          BY <1>1, <2>4, <3>2
        <5>2. Cardinality(s \ {First(s)}) < n - 1
          BY <2>0, <2>7, <5>1
        <5> HIDE DEF g
        <5> QED BY <2>6, <5>1, <5>2
      <4>2. g[s] = TotalOf(c, h, s)
        BY <2>7, <3>2
      <4> QED BY <3>2, <4>1, <4>2 DEF TotalOf
    <3> QED BY <3>1, <3>2
  <2> HIDE DEF g
  <2>8. UpTo(n, g)
    BY <2>7
  <2> QED BY <2>1, <2>5, <2>8
<1> QED BY <1>2, <1>3

(* ... and only one, wherever it is asked.                                 *)
LEMMA TotalsAgree ==
  ASSUME NEW c, NEW S \in SUBSET Org, NEW R \in SUBSET S, NEW h, NEW g, Totals(c, S, h), Totals(c, R, g)
  PROVE  \A s \in SUBSET R : h[s] = g[s]
<1> DEFINE Bad == {s \in SUBSET R : h[s] # g[s]}
<1> SUFFICES ASSUME Bad # {} PROVE FALSE
  OBVIOUS
<1>1. PICK s \in Bad : \A t \in Bad : t \subseteq s => t = s
  <2>1. IsFiniteSet(R) /\ Bad \in SUBSET SUBSET R
    BY FiniteAssumption, FS_Subset
  <2> HIDE DEF Bad
  <2> QED BY <2>1, LeastSet
<1>2. s # {}
  BY <1>1 DEF Totals, TotalOf
<1>3. s \ {First(s)} \in SUBSET R /\ s \ {First(s)} # s
  BY <1>2, FirstIn
<1>4. h[s \ {First(s)}] = g[s \ {First(s)}]
  BY <1>1, <1>3
<1> QED BY <1>1, <1>2, <1>3, <1>4 DEF Totals, TotalOf

(* The sum of the weights of any set of orgs. *)
Tally(c) == CHOOSE h \in [SUBSET Org -> Nat] : Totals(c, Org, h)

LEMMA TallyTotals ==
  ASSUME NEW c \in [Org -> Nat]
  PROVE  Tally(c) \in [SUBSET Org -> Nat] /\ Totals(c, Org, Tally(c))
BY TotalsExist DEF Tally

(* The order does not matter: whatever org is added, the sum grows by its  *)
(* weight.                                                                 *)
LEMMA TallyAdds ==
  ASSUME NEW c \in [Org -> Nat], NEW s \in SUBSET Org, NEW o \in Org \ s
  PROVE  Tally(c)[s \cup {o}] = Tally(c)[s] + WeightIn(c, o)
<1> DEFINE h == Tally(c)
           Bad == {t \in SUBSET Org : \E p \in Org \ t : h[t \cup {p}] # h[t] + WeightIn(c, p)}
<1>0. h \in [SUBSET Org -> Nat] /\ Totals(c, Org, h)
  BY TallyTotals
<1> HIDE DEF h
<1> SUFFICES ASSUME Bad # {} PROVE FALSE
  BY DEF h
<1>1. PICK t \in Bad : \A u \in Bad : u \subseteq t => u = t
  <2>1. Bad \in SUBSET SUBSET Org
    OBVIOUS
  <2> HIDE DEF Bad
  <2> QED BY <2>1, FiniteAssumption, LeastSet
<1>2. PICK p \in Org \ t : h[t \cup {p}] # h[t] + WeightIn(c, p)
  BY <1>1
<1> DEFINE x == First(t \cup {p})
<1>3. x \in t \cup {p} /\ h[t \cup {p}] = WeightIn(c, x) + h[(t \cup {p}) \ {x}]
  BY <1>0, <1>2, FirstIn DEF Totals, TotalOf
<1> HIDE DEF x
<1>4. \A q \in Org : WeightIn(c, q) \in Nat
  BY DEF WeightIn
<1>5. CASE x = p
  <2>1. (t \cup {p}) \ {x} = t /\ h[t] \in Nat /\ WeightIn(c, p) \in Nat
    BY <1>0, <1>1, <1>2, <1>4, <1>5
  <2>2. h[t \cup {p}] = WeightIn(c, p) + h[t]
    BY <1>3, <1>5, <2>1
  <2> QED BY <1>2, <2>1, <2>2
<1>6. CASE x # p
  <2> DEFINE u == t \ {x}
  <2>1. x \in t /\ x \in Org /\ u \in SUBSET Org /\ u # t /\ u \subseteq t /\ x \in Org \ u /\ p \in Org \ u
    BY <1>1, <1>2, <1>3, <1>6
  <2>2. (t \cup {p}) \ {x} = u \cup {p} /\ t = u \cup {x}
    BY <1>2, <1>6, <2>1
  <2>3. u \notin Bad
    BY <1>1, <2>1
  <2>4. h[u \cup {p}] = h[u] + WeightIn(c, p) /\ h[u \cup {x}] = h[u] + WeightIn(c, x)
    BY <2>1, <2>3
  <2>5. h[u] \in Nat /\ WeightIn(c, p) \in Nat /\ WeightIn(c, x) \in Nat
    BY <1>0, <1>4, <2>1
  <2>6. h[t] = h[u] + WeightIn(c, x) /\ h[t \cup {p}] = WeightIn(c, x) + (h[u] + WeightIn(c, p))
    BY <1>3, <2>2, <2>4
  <2> HIDE DEF u, Bad
  <2> QED BY <1>2, <2>5, <2>6
<1> QED BY <1>5, <1>6

-----------------------------------------------------------------------------
(* Distances. A finite set of numbers has a maximum.                       *)
LEMMA LargestNumber ==
  ASSUME NEW T, IsFiniteSet(T), T # {}
  PROVE  T \subseteq Nat => Max(T) \in T /\ \A y \in T : y <= Max(T)
<1> DEFINE HasTop(t) == \E x \in t : \A y \in t : x >= y
           Bad == {t \in SUBSET T : t # {} /\ ~HasTop(t)}
<1>0. Bad # {} => \E t \in Bad : \A u \in Bad : u \subseteq t => u = t
  <2>1. Bad \in SUBSET SUBSET T
    OBVIOUS
  <2> HIDE DEF Bad
  <2> QED BY <2>1, LeastSet
<1> SUFFICES ASSUME T \subseteq Nat
             PROVE  Max(T) \in T /\ \A y \in T : y <= Max(T)
  OBVIOUS
<1>1. HasTop(T)
  <2> SUFFICES ASSUME ~HasTop(T) PROVE FALSE
    OBVIOUS
  <2>1. PICK t \in Bad : \A u \in Bad : u \subseteq t => u = t
    BY <1>0
  <2>2. PICK x : x \in t
    OBVIOUS
  <2>3. t \subseteq Nat /\ t \ {x} \subseteq T /\ t \ {x} # t
    BY <2>2
  <2>4. CASE t = {x}
    BY <2>3, <2>4
  <2>5. CASE t # {x}
    <3>1. t \ {x} \notin Bad
      BY <2>1, <2>3
    <3>2. PICK m \in t \ {x} : \A y \in t \ {x} : m >= y
      BY <2>2, <2>3, <2>5, <3>1
    <3>3. x \in Nat /\ m \in Nat
      BY <2>2, <2>3
    <3>4. CASE m >= x
      <4>1. \A y \in t : m >= y
        BY <3>2, <3>4
      <4> QED BY <4>1
    <3>5. CASE x >= m
      <4>1. ASSUME NEW y \in t PROVE x >= y
        <5>1. y \in Nat /\ (y = x \/ m >= y)
          BY <2>3, <3>2
        <5> QED BY <3>3, <3>5, <5>1
      <4> QED BY <2>2, <4>1
    <3> QED BY <3>3, <3>4, <3>5
  <2> QED BY <2>4, <2>5
<1>2. Max(T) \in T /\ \A y \in T : Max(T) >= y
  BY <1>1 DEF Max
<1>3. ASSUME NEW y \in T PROVE y <= Max(T)
  <2>1. y \in Nat /\ Max(T) \in Nat /\ Max(T) >= y
    BY <1>2
  <2> QED BY <2>1
<1> QED BY <1>2, <1>3

LEMMA LargerOfTwo ==
  ASSUME NEW m \in Nat, NEW n \in Nat
  PROVE  Max({m, n}) \in Nat /\ m <= Max({m, n}) /\ n <= Max({m, n})
<1>1. IsFiniteSet({m, n})
  <2>1. {m, n} = {m} \cup {n} /\ IsFiniteSet({m})
    BY FS_Singleton
  <2> QED BY <2>1, FS_AddElement
<1> HIDE DEF Max
<1>2. {m, n} \subseteq Nat /\ {m, n} # {}
  OBVIOUS
<1> QED BY <1>1, <1>2, LargestNumber

(* Spread, as a function of the workers that were read. *)
Distances(V, f) ==
  LET span == {p \in V \X V : f[p[1]] >= f[p[2]]}
  IN {f[p[1]] - f[p[2]] : p \in span} \cup {0}

(* The spread is the largest distance between two workers. *)
LEMMA Farthest ==
  ASSUME NEW V \in SUBSET Worker, NEW f \in [Worker -> Nat]
  PROVE  /\ Max(Distances(V, f)) \in Nat
         /\ \A a, b \in V : f[a] - f[b] <= Max(Distances(V, f))
         /\ \/ Max(Distances(V, f)) = 0
            \/ \E a, b \in V : Max(Distances(V, f)) = f[a] - f[b]
<1> DEFINE span == {p \in V \X V : f[p[1]] >= f[p[2]]}
           D == {f[p[1]] - f[p[2]] : p \in span}
<1>1. Distances(V, f) = D \cup {0}
  BY DEF Distances
<1>2. IsFiniteSet(span)
  <2>1. IsFiniteSet(V \X V)
    BY FiniteAssumption, FS_Subset, FS_Product
  <2> QED BY <2>1, FS_Subset
<1>3. \A p \in span : p[1] \in V /\ p[2] \in V /\ f[p[1]] \in Nat /\ f[p[2]] \in Nat /\ f[p[1]] >= f[p[2]]
  OBVIOUS
<1>4. \A p \in span : f[p[1]] - f[p[2]] \in Nat
  <2> HIDE DEF span
  <2> QED BY <1>3
<1>5. IsFiniteSet(D)
  <2> DEFINE g == [p \in span |-> f[p[1]] - f[p[2]]]
  <2> HIDE DEF span
  <2>1. g \in Surjection(span, D)
    BY DEF Surjection
  <2> HIDE DEF D, g
  <2> QED BY <1>2, <2>1, FS_Surjection
<1>6. D \cup {0} \in SUBSET Nat /\ IsFiniteSet(D \cup {0})
  BY <1>4, <1>5, FS_AddElement
<1> DEFINE m == Max(D \cup {0})
<1>7. m \in D \cup {0} /\ \A y \in D \cup {0} : y <= m
  <2> HIDE DEF D
  <2> QED BY <1>6, LargestNumber
<1> HIDE DEF m
<1>8. m \in Nat
  BY <1>6, <1>7
<1>9. ASSUME NEW a \in V, NEW b \in V PROVE f[a] - f[b] <= m
  <2>1. f[a] \in Nat /\ f[b] \in Nat
    OBVIOUS
  <2>2. CASE f[a] >= f[b]
    <3>1. <<a, b>> \in span /\ f[<<a, b>>[1]] - f[<<a, b>>[2]] = f[a] - f[b]
      BY <2>2
    <3>2. f[a] - f[b] \in D
      BY <3>1
    <3> QED BY <1>7, <3>2
  <2>3. CASE ~(f[a] >= f[b])
    BY <1>8, <2>1, <2>3
  <2> QED BY <2>2, <2>3
<1>10. m = 0 \/ \E a, b \in V : m = f[a] - f[b]
  BY <1>3, <1>7
<1> QED BY <1>1, <1>8, <1>9, <1>10 DEF m

-----------------------------------------------------------------------------
(* The function that MapThenSumSet defines for the weights. *)
Recursion(c, S, h) ==
  h = [s \in SUBSET S |-> IF s = {} THEN 0
       ELSE LET x == CHOOSE x \in s : TRUE
            IN (IF c[x] = 0 THEN 1 ELSE c[x]) + h[s \ {x}]]

LEMMA RecursionExists ==
  ASSUME NEW c \in [Org -> Nat], NEW S \in SUBSET Org
  PROVE  \E h : Recursion(c, S, h)
<1>1. PICK h \in [SUBSET S -> Nat] : Totals(c, S, h)
  BY TotalsExist
<1>2. Recursion(c, S, h)
  BY <1>1 DEF Recursion, Totals, TotalOf, First, WeightIn
<1> QED BY <1>2

(* Whatever function the definition picks, its value is the tally. *)
LEMMA RecursionTallies ==
  ASSUME NEW c \in [Org -> Nat], NEW S \in SUBSET Org, NEW h, Recursion(c, S, h)
  PROVE  h[S] = Tally(c)[S]
<1>1. Totals(c, S, h)
  BY DEF Recursion, Totals, TotalOf, First, WeightIn
<1> QED BY <1>1, TallyTotals, TotalsAgree

(* The orgs that OldLoad adds up, now and after a step. *)
CountedAt(p, f, w) == {o \in Org : p[o] # NoWorker /\ f[o] = w}

LEMMA OldLoadTally ==
  ASSUME TypeOK, NEW w
  PROVE  OldLoad(w) = Tally(count)[CountedAt(owned, origin, w)]
<1> DEFINE S == {o \in Org : owned[o] # NoWorker /\ origin[o] = w}
<1>1. count \in [Org -> Nat]
  BY BoundAssumption DEF TypeOK, Weights
<1>2. PICK h : Recursion(count, S, h) /\ OldLoad(w) = h[S]
  <2>1. \E h : Recursion(count, S, h)
    BY <1>1, RecursionExists
  <2> QED BY <2>1 DEF OldLoad, MapThenSumSet, MapThenFoldSet, Weight, Recursion
<1> QED BY <1>1, <1>2, RecursionTallies DEF CountedAt

LEMMA OldLoadTallyNext ==
  ASSUME TypeOK', NEW w
  PROVE  OldLoad(w)' = Tally(count')[CountedAt(owned', origin', w)]
<1> DEFINE S == {o \in Org : owned'[o] # NoWorker /\ origin'[o] = w}
<1>1. count' \in [Org -> Nat]
  BY BoundAssumption DEF TypeOK, Weights
<1>2. PICK h : Recursion(count', S, h) /\ OldLoad(w)' = h[S]
  <2>1. \E h : Recursion(count', S, h)
    BY <1>1, RecursionExists
  <2> QED BY <2>1 DEF OldLoad, MapThenSumSet, MapThenFoldSet, Weight, Recursion
<1> QED BY <1>1, <1>2, RecursionTallies DEF CountedAt
-----------------------------------------------------------------------------
(* Rebalancing. *)

(* The loads that the rebalancing found. *)
Old == [w \in Worker |-> OldLoad(w)]

(* What RebalancingHelps asks of the loads. *)
Helped ==
  /\ Spread(load) <= Spread(Old)
  /\ \A w \in views : Capacity[w] # 0 => load[w] <= Max({Capacity[w], Old[w]})

NoFailover == \A o \in Org : owned[o] # NoWorker => origin[o] \in views

(* The survey counts every org where it was; an orphan was on no worker    *)
(* that was read, so the first failover ends what is promised; and what    *)
(* was promised before a rebalancing step holds after it.                  *)
BalanceInv ==
  /\ pc = "survey" => \A w \in Worker : load[w] = OldLoad(w)
  /\ pc \in {"survey", "failover"} => \A o \in orphans : origin[o] \notin views
  /\ pc \in {"failover", "apply"} /\ NoFailover => Helped

LEMMA CountType == TypeOK => count \in [Org -> Nat]
BY BoundAssumption DEF TypeOK, Weights

LEMMA CountTypeNext == TypeOK' => count' \in [Org -> Nat]
BY BoundAssumption DEF TypeOK, Weights

LEMMA OldType == TypeOK => Old \in [Worker -> Nat]
<1> SUFFICES ASSUME TypeOK, NEW w \in Worker PROVE OldLoad(w) \in Nat
  BY DEF Old
<1>1. CountedAt(owned, origin, w) \in SUBSET Org
  BY DEF CountedAt
<1>2. Tally(count) \in [SUBSET Org -> Nat]
  BY CountType, TallyTotals
<1> QED BY <1>1, <1>2, OldLoadTally

(* An org that stays counted leaves the loads that were found alone. *)
LEMMA OldKept ==
  ASSUME TypeOK, TypeOK', UNCHANGED <<origin, count>>,
         \A o \in Org : owned'[o] = NoWorker <=> owned[o] = NoWorker
  PROVE  Old' = Old /\ \A w \in Worker : OldLoad(w)' = OldLoad(w)
<1>1. ASSUME NEW w \in Worker PROVE OldLoad(w)' = OldLoad(w)
  <2>1. CountedAt(owned', origin', w) = CountedAt(owned, origin, w)
    BY DEF CountedAt
  <2> QED BY <2>1, OldLoadTally, OldLoadTallyNext
<1> QED BY <1>1 DEF Old

LEMMA SpreadIs ==
  ASSUME NEW f
  PROVE  Spread(f) = Max(Distances(views, f))
BY DEF Spread, Distances

LEMMA SpreadNext ==
  /\ (Spread(load))' = Max(Distances(views', load'))
  /\ (Spread(Old))' = Max(Distances(views', Old'))
BY DEF Spread, Distances

(* Steps that leave the reads and the loads alone. *)
LEMMA BalanceKept ==
  ASSUME TypeOK, TypeOK', BalanceInv, UNCHANGED <<views, origin, count, load, owned, orphans>>,
         pc' = pc \/ (pc = "failover" /\ pc' = "apply")
  PROVE  BalanceInv'
<1>1. Old' = Old /\ \A w \in Worker : OldLoad(w)' = OldLoad(w)
  BY OldKept
<1>2. (Spread(load))' = Spread(load) /\ (Spread(Old))' = Spread(Old)
  BY <1>1, SpreadIs, SpreadNext
<1>3. Helped => Helped'
  BY <1>1, <1>2 DEF Helped
<1>4. NoFailover' => NoFailover
  BY DEF NoFailover
<1> QED BY <1>1, <1>3, <1>4 DEF BalanceInv

LEMMA BalanceReset ==
  ASSUME pc' \in {"sleep", "placements", "weights"}
  PROVE  BalanceInv'
BY DEF BalanceInv

(* A survey begins with no org counted and no load. *)
LEMMA ReadBalance ==
  ASSUME TypeOK, TypeOK', ReadWeights
  PROVE  BalanceInv'
<1>1. pc' = "survey" /\ orphans' = {} /\ load' = NoLoad /\ owned' = NoPlace
  BY DEF ReadWeights
<1>2. ASSUME NEW w \in Worker PROVE load'[w] = OldLoad(w)'
  <2>1. CountedAt(owned', origin', w) = {}
    BY <1>1 DEF NoPlace, CountedAt
  <2>2. Tally(count')[{}] = 0
    BY CountTypeNext, TallyTotals DEF Totals, TotalOf
  <2> QED BY <1>1, <2>1, <2>2, OldLoadTallyNext DEF NoLoad
<1> QED BY <1>1, <1>2 DEF BalanceInv

(* The survey adds the weight of an org to the worker it was on. *)
LEMMA SurveyBalance ==
  ASSUME TypeOK, TypeOK', PlanInv, BalanceInv, NEW o \in Org, Survey(o)
  PROVE  BalanceInv'
<1>0. /\ o \in todo /\ pc = "survey" /\ pc' = "survey" /\ owned[o] = NoWorker
      /\ UNCHANGED <<views, origin, count>>
  BY DEF Survey, readVars, PlanInv, PlanningInv
<1>1. CASE origin[o] \in views /\ Give(o, origin[o]) /\ UNCHANGED orphans
  <2>1. origin[o] \in Worker /\ origin[o] # NoWorker
    BY <1>1, NoneAssumption DEF TypeOK
  <2>2. \A p \in Org : owned'[p] = IF p = o THEN origin[o] ELSE owned[p]
    BY <1>1 DEF Give, TypeOK, Place
  <2>3. \A w \in Worker : load'[w] = IF w = origin[o] THEN load[w] + Weight(o) ELSE load[w]
    BY <1>1, <2>1 DEF Give, TypeOK
  <2>4. ASSUME NEW w \in Worker PROVE load'[w] = OldLoad(w)'
    <3> DEFINE S == CountedAt(owned, origin, w)
    <3>1. S \in SUBSET Org /\ o \notin S
      BY <1>0 DEF CountedAt
    <3>2. CASE w = origin[o]
      <4>1. CountedAt(owned', origin', w) = S \cup {o}
        BY <1>0, <2>1, <2>2, <3>2 DEF CountedAt
      <4>2. Tally(count)[S \cup {o}] = Tally(count)[S] + WeightIn(count, o)
        BY <3>1, CountType, TallyAdds
      <4>3. load[w] = Tally(count)[S]
        BY <1>0, OldLoadTally DEF BalanceInv
      <4> QED BY <1>0, <2>3, <3>2, <4>1, <4>2, <4>3, OldLoadTallyNext DEF WeightIn, Weight
    <3>3. CASE w # origin[o]
      <4>1. CountedAt(owned', origin', w) = S
        BY <1>0, <2>2, <3>3 DEF CountedAt
      <4>2. load[w] = Tally(count)[S]
        BY <1>0, OldLoadTally DEF BalanceInv
      <4> QED BY <1>0, <2>3, <3>3, <4>1, <4>2, OldLoadTallyNext
    <3> QED BY <3>2, <3>3
  <2> QED BY <1>0, <1>1, <2>4 DEF BalanceInv
<1>2. CASE /\ UNCHANGED <<load, owned>>
           /\ orphans' = orphans \/ (orphans' = orphans \cup {o} /\ origin[o] \notin views)
  <2>1. \A w \in Worker : OldLoad(w)' = OldLoad(w)
    BY <1>0, <1>2, OldKept
  <2> QED BY <1>0, <1>2, <2>1 DEF BalanceInv
<1> QED BY <1>1, <1>2 DEF Survey

(* After the survey every worker has the load it was found with. *)
LEMMA SurveyedBalance ==
  ASSUME TypeOK, TypeOK', BalanceInv, Surveyed
  PROVE  BalanceInv'
<1>0. /\ pc = "survey" /\ pc' \in {"apply", "failover"}
      /\ orphans' = orphans \cup {o \in Org : count[o] > 0 /\ o \notin Placed}
      /\ UNCHANGED <<views, origin, count, load, owned>>
  BY DEF Surveyed, readVars
<1>1. \A o \in orphans' : origin'[o] \notin views'
  BY <1>0, NoneAssumption DEF BalanceInv, TypeOK, Placed
<1>2. Old' = Old /\ load = Old
  BY <1>0, OldKept DEF BalanceInv, Old, TypeOK
<1>3. (Spread(load))' = (Spread(Old))' /\ (Spread(load))' \in Nat
  <2>1. Max(Distances(views', load')) \in Nat
    BY Farthest DEF TypeOK
  <2> QED BY <1>0, <1>2, <2>1, SpreadNext
<1>4. ASSUME NEW w \in Worker PROVE load[w] <= Max({Capacity[w], load[w]})
  BY <1>4, LargerOfTwo, CapacityAssumption DEF TypeOK
<1>5. Helped'
  <2>1. \A w \in views' : Capacity[w] # 0 => load'[w] <= Max({Capacity[w], Old'[w]})
    BY <1>0, <1>2, <1>4 DEF TypeOK
  <2>2. (Spread(load))' <= (Spread(Old))'
    BY <1>3
  <2> QED BY <2>1, <2>2 DEF Helped
<1> QED BY <1>0, <1>1, <1>5 DEF BalanceInv

(* An orphan is counted on a worker it was not on. *)
LEMMA FailoverBalance ==
  ASSUME TypeOK, TypeOK', BalanceInv, NEW o \in Org, NEW w \in Worker, Failover(o, w)
  PROVE  BalanceInv'
<1>0. /\ o \in orphans /\ orphans' = orphans \ {o} /\ pc = "failover" /\ pc' = "failover"
      /\ UNCHANGED <<views, origin>>
  BY DEF Failover, readVars
<1>1. owned'[o] = w /\ w # NoWorker
  BY NoneAssumption DEF Failover, Give, TypeOK, Place
<1>2. ~NoFailover'
  BY <1>0, <1>1 DEF NoFailover, BalanceInv
<1> QED BY <1>0, <1>2 DEF BalanceInv

(* The org that moves is lighter than the distance, so both workers stay   *)
(* between the least and the most loaded one.                              *)
LEMMA RebalanceSpread ==
  ASSUME TypeOK, NEW o \in Org, NEW a \in Worker, NEW b \in Worker, Rebalance(o, a, b)
  PROVE  /\ a # b /\ Weight(o) \in Nat /\ load[a] \in Nat /\ load[b] \in Nat
         /\ load'[a] = load[a] - Weight(o) /\ load'[b] = load[b] + Weight(o)
         /\ \A v \in Worker \ {a, b} : load'[v] = load[v]
         /\ \A v \in views : load[b] <= load'[v] /\ load'[v] <= load[a]
<1>1. /\ Weight(o) \in Nat /\ load[a] \in Nat /\ load[b] \in Nat /\ MinSpread \in Nat
      /\ Weight(o) < load[a] - load[b] /\ load[a] - load[b] > MinSpread
      /\ \A v \in views : v \in Worker /\ load[v] \in Nat /\ load[b] <= load[v] /\ load[v] <= load[a]
  BY WeightType, LimitAssumption DEF Rebalance, Apart, Movable, TypeOK
<1>2. a # b
  BY <1>1
<1>3. load' = [load EXCEPT ![a] = @ - Weight(o), ![b] = @ + Weight(o)]
  BY DEF Rebalance
<1>4. /\ load'[a] = load[a] - Weight(o) /\ load'[b] = load[b] + Weight(o)
      /\ \A v \in Worker \ {a, b} : load'[v] = load[v]
  BY <1>2, <1>3 DEF TypeOK
<1>5. ASSUME NEW v \in views PROVE load[b] <= load'[v] /\ load'[v] <= load[a]
  <2>1. CASE v = a
    BY <1>1, <1>4, <2>1
  <2>2. CASE v = b
    BY <1>1, <1>4, <2>2
  <2>3. CASE v \notin {a, b}
    BY <1>1, <1>4, <2>3
  <2> QED BY <2>1, <2>2, <2>3
<1> QED BY <1>1, <1>2, <1>4, <1>5

(* The spread does not grow, and the worker that gains an org has room.    *)
LEMMA RebalanceBalance ==
  ASSUME TypeOK, TypeOK', BalanceInv, NEW o \in Org, NEW a \in Worker, NEW b \in Worker, Rebalance(o, a, b)
  PROVE  BalanceInv'
<1>0. /\ pc = "failover" /\ pc' = "failover" /\ orphans = {} /\ orphans' = {}
      /\ a \in views /\ b \in views
      /\ owned[o] = a /\ owned' = [owned EXCEPT ![o] = b] /\ Room(b, Weight(o))
      /\ UNCHANGED <<views, origin, count>>
  BY DEF Rebalance, Balancing, Apart, Movable, readVars
<1>1. \A p \in Org : owned'[p] = NoWorker <=> owned[p] = NoWorker
  BY <1>0, NoneAssumption DEF TypeOK, Place
<1>2. Old' = Old
  BY <1>0, <1>1, OldKept
<1> SUFFICES ASSUME NoFailover' PROVE Helped'
  BY <1>0 DEF BalanceInv
<1>3. Helped
  BY <1>0, <1>1 DEF NoFailover, BalanceInv
<1>4. (Spread(load))' <= (Spread(Old))'
  <2>1. /\ (Spread(Old))' = Spread(Old) /\ Spread(load) <= Spread(Old)
        /\ Spread(Old) \in Nat /\ Spread(load) \in Nat
    <3>1. Spread(Old) \in Nat /\ Spread(load) \in Nat
      BY OldType, SpreadIs, Farthest DEF TypeOK
    <3> QED BY <1>0, <1>2, <1>3, <3>1, SpreadIs, SpreadNext DEF Helped
  <2>2. load[a] \in Nat /\ load[b] \in Nat /\ load[a] - load[b] <= Spread(load)
    BY <1>0, SpreadIs, Farthest DEF TypeOK
  <2>3. /\ (Spread(load))' \in Nat
        /\ (Spread(load))' = 0 \/ \E u, v \in views : (Spread(load))' = load'[u] - load'[v]
    BY <1>0, SpreadNext, Farthest DEF TypeOK
  <2>4. ASSUME NEW u \in views, NEW v \in views PROVE load'[u] - load'[v] <= load[a] - load[b]
    <3>1. load'[u] \in Nat /\ load'[v] \in Nat
      BY DEF TypeOK
    <3>2. load'[u] <= load[a] /\ load[b] <= load'[v]
      BY RebalanceSpread
    <3> QED BY <2>2, <3>1, <3>2
  <2>5. (Spread(load))' <= Spread(load)
    <3>1. CASE (Spread(load))' = 0
      BY <2>1, <3>1
    <3>2. CASE \E u, v \in views : (Spread(load))' = load'[u] - load'[v]
      <4>1. PICK u \in views, v \in views : (Spread(load))' = load'[u] - load'[v]
        BY <3>2
      <4>2. load'[u] - load'[v] <= load[a] - load[b]
        BY <2>4
      <4> QED BY <2>1, <2>2, <2>3, <4>1, <4>2
    <3> QED BY <2>3, <3>1, <3>2
  <2> QED BY <2>1, <2>3, <2>5
<1>5. ASSUME NEW v \in views', Capacity[v] # 0 PROVE load'[v] <= Max({Capacity[v], Old'[v]})
  <2>1. /\ v \in views /\ v \in Worker /\ Capacity[v] \in Nat
        /\ Old[v] \in Nat /\ load[v] \in Nat /\ load'[v] \in Nat
    BY <1>0, CapacityAssumption, OldType DEF TypeOK
  <2>2. load[v] <= Max({Capacity[v], Old[v]})
    BY <1>3, <1>5, <2>1 DEF Helped
  <2>3. Max({Capacity[v], Old[v]}) \in Nat /\ Capacity[v] <= Max({Capacity[v], Old[v]})
    BY <2>1, LargerOfTwo
  <2>4. CASE v = b
    <3>1. load'[v] <= Capacity[v]
      BY <1>0, <1>5, <2>4, RebalanceSpread DEF Room
    <3> QED BY <1>2, <2>1, <2>3, <3>1
  <2>5. CASE v # b
    <3>1. load'[v] <= load[v]
      BY <2>1, <2>5, RebalanceSpread
    <3> QED BY <1>2, <2>1, <2>2, <2>3, <3>1
  <2> QED BY <2>4, <2>5
<1> QED BY <1>4, <1>5 DEF Helped

LEMMA BalanceNext == TypeOK /\ TypeOK' /\ PlanInv /\ BalanceInv /\ [Next]_vars => BalanceInv'
<1> SUFFICES ASSUME TypeOK, TypeOK', PlanInv, BalanceInv, [Next]_vars PROVE BalanceInv'
  OBVIOUS
<1>1. CASE ReadWorkers \/ ReadPlacements \/ EndRound \/ RoundFails
  BY <1>1, BalanceReset DEF ReadWorkers, ReadPlacements, EndRound, RoundFails, Reset
<1>2. CASE Planned \/ (\E c \in changes : Apply(c) \/ Check(c)) \/ (\E c \in checked : Delete(c))
  <2>1. CASE Planned
    BY <2>1, BalanceKept DEF Planned, Balancing, readVars, planVars
  <2>2. ASSUME NEW c \in changes, Apply(c) PROVE BalanceInv'
    BY <2>2, BalanceKept DEF Apply, readVars
  <2>3. ASSUME NEW c \in changes, Check(c) PROVE BalanceInv'
    BY <2>3, BalanceKept DEF Check, readVars
  <2>4. ASSUME NEW c \in checked, Delete(c) PROVE BalanceInv'
    BY <2>4, BalanceKept DEF Delete, readVars
  <2> QED BY <1>2, <2>1, <2>2, <2>3, <2>4
<1>3. ASSUME \/ \E w \in Worker : WorkerTurns(w)
             \/ \E o \in Org, w \in Worker : EnsureOwner(o, w) \/ Elsewhere(o, w)
             \/ \E o \in Org : \E n \in 0 .. MaxWeight[o] : Deploy(o, n)
      PROVE  BalanceInv'
  <2>1. UNCHANGED <<pc, readVars, planVars>>
    BY <1>3 DEF WorkerTurns, EnsureOwner, Elsewhere, Deploy, Meanwhile
  <2> QED BY <2>1, BalanceKept DEF readVars, planVars
<1>4. CASE Aging \/ UNCHANGED vars
  BY <1>4, BalanceKept DEF Aging, vars, readVars, planVars
<1> QED
  BY <1>1, <1>2, <1>3, <1>4, ReadBalance, SurveyBalance, SurveyedBalance, FailoverBalance, RebalanceBalance
  DEF Next, Round, Disturbance

(* Balancing without a failover leaves the workers no further apart than   *)
(* it found them, and fills none past its capacity, for any finite sets of *)
(* orgs and workers, any weights, capacities and limits (plan).            *)
THEOREM BalanceHelps == Spec => []RebalancingHelps
<1>1. Init => TypeOK /\ PlanInv /\ BalanceInv
  BY TypeInit, PlanInit DEF Init, BalanceInv
<1>2. TypeOK /\ PlanInv /\ BalanceInv /\ [Next]_vars => (TypeOK /\ PlanInv /\ BalanceInv)'
  BY TypeNext, PlanNext, BalanceNext
<1>3. BalanceInv => RebalancingHelps
  BY DEF BalanceInv, Helped, NoFailover, Old, RebalancingHelps, Balancing
<1> QED BY <1>1, <1>2, <1>3, PTL DEF Spec

-----------------------------------------------------------------------------
(* The lease. *)

(* A process that lost no time keeps its grant: the countdown of a         *)
(* duration stays a duration and never grows.                              *)
LEMMA ElapseFacts ==
  ASSUME NEW d \in Left
  PROVE  /\ Elapse(d) \in Left
         /\ Elapse(d) <= d
         /\ Elapse(d) >= 0 => d = Elapse(d) + 1
         /\ d < 0 => Elapse(d) < 0
BY TtlAssumption DEF Left, Elapse

(* Every variable keeps its type, whatever the processes and the duration. *)
THEOREM LeaseTypeCorrect == LeaseSpec => []LeaseTypeOK
<1>1. LeaseInit => LeaseTypeOK
  BY TtlAssumption DEF LeaseInit, LeaseTypeOK, Left, LoopState
<1>2. LeaseTypeOK /\ [LeaseNext]_leaseVars => LeaseTypeOK'
  <2> SUFFICES ASSUME LeaseTypeOK, [LeaseNext]_leaseVars
               PROVE  LeaseTypeOK'
    OBVIOUS
  <2> USE TtlAssumption DEF LeaseTypeOK, Left, LoopState
  <2>1. ASSUME NEW h \in Holder, TryUpdate(h) PROVE LeaseTypeOK'
    BY <2>1 DEF TryUpdate, Granted
  <2>2. ASSUME NEW h \in Holder, UpdateMatchesNothing(h) PROVE LeaseTypeOK'
    BY <2>2 DEF UpdateMatchesNothing
  <2>3. ASSUME NEW h \in Holder, TryInsert(h) PROVE LeaseTypeOK'
    BY <2>3 DEF TryInsert, Granted
  <2>4. ASSUME NEW h \in Holder, GrantReplyLost(h) PROVE LeaseTypeOK'
    BY <2>4 DEF GrantReplyLost
  <2>5. ASSUME NEW h \in Holder, RoundSkipped(h) PROVE LeaseTypeOK'
    BY <2>5 DEF RoundSkipped
  <2>6. ASSUME NEW h \in Holder, RoundEnds(h) PROVE LeaseTypeOK'
    BY <2>6 DEF RoundEnds
  <2>7. ASSUME NEW h \in Holder, Release(h) PROVE LeaseTypeOK'
    BY <2>7 DEF Release
  <2>8. ASSUME NEW h \in Holder, Exit(h) PROVE LeaseTypeOK'
    BY <2>8 DEF Exit
  <2>9. CASE Tick
    BY <2>9, ElapseFacts DEF Tick
  <2>10. CASE UNCHANGED leaseVars
    BY <2>10 DEF leaseVars
  <2> QED
    BY <2>1, <2>2, <2>3, <2>4, <2>5, <2>6, <2>7, <2>8, <2>9, <2>10 DEF LeaseNext
<1> QED
  BY <1>1, <1>2, PTL DEF LeaseSpec

(* One step keeps every running grant backed by the row: the only steps    *)
(* that change the row are the grants, which need it free, expired or      *)
(* already held, the holder's own release, and the clock.                  *)
LEMMA BackedStep ==
  LeaseTypeOK /\ GrantBackedByRow /\ [LeaseNext]_leaseVars => GrantBackedByRow'
<1> SUFFICES ASSUME LeaseTypeOK, GrantBackedByRow, [LeaseNext]_leaseVars
             PROVE  GrantBackedByRow'
  OBVIOUS
<1> USE TtlAssumption, HolderAssumption DEF LeaseTypeOK, Left, GrantBackedByRow
<1>1. ASSUME NEW h \in Holder, TryUpdate(h) PROVE GrantBackedByRow'
  BY <1>1 DEF TryUpdate, Granted, MayTake
<1>2. ASSUME NEW h \in Holder, UpdateMatchesNothing(h) PROVE GrantBackedByRow'
  BY <1>2 DEF UpdateMatchesNothing
<1>3. ASSUME NEW h \in Holder, TryInsert(h) PROVE GrantBackedByRow'
  BY <1>3 DEF TryInsert, Granted
<1>4. ASSUME NEW h \in Holder, GrantReplyLost(h) PROVE GrantBackedByRow'
  BY <1>4 DEF GrantReplyLost, MayTake
<1>5. ASSUME NEW h \in Holder, RoundSkipped(h) PROVE GrantBackedByRow'
  BY <1>5 DEF RoundSkipped
<1>6. ASSUME NEW h \in Holder, RoundEnds(h) PROVE GrantBackedByRow'
  BY <1>6 DEF RoundEnds
<1>7. ASSUME NEW h \in Holder, Release(h) PROVE GrantBackedByRow'
  BY <1>7 DEF Release
<1>8. ASSUME NEW h \in Holder, Exit(h) PROVE GrantBackedByRow'
  BY <1>8 DEF Exit
<1>9. CASE Tick
  BY <1>9, ElapseFacts DEF Tick, Elapse
<1>10. CASE UNCHANGED leaseVars
  BY <1>10 DEF leaseVars
<1> QED
  BY <1>1, <1>2, <1>3, <1>4, <1>5, <1>6, <1>7, <1>8, <1>9, <1>10 DEF LeaseNext

(* Every running grant of try_lease is backed by the row. *)
THEOREM GrantsBacked == LeaseSpec => []GrantBackedByRow
<1>1. LeaseInit => GrantBackedByRow
  BY DEF LeaseInit, GrantBackedByRow
<1> QED
  BY <1>1, BackedStep, LeaseTypeCorrect, PTL DEF LeaseSpec

(* try_lease never promises the lease to two processes at once: two        *)
(* running grants are backed by the same row, which has one holder.        *)
THEOREM LeaseExclusive == LeaseSpec => []ExclusiveGrant
<1>1. GrantBackedByRow => ExclusiveGrant
  BY DEF GrantBackedByRow, ExclusiveGrant
<1> QED
  BY <1>1, GrantsBacked, PTL

(* The lease leaves a process only by expiry or by its own release. *)
THEOREM LeaseNeverStolen == LeaseSpec => NeverStolen
<1> DEFINE A == \A h \in Holder : (holder = h /\ holder' # h)
                    => (left < 0 \/ h \in gaveBack' \ gaveBack)
<1>1. LeaseTypeOK /\ [LeaseNext]_leaseVars => [A]_leaseVars
  <2> SUFFICES ASSUME LeaseTypeOK, LeaseNext, NEW g \in Holder, holder = g, holder' # g
               PROVE  left < 0 \/ g \in gaveBack' \ gaveBack
    OBVIOUS
  <2> USE HolderAssumption
  <2>1. ASSUME NEW h \in Holder, Release(h)
        PROVE  g \in gaveBack' \ gaveBack
    BY <2>1 DEF Release
  <2>2. ASSUME NEW h \in Holder, TryUpdate(h) \/ TryInsert(h) \/ GrantReplyLost(h)
        PROVE  left < 0
    BY <2>2 DEF TryUpdate, TryInsert, GrantReplyLost, Granted, MayTake
  <2>3. ASSUME NEW h \in Holder,
               UpdateMatchesNothing(h) \/ RoundSkipped(h) \/ RoundEnds(h) \/ Exit(h)
        PROVE  FALSE
    BY <2>3 DEF UpdateMatchesNothing, RoundSkipped, RoundEnds, Exit
  <2>4. CASE Tick
    BY <2>4 DEF Tick
  <2> QED
    BY <2>1, <2>2, <2>3, <2>4 DEF LeaseNext
<1> QED
  BY <1>1, LeaseTypeCorrect, PTL DEF LeaseSpec, NeverStolen
=============================================================================
