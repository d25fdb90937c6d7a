---------------------------- MODULE FlowPlacement ----------------------------
(***************************************************************************)
(* The rounds of the placement controller (crates/pnex-backend services    *)
(* flow_cluster/controller.rs) and the plan each of them makes             *)
(* (placement.rs): orgs without flows are released, orgs of lost workers   *)
(* fail over, and orgs move from the most to the least loaded worker.      *)
(* Workers come and go, flows are deployed and other processes write       *)
(* placements between the reads of a round and its writes.                 *)
(*                                                                         *)
(* Where the code breaks a tie by the order of ids, and for the order in   *)
(* which the changes of a plan are applied, the choice is left open here.  *)
(***************************************************************************)
EXTENDS Naturals, FiniteSets, FiniteSetsExt

CONSTANTS
  Org, Worker,
  Capacity,   \* deployed flows a worker takes, 0 for any number
  MaxMoves,   \* PlanLimits
  MinSpread,
  SpreadPart, \* 1 / spread_ratio
  MaxWeight,  \* bound on the deployed flows of each org
  MaxStale,   \* rounds between two reads of the weights
  MaxChurn,   \* bound on what happens to workers, flows and placements meanwhile
  NoWorker

ASSUME FiniteAssumption == IsFiniteSet(Org) /\ IsFiniteSet(Worker)
ASSUME CapacityAssumption == Capacity \in [Worker -> Nat]
ASSUME LimitAssumption == MaxMoves \in Nat /\ MinSpread \in Nat /\ SpreadPart \in Nat
ASSUME BoundAssumption == MaxWeight \in [Org -> Nat] /\ MaxStale \in Nat /\ MaxChurn \in Nat
ASSUME NoneAssumption == NoWorker \notin Worker

VARIABLES
  (* the database *)
  place,   \* flow_placements: the worker of an org
  young,   \* orgs whose placement is younger than release_grace_ms
  flows,   \* deployed flows of an org
  ready,   \* workers that are alive and not draining
  (* the round of the controller *)
  pc,
  views,   \* workers it has read
  origin,  \* placements it has read
  kept,    \* orgs whose placement was young
  known,   \* it has read the deployed flows too
  count,   \* what it has read of them
  stale,   \* rounds since they were read
  (* its plan *)
  todo,    \* placements not yet looked at
  orphans,
  load,    \* of a worker
  owned,   \* worker that an org counts for
  moves,   \* left for rebalancing
  changes,
  checked, \* the release that has passed its checks
  churn

dbVars == <<place, young, flows, ready>>
readVars == <<views, origin, kept, known, count, stale>>
planVars == <<todo, orphans, load, owned, moves, changes, checked>>
vars == <<dbVars, pc, readVars, planVars, churn>>

(* The deployed flows of every org. *)
Weights == {f \in [Org -> UNION {0 .. MaxWeight[o] : o \in Org}] : \A o \in Org : f[o] <= MaxWeight[o]}

Place == [Org -> Worker \cup {NoWorker}]

Change == [kind : {"assign", "move", "release"}, org : Org,
           from : Worker \cup {NoWorker}, to : Worker \cup {NoWorker}]

TypeOK ==
  /\ place \in Place /\ young \subseteq Org /\ flows \in Weights
  /\ ready \subseteq Worker
  /\ pc \in {"sleep", "placements", "weights", "survey", "failover", "apply"}
  /\ views \subseteq Worker /\ origin \in Place /\ kept \subseteq Org /\ known \in BOOLEAN
  /\ count \in Weights /\ stale \in 0 .. MaxStale
  /\ todo \subseteq Org /\ orphans \subseteq Org /\ load \in [Worker -> Nat]
  /\ owned \in Place /\ moves \in 0 .. MaxMoves /\ changes \subseteq Change
  /\ checked \subseteq Change /\ churn \in 0 .. MaxChurn

NoPlace == [o \in Org |-> NoWorker]
NoCount == [o \in Org |-> 0]
NoLoad == [w \in Worker |-> 0]

Init ==
  /\ place \in Place /\ young = {} /\ flows \in Weights
  /\ ready \in SUBSET Worker
  /\ pc = "sleep" /\ views = {} /\ origin = NoPlace /\ kept = {}
  /\ known = FALSE /\ count = NoCount /\ stale = MaxStale
  /\ todo = {} /\ orphans = {} /\ load = NoLoad /\ owned = NoPlace /\ moves = 0
  /\ changes = {} /\ checked = {} /\ churn = 0

Churn == churn < MaxChurn /\ churn' = churn + 1

-----------------------------------------------------------------------------
(* What a round reads. *)

ReadWorkers ==
  /\ pc = "sleep" /\ pc' = "placements"
  /\ views' = ready
  /\ UNCHANGED <<dbVars, origin, kept, known, count, stale, planVars, churn>>

ReadPlacements ==
  /\ pc = "placements" /\ pc' = "weights"
  /\ origin' = place /\ kept' = young
  /\ UNCHANGED <<dbVars, views, known, count, stale, planVars, churn>>

Placed == {o \in Org : origin[o] # NoWorker}

(* Mutant: the age of the weights is not bounded. *)
ReadWeightsSeldom ==
  /\ pc = "weights" /\ pc' = "survey"
  /\ \/ known' = TRUE /\ count' = flows /\ stale' = 0
     \/ known' = FALSE /\ count' = NoCount /\ stale' = stale + 1
  /\ todo' = Placed /\ orphans' = {} /\ load' = NoLoad /\ owned' = NoPlace
  /\ moves' = MaxMoves /\ changes' = {} /\ checked' = {}
  /\ UNCHANGED <<dbVars, views, origin, kept, churn>>

(* The weights are read when they are old, or by a new leader. *)
ReadWeights ==
  /\ pc = "weights" /\ pc' = "survey"
  /\ \/ known' = TRUE /\ count' = flows /\ stale' = 0
     \/ known' = FALSE /\ count' = NoCount /\ stale < MaxStale /\ stale' = stale + 1
  /\ todo' = Placed /\ orphans' = {} /\ load' = NoLoad /\ owned' = NoPlace
  /\ moves' = MaxMoves /\ changes' = {} /\ checked' = {}
  /\ UNCHANGED <<dbVars, views, origin, kept, churn>>

-----------------------------------------------------------------------------
(* The plan, a function of what was read. *)

(* weight_of *)
Weight(o) == IF count[o] = 0 THEN 1 ELSE count[o]

Give(o, w) ==
  /\ load' = [load EXCEPT ![w] = @ + Weight(o)]
  /\ owned' = [owned EXCEPT ![o] = w]

Released(o) == [kind |-> "release", org |-> o, from |-> origin[o], to |-> NoWorker]
Assigned(o, w) == [kind |-> "assign", org |-> o, from |-> NoWorker, to |-> w]
Moved(o, v, w) == [kind |-> "move", org |-> o, from |-> v, to |-> w]

(* The next placement, in a fixed order, is released, counted or an orphan. *)
Survey(o) ==
  /\ pc = "survey" /\ todo # {} /\ o = CHOOSE p \in todo : TRUE
  /\ todo' = todo \ {o}
  /\ \/ /\ known /\ count[o] = 0
        /\ changes' = changes \cup {Released(o)} /\ UNCHANGED <<orphans, load, owned>>
     \/ /\ ~(known /\ count[o] = 0) /\ origin[o] \in views
        /\ Give(o, origin[o]) /\ UNCHANGED <<orphans, changes>>
     \/ /\ ~(known /\ count[o] = 0) /\ origin[o] \notin views
        /\ orphans' = orphans \cup {o} /\ UNCHANGED <<load, owned, changes>>
  /\ UNCHANGED <<dbVars, pc, readVars, moves, checked, churn>>

(* Mutant: orgs without placement are left to their next deploy. *)
SurveyedPlaced ==
  /\ pc = "survey" /\ todo = {}
  /\ pc' = IF views = {} THEN "apply" ELSE "failover"
  /\ UNCHANGED <<dbVars, readVars, planVars, churn>>

(* Orgs with flows and no placement are orphans too. *)
Surveyed ==
  /\ pc = "survey" /\ todo = {}
  /\ pc' = IF views = {} THEN "apply" ELSE "failover"
  /\ orphans' = orphans \cup {o \in Org : count[o] > 0 /\ o \notin Placed}
  /\ UNCHANGED <<dbVars, readVars, todo, load, owned, moves, changes, checked, churn>>

Room(w, n) == Capacity[w] = 0 \/ load[w] + n <= Capacity[w]

(* Times the capacity of v. *)
Share(w, v) == load[w] * (IF Capacity[v] = 0 THEN 1 ELSE Capacity[v])

(* pick_target: the least loaded worker with room, or else the least       *)
(* loaded for its capacity.                                                *)
Targets(n) ==
  LET fitting == {w \in views : Room(w, n)}
  IN IF fitting # {} THEN {w \in fitting : \A v \in fitting : load[w] <= load[v]}
     ELSE {w \in views : \A v \in views : Share(w, v) <= Share(v, w)}

(* The heaviest orphan goes first. *)
Failover(o, w) ==
  /\ pc = "failover" /\ o \in orphans /\ \A p \in orphans : Weight(p) <= Weight(o)
  /\ w \in Targets(Weight(o))
  /\ Give(o, w)
  /\ orphans' = orphans \ {o}
  /\ changes' = changes \cup {IF origin[o] = NoWorker THEN Assigned(o, w) ELSE Moved(o, origin[o], w)}
  /\ UNCHANGED <<dbVars, pc, readVars, todo, moves, checked, churn>>

Total == MapThenSumSet(LAMBDA w : load[w], views)

(* The most and the least loaded worker, too far from each other. *)
Apart(a, b) ==
  /\ a \in views /\ b \in views
  /\ \A v \in views : load[b] <= load[v] /\ load[v] <= load[a]
  /\ load[a] - load[b] > MinSpread
  /\ SpreadPart * Cardinality(views) * (load[a] - load[b]) > Total

(* Mutant: an org that only turns the spread around is moved too. *)
MovableBack(o, a, b) ==
  owned[o] = a /\ Weight(o) <= load[a] - load[b] /\ Room(b, Weight(o))

(* Mutant: the capacity is not looked at. *)
MovableAnywhere(o, a, b) == owned[o] = a /\ Weight(o) < load[a] - load[b]

Movable(o, a, b) ==
  owned[o] = a /\ Weight(o) < load[a] - load[b] /\ Room(b, Weight(o))

ChangesOf(o) == {c \in changes : c.org = o}

(* Mutant: an org that has failed over gets a second change. *)
RedirectTwice(o, a, b) == changes \cup {Moved(o, a, b)}

(* An org that has a change already keeps one, from where it was. *)
Redirect(o, a, b) ==
  (changes \ ChangesOf(o)) \cup
  {IF ChangesOf(o) = {} THEN Moved(o, a, b)
   ELSE IF origin[o] = NoWorker THEN Assigned(o, b) ELSE Moved(o, origin[o], b)}

Balancing == pc = "failover" /\ orphans = {}

Rebalance(o, a, b) ==
  /\ Balancing /\ known /\ moves > 0
  /\ Apart(a, b) /\ Movable(o, a, b)
  /\ \A p \in Org : Movable(p, a, b) => Weight(p) <= Weight(o)
  /\ load' = [load EXCEPT ![a] = @ - Weight(o), ![b] = @ + Weight(o)]
  /\ owned' = [owned EXCEPT ![o] = b]
  /\ changes' = Redirect(o, a, b)
  /\ moves' = moves - 1
  /\ UNCHANGED <<dbVars, pc, readVars, todo, orphans, checked, churn>>

(* No weights, no move left, balanced, or nothing that could move. *)
Planned ==
  /\ Balancing /\ pc' = "apply"
  /\ \/ ~known \/ moves = 0
     \/ ~\E a, b \in views : Apart(a, b)
     \/ \E a, b \in views : Apart(a, b) /\ ~\E o \in Org : Movable(o, a, b)
  /\ UNCHANGED <<dbVars, readVars, planVars, churn>>

-----------------------------------------------------------------------------
(* What a round writes. *)

(* insert_placement, move_placement: only what is still as it was read. *)
Apply(c) ==
  /\ pc = "apply" /\ checked = {} /\ c \in changes /\ c.kind # "release"
  /\ changes' = changes \ {c}
  /\ IF place[c.org] = c.from
     THEN place' = [place EXCEPT ![c.org] = c.to] /\ young' = young \cup {c.org}
     ELSE UNCHANGED <<place, young>>
  /\ UNCHANGED <<flows, ready, pc, readVars, todo, orphans, load, owned, moves, checked, churn>>

(* A release: the age that was read, and a new count. *)
Check(c) ==
  /\ pc = "apply" /\ checked = {} /\ c \in changes /\ c.kind = "release"
  /\ changes' = changes \ {c}
  /\ checked' = IF c.org \notin kept /\ flows[c.org] = 0 THEN {c} ELSE {}
  /\ UNCHANGED <<dbVars, pc, readVars, todo, orphans, load, owned, moves, churn>>

(* release_placement *)
Delete(c) ==
  /\ c \in checked /\ checked' = {}
  /\ IF place[c.org] = c.from
     THEN place' = [place EXCEPT ![c.org] = NoWorker] /\ young' = young \ {c.org}
     ELSE UNCHANGED <<place, young>>
  /\ UNCHANGED <<flows, ready, pc, readVars, todo, orphans, load, owned, moves, changes, churn>>

Reset ==
  /\ pc' = "sleep" /\ views' = {} /\ origin' = NoPlace /\ kept' = {}
  /\ known' = FALSE /\ count' = NoCount
  /\ todo' = {} /\ orphans' = {} /\ load' = NoLoad /\ owned' = NoPlace /\ moves' = 0
  /\ changes' = {} /\ checked' = {}

EndRound ==
  /\ pc = "apply" /\ changes = {} /\ checked = {}
  /\ Reset /\ UNCHANGED <<dbVars, stale, churn>>

(* A statement fails. *)
RoundFails ==
  /\ pc \in {"placements", "weights", "apply"} /\ Churn
  /\ Reset /\ UNCHANGED <<dbVars, stale>>

-----------------------------------------------------------------------------
(* What happens to the database meanwhile. The plan does not see it. *)

Meanwhile ==
  /\ pc \notin {"survey", "failover"} /\ Churn
  /\ UNCHANGED <<pc, readVars, planVars>>

(* A worker drains, dies or comes back. *)
WorkerTurns(w) ==
  /\ Meanwhile
  /\ ready' = IF w \in ready THEN ready \ {w} ELSE ready \cup {w}
  /\ UNCHANGED <<place, young, flows>>

(* ensure_owner: the first deploy of an org places it on a ready worker,   *)
(* one that had the fewest orgs at some moment.                            *)
EnsureOwner(o, w) ==
  /\ Meanwhile /\ place[o] = NoWorker /\ w \in ready
  /\ place' = [place EXCEPT ![o] = w] /\ young' = young \cup {o}
  /\ UNCHANGED <<flows, ready>>

(* A flow is deployed or undeployed, and the revision of the placement is  *)
(* bumped or about to be.                                                  *)
Deploy(o, n) ==
  /\ Meanwhile /\ (n = flows[o] + 1 \/ flows[o] = n + 1)
  /\ flows' = [flows EXCEPT ![o] = n]
  /\ \/ young' = young
     \/ place[o] # NoWorker /\ o \notin young /\ young' = young \cup {o}
  /\ UNCHANGED <<place, ready>>

(* A controller that has lost its lease still moves an org. *)
Elsewhere(o, w) ==
  /\ Meanwhile /\ place[o] \notin {NoWorker, w}
  /\ place' = [place EXCEPT ![o] = w] /\ young' = young \cup {o}
  /\ UNCHANGED <<flows, ready>>

(* release_grace_ms go by. *)
Aging ==
  /\ young # {} /\ young' = {}
  /\ UNCHANGED <<place, flows, ready, pc, readVars, planVars, churn>>

Round ==
  \/ ReadWorkers \/ ReadPlacements \/ ReadWeights
  \/ \E o \in Org : Survey(o)
  \/ Surveyed
  \/ \E o \in Org, w \in Worker : Failover(o, w)
  \/ \E o \in Org, a, b \in Worker : Rebalance(o, a, b)
  \/ Planned
  \/ \E c \in changes : Apply(c)
  \/ \E c \in changes : Check(c)
  \/ \E c \in checked : Delete(c)
  \/ EndRound

Disturbance ==
  \/ RoundFails
  \/ \E w \in Worker : WorkerTurns(w)
  \/ \E o \in Org, w \in Worker : EnsureOwner(o, w)
  \/ \E o \in Org : \E n \in 0 .. MaxWeight[o] : Deploy(o, n)
  \/ \E o \in Org, w \in Worker : Elsewhere(o, w)

Next == Round \/ Disturbance \/ Aging

Spec == Init /\ [][Next]_vars

(* A leader keeps ticking, and time passes. *)
LiveSpec == Spec /\ WF_vars(Round) /\ WF_vars(Aging)

-----------------------------------------------------------------------------

(* The plan moves each org at most once, from where it was read to where   *)
(* the plan counts it, and only orgs counted without flows are released:   *)
(* collapsing a failover and rebalancing moves loses nothing               *)
(* (placement.rs, "keep one change from the origin").                      *)
PlanMatches ==
  /\ \A c, d \in changes : c.org = d.org => c = d
  /\ \A c \in changes :
       /\ c.from = origin[c.org] /\ c.to = owned[c.org]
       /\ c.kind = "release" <=> c.to = NoWorker
       /\ c.kind = "release" => known /\ count[c.org] = 0
  /\ Balancing => \A o \in Org : owned[o] # origin[o] => ChangesOf(o) # {}

OldLoad(w) ==
  MapThenSumSet(Weight, {o \in Org : owned[o] # NoWorker /\ origin[o] = w})

(* The distance between the most and the least loaded worker. *)
Spread(f) ==
  LET span == {p \in views \X views : f[p[1]] >= f[p[2]]}
  IN Max({f[p[1]] - f[p[2]] : p \in span} \cup {0})

(* Balancing without a failover leaves the workers no further apart than   *)
(* it found them, and fills no worker past its capacity (plan).            *)
RebalancingHelps ==
  ((Balancing \/ pc = "apply") /\ known /\ \A o \in Org : owned[o] # NoWorker => origin[o] \in views) =>
    LET old == [w \in Worker |-> OldLoad(w)]
    IN /\ Spread(load) <= Spread(old)
       /\ \A w \in views : Capacity[w] # 0 => load[w] <= Max({Capacity[w], old[w]})

(* When workers and flows rest, placements do too: no org goes back and    *)
(* forth between workers forever (plan, tick).                             *)
Settles == \A o \in Org : \E w \in Worker \cup {NoWorker} : <>[](place[o] = w)

(* While a worker is ready, every org with deployed flows ends on a ready  *)
(* worker, whatever was read too early, released too late or failed, and   *)
(* an org without any ends without a placement (tick).                     *)
Served ==
  /\ <>[](ready # {}) => \A o \in Org : <>[](flows[o] > 0 => place[o] \in ready)
  /\ \A o \in Org : <>[](flows[o] = 0 => place[o] = NoWorker)
=============================================================================
