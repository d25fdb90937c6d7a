----------------------------- MODULE FlowCluster -----------------------------
(***************************************************************************)
(* How the flows of one organisation reach the one worker they are placed  *)
(* on (services/flow_cluster): the API pushes a candidate to the owner and *)
(* then marks the database and bumps the revision, the controller moves    *)
(* and releases the placement, and every worker reconciles its runtime     *)
(* with the placements and the database.                                   *)
(*                                                                         *)
(* Time is left out: a heartbeat may fail, a controller may find any       *)
(* worker dead and a timer may fire at any moment (module WorkerFence      *)
(* relates the delays).  The other orgs of a worker appear only through    *)
(* the deploys they cause.                                                 *)
(***************************************************************************)
EXTENDS Naturals

CONSTANTS
  Worker,   \* worker ids
  Node,     \* incarnations of workers (boots)
  IdOf,     \* the id of each incarnation
  Content,  \* what the deployed flows of the org project to
  Empty,    \* nothing deployed
  NoOwner,  \* no row in flow_placements
  NoNode,   \* no row in flow_workers
  MaxEpoch, \* bound on the epoch
  MaxRev,   \* bound on the revision
  MaxTries, \* attempts of apply_org
  MaxFaults, \* bound on the faults of the environment
  MaxReleases \* bound on the placements released

ASSUME IdAssumption == IdOf \in [Node -> Worker] /\ NoNode \notin Node /\ NoOwner \notin Worker
ASSUME ContentAssumption == Empty \in Content
ASSUME BoundAssumption ==
  MaxEpoch \in Nat \ {0} /\ MaxRev \in Nat /\ MaxTries \in Nat \ {0} /\ MaxFaults \in Nat /\ MaxReleases \in Nat

VARIABLES
  (* the database *)
  db,       \* deployed flows of the org
  place,    \* its row in flow_placements
  aged,     \* the row is older than release_grace_ms
  boot,     \* flow_workers.boot, per worker id
  (* the nodes *)
  life,     \* up, stopping (stopped is set), stopped (runtime halted), exited
  healthy,  \* the last heartbeat succeeded
  halted,   \* runtime killed by self-fencing
  frag,     \* WorkerState::frags of the org, Empty when absent
  seen,     \* WorkerState::seen of the org, NoVer when absent
  running,  \* what the runtime of the node was last given for the org
  lock,     \* the deploy that holds the state lock
  late,     \* its reconcile task passed its checks before they would fail
  jobs,     \* pushes received that wait for the state lock
  (* the API call that holds the deploy lock of the org *)
  cpc, kind, cand, tries,
  (* the controller *)
  idle,     \* owner of a placement found idle and about to be released
  faults,   \* faults so far: failed statements, lost answers, processes that stop
  (* history *)
  calm,     \* no call has failed, been given up or lost its bump
  releases  \* placements released

dbVars == <<db, place, aged, boot>>
stateVars == <<frag, seen, running>>
nodeVars == <<life, healthy, halted, stateVars, lock, late, jobs>>
callVars == <<cpc, kind, cand, tries>>
histVars == <<calm, releases>>
vars == <<dbVars, nodeVars, callVars, idle, faults, histVars>>

Ver == (0 .. MaxEpoch) \X (0 .. MaxRev)
NoVer == <<0, 0>>
NoRow == [owner |-> NoOwner, ver |-> NoVer]

Job == [frag : Content, live : BOOLEAN]
FreeLock == [by |-> "none", ver |-> NoVer, frag |-> Empty, live |-> FALSE]

TypeOK ==
  /\ db \in Content
  /\ place \in [owner : Worker \cup {NoOwner}, ver : Ver]
  /\ aged \in BOOLEAN
  /\ boot \in [Worker -> Node \cup {NoNode}]
  /\ life \in [Node -> {"off", "up", "stopping", "stopped", "exited"}]
  /\ healthy \in [Node -> BOOLEAN] /\ halted \in [Node -> BOOLEAN]
  /\ frag \in [Node -> Content] /\ seen \in [Node -> Ver] /\ running \in [Node -> Content]
  /\ lock \in [Node -> [by : {"none", "project", "reconcile", "apply"},
                        ver : Ver, frag : Content, live : BOOLEAN]]
  /\ late \in [Node -> BOOLEAN]
  /\ jobs \in [Node -> SUBSET Job]
  /\ cpc \in {"idle", "push", "wait", "mark", "bump"}
  /\ kind \in {"deploy", "delete"} /\ cand \in Content /\ tries \in 0 .. MaxTries - 1
  /\ idle \in Worker \cup {NoOwner}
  /\ faults \in 0 .. MaxFaults
  /\ calm \in BOOLEAN /\ releases \in 0 .. MaxReleases

Init ==
  /\ db = Empty /\ place = NoRow /\ aged = FALSE
  /\ boot = [w \in Worker |-> NoNode]
  /\ life = [n \in Node |-> "off"]
  /\ healthy = [n \in Node |-> TRUE] /\ halted = [n \in Node |-> FALSE]
  /\ frag = [n \in Node |-> Empty] /\ seen = [n \in Node |-> NoVer]
  /\ running = [n \in Node |-> Empty]
  /\ lock = [n \in Node |-> FreeLock]
  /\ late = [n \in Node |-> FALSE] /\ jobs = [n \in Node |-> {}]
  /\ cpc = "idle" /\ kind = "deploy" /\ cand = Empty /\ tries = 0
  /\ idle = NoOwner /\ faults = 0
  /\ calm = TRUE /\ releases = 0

-----------------------------------------------------------------------------
(* flow_placements *)

Placed == place.owner # NoOwner

(* What placements_of tells node n of the org. *)
OwnVer(n) == IF place.owner = IdOf[n] THEN place.ver ELSE NoVer

(* The revision may still be bumped k times, the bump of the call included. *)
Room(k) == place.ver[2] + k + (IF cpc = "idle" THEN 0 ELSE 1) <= MaxRev

(* Something fails that need not. *)
Fault == faults < MaxFaults /\ faults' = faults + 1

(* Every change of the row updates updated_at. *)
SetRow(row) == place' = row /\ aged' = FALSE

BumpRevision ==
  IF Placed
    THEN SetRow([place EXCEPT !.ver = <<@[1], @[2] + 1>>])
    ELSE UNCHANGED <<place, aged>>

Insert(w) == SetRow([owner |-> w, ver |-> <<1, 0>>])

(* release_grace_ms pass.  No call lasts that long. *)
Age ==
  /\ Placed /\ ~aged /\ cpc = "idle" /\ releases < MaxReleases
  /\ aged' = TRUE
  /\ UNCHANGED <<db, place, boot, nodeVars, callVars, idle, faults, histVars>>

(* The telemetry sink has provisioned the org: org_changed, without the    *)
(* deploy lock.                                                            *)
Provisioned ==
  /\ Placed /\ Room(1)
  /\ BumpRevision
  /\ UNCHANGED <<db, boot, nodeVars, callVars, idle, faults, histVars>>

-----------------------------------------------------------------------------
(* The controller.  Any worker may look dead, draining or overloaded.      *)

(* An org with flows and without placement. *)
Assign(w) ==
  /\ ~Placed /\ db # Empty /\ boot[w] # NoNode
  /\ Insert(w)
  /\ UNCHANGED <<db, boot, nodeVars, callVars, idle, faults, histVars>>

(* Failover, drain or rebalance. *)
Move(w) ==
  /\ Placed /\ place.owner # w /\ boot[w] # NoNode
  /\ place.ver[1] < MaxEpoch /\ Room(1)
  /\ SetRow([owner |-> w, ver |-> <<place.ver[1] + 1, place.ver[2] + 1>>])
  /\ UNCHANGED <<db, boot, nodeVars, callVars, idle, faults, histVars>>

(* The row is old and org_weight counts no deployed flow ... *)
FindIdle ==
  /\ Placed /\ aged /\ db = Empty
  /\ idle' = place.owner
  /\ UNCHANGED <<dbVars, nodeVars, callVars, faults, histVars>>

(* ... and then the row is deleted, if it still has the same owner. *)
Release ==
  /\ idle # NoOwner
  /\ idle' = NoOwner
  /\ IF place.owner = idle
       THEN SetRow(NoRow) /\ releases' = releases + 1
       ELSE UNCHANGED <<place, aged, releases>>
  /\ UNCHANGED <<db, boot, nodeVars, callVars, faults, calm>>

-----------------------------------------------------------------------------
(* The life of a node. *)

Start(n) ==
  /\ life[n] = "off"
  /\ life' = [life EXCEPT ![n] = "up"]
  /\ boot' = [boot EXCEPT ![IdOf[n]] = n]
  /\ UNCHANGED <<db, place, aged, healthy, halted, stateVars, lock, late, jobs,
                 callVars, idle, faults, histVars>>

Registered(n) == boot[IdOf[n]] = n

Heartbeat(n) ==
  /\ life[n] = "up" /\ Registered(n)
  /\ healthy' = [healthy EXCEPT ![n] = TRUE]
  /\ UNCHANGED <<dbVars, life, halted, stateVars, lock, late, jobs, callVars, idle, faults, histVars>>

(* The reconcile task may be waiting for the state lock already. *)
StayLate(n) ==
  late' \in {late, [late EXCEPT ![n] = @ \/ (healthy[n] /\ lock[n].by \in {"none", "apply"})]}

HeartbeatFails(n) ==
  /\ life[n] = "up" /\ healthy[n] /\ Fault
  /\ healthy' = [healthy EXCEPT ![n] = FALSE]
  /\ StayLate(n)
  /\ UNCHANGED <<dbVars, life, halted, stateVars, lock, jobs, callVars, idle, histVars>>

Unlock(n) == lock' = [lock EXCEPT ![n] = FreeLock]

(* The runtime of n is halted and what n knew of the org forgotten. *)
Forget(n) ==
  /\ running' = [running EXCEPT ![n] = Empty]
  /\ frag' = [frag EXCEPT ![n] = Empty]
  /\ seen' = [seen EXCEPT ![n] = NoVer]

(* self_fence: the heartbeat has been failing for self_fence_ms. *)
SelfFence(n) ==
  /\ life[n] = "up" /\ ~healthy[n] /\ ~halted[n] /\ lock[n].by = "none"
  /\ halted' = [halted EXCEPT ![n] = TRUE]
  /\ Forget(n)
  /\ UNCHANGED <<dbVars, life, healthy, lock, late, jobs, callVars, idle, faults, histVars>>

(* stop_permanently: the heartbeat finds another boot, or a shutdown. *)
Stop(n) ==
  /\ life[n] = "up"
  /\ IF Registered(n) THEN Fault ELSE UNCHANGED faults
  /\ life' = [life EXCEPT ![n] = "stopping"]
  /\ StayLate(n)
  /\ UNCHANGED <<dbVars, healthy, halted, stateVars, lock, jobs, callVars, idle, histVars>>

(* stop_permanently once it has the state lock. *)
StopLocked(n) ==
  /\ life[n] = "stopping" /\ lock[n].by = "none"
  /\ life' = [life EXCEPT ![n] = "stopped"]
  /\ Forget(n)
  /\ UNCHANGED <<dbVars, healthy, halted, lock, late, jobs, callVars, idle, faults, histVars>>

(* The end of a shutdown: only the row of its own boot goes. *)
Deregister(n) ==
  /\ life[n] = "stopped" /\ Registered(n)
  /\ boot' = [boot EXCEPT ![IdOf[n]] = NoNode]
  /\ UNCHANGED <<db, place, aged, nodeVars, callVars, idle, faults, histVars>>

(* Mutant: the supervisor that goes leaves its runtime behind. *)
DropOrphans(n) ==
  /\ life[n] = "stopped" /\ ~late[n] /\ lock[n].by = "none" /\ jobs[n] = {}
  /\ life' = [life EXCEPT ![n] = "exited"]
  /\ UNCHANGED <<dbVars, healthy, halted, stateVars, lock, late, jobs, callVars, idle, faults, histVars>>

(* The last handle on a stopped node is dropped, and with it its           *)
(* supervisor, whose runtime is killed.                                    *)
Drop(n) ==
  /\ life[n] = "stopped" /\ ~late[n] /\ lock[n].by = "none" /\ jobs[n] = {}
  /\ life' = [life EXCEPT ![n] = "exited"]
  /\ Forget(n)
  /\ UNCHANGED <<dbVars, healthy, halted, lock, late, jobs, callVars, idle, faults, histVars>>

(* The process dies, and its runtime with it (PR_SET_PDEATHSIG). *)
Crash(n) ==
  /\ life[n] \in {"up", "stopping", "stopped"} /\ Fault
  /\ life' = [life EXCEPT ![n] = "exited"]
  /\ Forget(n)
  /\ Unlock(n)
  /\ late' = [late EXCEPT ![n] = FALSE]
  /\ jobs' = [jobs EXCEPT ![n] = {}]
  /\ UNCHANGED <<dbVars, healthy, halted, callVars, idle, histVars>>

-----------------------------------------------------------------------------
(* reconcile *)

(* The task checks that n is not stopped and healthy before it waits for   *)
(* the state lock, not after.                                              *)
MayReconcile(n) == late[n] \/ (life[n] = "up" /\ healthy[n])

(* Mutant: a full resync does not reproject. *)
ChangedSinceSeen(n, want, full) == want # NoVer /\ seen[n] # want

Changed(n, want, full) == want # NoVer /\ (full \/ seen[n] # want)

Removed(n, want) == want = NoVer /\ frag[n] # Empty

(* Mutant: an org that left stays in the fragments. *)
KeptAll(n, want) == frag[n]

(* What remains of the org if it is not projected again. *)
Kept(n, want) == IF want = NoVer THEN Empty ELSE frag[n]

(* The state lock is taken and the placements read.  A full resync may be  *)
(* due, and the other orgs of n may have changed: nothing to do, or the    *)
(* org is to be projected, or a deploy of what n has or without the org.   *)
ReconcileRead(n, full) ==
  /\ MayReconcile(n) /\ lock[n].by = "none"
  /\ late' = [late EXCEPT ![n] = FALSE]
  /\ halted[n] => full
  /\ \E others \in BOOLEAN :
       LET want == OwnVer(n)
           project == Changed(n, want, full)
       IN IF project \/ Removed(n, want) \/ full \/ others
            THEN lock' = [lock EXCEPT ![n] =
                   [by |-> IF project THEN "project" ELSE "reconcile",
                    ver |-> want, frag |-> Kept(n, want), live |-> FALSE]]
            ELSE UNCHANGED lock
  /\ UNCHANGED <<dbVars, life, healthy, halted, stateVars, jobs, callVars, idle, faults, histVars>>

(* The placements cannot be read. *)
ReconcileReadFails(n) ==
  /\ MayReconcile(n) /\ lock[n].by = "none" /\ Fault
  /\ late' = [late EXCEPT ![n] = FALSE]
  /\ UNCHANGED <<dbVars, life, healthy, halted, stateVars, lock, jobs, callVars, idle, histVars>>

(* project_org *)
ReconcileProject(n) ==
  /\ lock[n].by = "project"
  /\ lock' = [lock EXCEPT ![n].by = "reconcile", ![n].frag = db]
  /\ UNCHANGED <<dbVars, life, healthy, halted, stateVars, late, jobs, callVars, idle, faults, histVars>>

(* The artifact has been handed to the supervisor. *)
ReconcileDone(n) ==
  /\ lock[n].by = "reconcile"
  /\ running' = [running EXCEPT ![n] = lock[n].frag]
  /\ frag' = [frag EXCEPT ![n] = lock[n].frag]
  /\ seen' = [seen EXCEPT ![n] = lock[n].ver]
  /\ halted' = [halted EXCEPT ![n] = FALSE]
  /\ Unlock(n)
  /\ UNCHANGED <<dbVars, life, healthy, late, jobs, callVars, idle, faults, histVars>>

(* A failed deploy may have reached the runtime all the same, if one is up. *)
MayHaveDeployed(n) ==
  \/ UNCHANGED running
  \/ ~halted[n] /\ running' = [running EXCEPT ![n] = lock[n].frag]

ReconcileFails(n) ==
  /\ Fault
  /\ \/ lock[n].by = "project" /\ UNCHANGED running
     \/ lock[n].by = "reconcile" /\ MayHaveDeployed(n)
  /\ Unlock(n)
  /\ UNCHANGED <<dbVars, life, healthy, halted, frag, seen, late, jobs, callVars, idle, histVars>>

(* Another org of n is applied: the merged artifact has the fragment that  *)
(* n keeps for this org.                                                   *)
OtherOrgApplied(n) ==
  /\ life[n] = "up" /\ ~halted[n] /\ lock[n].by = "none" /\ running[n] # frag[n]
  /\ running' = [running EXCEPT ![n] = frag[n]]
  /\ UNCHANGED <<dbVars, life, healthy, halted, frag, seen, lock, late, jobs,
                 callVars, idle, faults, histVars>>

-----------------------------------------------------------------------------
(* The API call: deploy, stop or delete under the deploy lock of the org.  *)
(* A stop is a deploy of less.                                             *)

EndCall == cpc' = "idle" /\ kind' = "deploy" /\ cand' = Empty /\ tries' = 0

At(pc) == cpc' = pc /\ UNCHANGED <<kind, cand, tries>>

(* A call that ends otherwise than with its bump has failed. *)
Calmly == calm' = (calm /\ (cpc' = "idle" => cpc \in {"idle", "bump"}))

(* The push failed for good: a delete goes on, it only logs the error. *)
PushFailed == IF kind = "deploy" THEN EndCall ELSE At("bump")

(* Mutant: no limit on the attempts. *)
PushForEver == cpc' = "push" /\ tries' = tries + 1 /\ UNCHANGED <<kind, cand>>

(* The owner is gone or unreachable: a few attempts. *)
PushAgain ==
  IF tries + 1 < MaxTries
    THEN cpc' = "push" /\ tries' = tries + 1 /\ UNCHANGED <<kind, cand>>
    ELSE PushFailed

Acknowledged == IF kind = "deploy" THEN At("mark") ELSE At("bump")

Begin(what) ==
  /\ cpc = "idle" /\ Room(1)
  /\ cpc' = "push" /\ kind' = what /\ tries' = 0
  /\ cand' \in Content \ {db}

(* Deploy and stop project a candidate. *)
CallBegin ==
  /\ Begin("deploy")
  /\ UNCHANGED <<dbVars, nodeVars, idle, faults, histVars>>

(* A delete changes the database before it projects and pushes. *)
DeleteBegin ==
  /\ db # Empty
  /\ Begin("delete") /\ db' = cand'
  /\ UNCHANGED <<place, aged, boot, nodeVars, idle, faults, histVars>>

(* ensure_owner: the org is placed on some worker. *)
CallPlaces(w) ==
  /\ cpc = "push" /\ ~Placed /\ boot[w] # NoNode
  /\ Insert(w)
  /\ UNCHANGED <<db, boot, nodeVars, callVars, idle, faults, histVars>>

(* No live worker, or the database fails. *)
CallNotRouted ==
  /\ cpc = "push"
  /\ \/ ~Placed /\ (\A w \in Worker : boot[w] = NoNode) /\ UNCHANGED faults
     \/ Fault
  /\ PushFailed /\ Calmly
  /\ UNCHANGED <<dbVars, nodeVars, idle, releases>>

(* transport::apply: the push goes to a node with the owner's id that has   *)
(* not stopped: one in the process of the caller, even a superseded one     *)
(* that does not know it yet, or else the registered one, if it is up.      *)
CallPushes ==
  /\ cpc = "push" /\ Placed
  /\ \/ \E n \in Node :
          /\ IdOf[n] = place.owner /\ life[n] = "up"
          /\ jobs' = [jobs EXCEPT ![n] = @ \cup {[frag |-> cand, live |-> TRUE]}]
          /\ At("wait")
     \/ /\ \A n \in Node : (Registered(n) /\ life[n] = "up") => IdOf[n] # place.owner
        /\ PushAgain /\ UNCHANGED jobs
  /\ Calmly
  /\ UNCHANGED <<dbVars, life, healthy, halted, stateVars, lock, late, idle, faults, releases>>

CallMarks ==
  /\ cpc = "mark"
  /\ db' = cand /\ At("bump") /\ Calmly
  /\ UNCHANGED <<place, aged, boot, nodeVars, idle, faults, releases>>

(* Mutant: org_changed is forgotten. *)
CallEndsUnbumped ==
  /\ cpc = "bump"
  /\ EndCall /\ Calmly
  /\ UNCHANGED <<dbVars, nodeVars, idle, faults, releases>>

CallBumps ==
  /\ cpc = "bump"
  /\ BumpRevision /\ EndCall /\ Calmly
  /\ UNCHANGED <<db, boot, nodeVars, idle, faults, releases>>

(* The call awaits the answer to a push. *)
Awaited == \E n \in Node : lock[n].live \/ \E j \in jobs[n] : j.live

(* Nobody awaits the pushes under way any more. *)
Detach ==
  /\ jobs' = [n \in Node |-> {[j EXCEPT !.live = FALSE] : j \in jobs[n]}]
  /\ lock' = [n \in Node |-> [lock[n] EXCEPT !.live = FALSE]]
  /\ UNCHANGED <<life, healthy, halted, stateVars, late>>

(* request_timeout_ms, or the connection breaks: the owner is unreachable. *)
CallTimesOut ==
  /\ cpc = "wait" /\ Awaited /\ Fault
  /\ PushAgain
  /\ calm' = FALSE
  /\ Detach
  /\ UNCHANGED <<dbVars, idle, releases>>

(* The process of the owner dies. *)
CallLosesOwner ==
  /\ cpc = "wait" /\ ~Awaited
  /\ PushAgain /\ Calmly
  /\ UNCHANGED <<dbVars, nodeVars, idle, faults, releases>>

(* The pod of the call dies, its client leaves, or the database refuses    *)
(* the mark or the bump.                                                   *)
CallAborts ==
  /\ cpc # "idle" /\ Fault
  /\ EndCall /\ calm' = FALSE
  /\ Detach
  /\ UNCHANGED <<dbVars, idle, releases>>

-----------------------------------------------------------------------------
(* apply_org, on the node. *)

(* Only an answer that is awaited moves the call. *)
Answer(live, outcome) == (IF live THEN outcome ELSE UNCHANGED callVars) /\ Calmly

Taken(n, j) == jobs' = [jobs EXCEPT ![n] = @ \ {j}]

(* The push has the state lock and the org is placed on n. *)
ApplyBegin(n) ==
  /\ lock[n].by = "none" /\ OwnVer(n) # NoVer /\ ~halted[n]
  /\ \E j \in jobs[n] :
       /\ Taken(n, j)
       /\ lock' = [lock EXCEPT ![n] =
            [by |-> "apply", ver |-> OwnVer(n), frag |-> j.frag, live |-> j.live]]
  /\ UNCHANGED <<dbVars, life, healthy, halted, stateVars, late, callVars, idle, faults, histVars>>

(* NotOwner, or the placement cannot be read. *)
ApplyRefused(n) ==
  /\ lock[n].by = "none"
  /\ \E j \in jobs[n] :
       /\ Taken(n, j)
       /\ \/ (OwnVer(n) = NoVer \/ halted[n]) /\ Answer(j.live, PushAgain) /\ UNCHANGED faults
          \/ Answer(j.live, PushFailed) /\ Fault
  /\ UNCHANGED <<dbVars, life, healthy, halted, stateVars, lock, late, idle, releases>>

(* The runtime has acknowledged the candidate. *)
ApplyDone(n) ==
  /\ lock[n].by = "apply"
  /\ running' = [running EXCEPT ![n] = lock[n].frag]
  /\ frag' = [frag EXCEPT ![n] = lock[n].frag]
  /\ seen' = [seen EXCEPT ![n] = lock[n].ver]
  /\ Unlock(n)
  /\ Answer(lock[n].live, Acknowledged)
  /\ UNCHANGED <<dbVars, life, healthy, halted, late, jobs, idle, faults, releases>>

(* The pre-flight or the runtime rejects it, or does not answer. *)
ApplyFails(n) ==
  /\ lock[n].by = "apply" /\ Fault
  /\ MayHaveDeployed(n)
  /\ Unlock(n)
  /\ Answer(lock[n].live, PushFailed)
  /\ UNCHANGED <<dbVars, life, healthy, halted, frag, seen, late, jobs, idle, releases>>

(* The connection of a push nobody awaits is closed: it is dropped before  *)
(* it has the lock.                                                        *)
ApplyCancelled(n) ==
  /\ \E j \in jobs[n] : ~j.live /\ Taken(n, j)
  /\ UNCHANGED <<dbVars, life, healthy, halted, stateVars, lock, late, callVars, idle, faults, histVars>>

-----------------------------------------------------------------------------
NodeLife(n) ==
  \/ Start(n)
  \/ Heartbeat(n) \/ HeartbeatFails(n)
  \/ SelfFence(n)
  \/ Stop(n) \/ StopLocked(n) \/ Deregister(n) \/ Drop(n) \/ Crash(n)

Reconcile(n) ==
  \/ \E full \in BOOLEAN : ReconcileRead(n, full)
  \/ ReconcileReadFails(n)
  \/ ReconcileProject(n)
  \/ ReconcileDone(n) \/ ReconcileFails(n)

Apply(n) ==
  \/ ApplyBegin(n) \/ ApplyRefused(n)
  \/ ApplyDone(n) \/ ApplyFails(n)
  \/ ApplyCancelled(n)
  \/ OtherOrgApplied(n)

Call ==
  \/ CallBegin \/ DeleteBegin
  \/ \E w \in Worker : CallPlaces(w)
  \/ CallNotRouted
  \/ CallPushes \/ CallTimesOut \/ CallLosesOwner
  \/ CallMarks \/ CallBumps
  \/ CallAborts

Controller ==
  \/ \E w \in Worker : Assign(w) \/ Move(w)
  \/ FindIdle \/ Release

Next ==
  \/ \E n \in Node : NodeLife(n) \/ Reconcile(n) \/ Apply(n)
  \/ Call
  \/ Controller
  \/ Age \/ Provisioned

Spec == Init /\ [][Next]_vars

(***************************************************************************)
(* Fairness: a deploy that holds the state lock goes on, and a full resync *)
(* comes due again and again and gets the lock, which is fair ...          *)
(***************************************************************************)
ReconcileFairness ==
  \A n \in Node :
    /\ WF_vars(ReconcileProject(n)) /\ WF_vars(ReconcileDone(n)) /\ WF_vars(ApplyDone(n))
    /\ SF_vars(ReconcileRead(n, TRUE))

(* ... a push or a stop gets the lock, a superseded node notices it, and   *)
(* the call goes on.                                                       *)
Fairness ==
  /\ ReconcileFairness
  /\ \A n \in Node :
       /\ SF_vars(ApplyBegin(n) \/ ApplyRefused(n))
       /\ WF_vars(Stop(n) /\ ~Registered(n))
       /\ SF_vars(StopLocked(n)) /\ WF_vars(Drop(n))
  /\ WF_vars(CallPushes) /\ WF_vars(CallLosesOwner)
  /\ WF_vars(CallMarks) /\ WF_vars(CallBumps)

ReconcileSpec == Spec /\ ReconcileFairness
LiveSpec == Spec /\ Fairness

-----------------------------------------------------------------------------
(* Node n is the owner, idle, and up to date by its own account. *)
UpToDate(n) ==
  /\ life[n] = "up" /\ ~halted[n] /\ lock[n].by = "none"
  /\ OwnVer(n) # NoVer /\ seen[n] = OwnVer(n)

(* A revision the owner has seen stands for the content of the database:   *)
(* as long as no call failed and no placement was released, an owner that  *)
(* has nothing to do runs what the database says, whatever moves, resyncs, *)
(* bumps and self-fencing interleave with the calls (the order push, mark, *)
(* bump of lifecycle.rs and the early return of WorkerNode::reconcile).    *)
SeenIsApplied ==
  \A n \in Node :
    (UpToDate(n) /\ cpc = "idle" /\ calm /\ releases = 0)
      => (running[n] = db /\ frag[n] = db)

(* Whatever failed before - a deploy that was not acknowledged, a lost     *)
(* bump, a call that died between its steps, self-fencing, a placement     *)
(* released and created again - an owner that stays registered and healthy *)
(* ends up running what the database says (the full resync of reconcile).  *)
Converges ==
  \A n \in Node :
    <>[](life[n] = "up" /\ healthy[n] /\ OwnVer(n) # NoVer /\ cpc = "idle")
      => <>[](running[n] = db)

(* A worker the org has left stops running it: the double run of a move    *)
(* ends (the removals of reconcile).  Its own reconcile sees to that,      *)
(* whatever becomes of the calls: ReconcileSpec is enough.                 *)
OldOwnerLeaves ==
  \A n \in Node :
    <>[](life[n] = "up" /\ healthy[n] /\ OwnVer(n) = NoVer)
      => <>[](running[n] = Empty)

(* A worker that is superseded or shut down ends dark for good, even when  *)
(* a reconcile or a push was waiting for its lock (stop_permanently and    *)
(* the drop of the supervisor).                                            *)
EndsDark == \A n \in Node : life[n] = "stopping" ~> [](running[n] = Empty)

-----------------------------------------------------------------------------
(* What the comments of the code promise and the code does not keep. *)

(* worker.rs:8-9: the worker reprojects "the orgs added, moved or whose    *)
(* `revision` changed".  An org released and placed again restarts at      *)
(* (1, 0), and a worker that kept its old seen takes a later (epoch,       *)
(* revision) for one it has projected: it is the owner of an org with      *)
(* deployed flows and has nothing of it.                                   *)
OwnerReprojects ==
  \A n \in Node : (UpToDate(n) /\ cpc = "idle" /\ calm /\ db # Empty) => frag[n] # Empty

(* worker.rs:14-16: apply and tick "are serialized by the state mutex, so  *)
(* a reconcile computed from the database can never overwrite a pushed     *)
(* candidate mid-flight", before the API has marked it.                    *)
CandidateKept ==
  [][(cpc = "mark" /\ cpc' = "mark")
       => \A n \in Node :
            (ReconcileDone(n) /\ OwnVer(n) # NoVer /\ running[n] = cand)
              => running'[n] = cand]_vars

(* worker.rs:5: "superseded => permanent fence".  A reconcile or a push    *)
(* that waited for the state lock starts the runtime of a stopped worker.  *)
StoppedStaysDark == \A n \in Node : life[n] = "stopped" => running[n] = Empty

(* controller.rs:123-127: "a deploy in flight (placement created, database *)
(* not marked yet) keeps its placement".                                   *)
InFlightKeepsPlacement == [][(Placed /\ ~Placed') => cpc = "idle"]_vars

(* flow-engine.md:484, drain: "Rolling update sans double exécution".  The *)
(* new owner of a move starts before the old one has seen that it is gone. *)
NoDoubleRun == \A m, n \in Node : (running[m] # Empty /\ running[n] # Empty) => m = n
=============================================================================
