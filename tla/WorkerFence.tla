----------------------------- MODULE WorkerFence -----------------------------
(***************************************************************************)
(* Self-fencing of a flow worker against the failover of the controller:   *)
(* a worker that cannot heartbeat kills its runtime, and the controller    *)
(* gives its orgs to another worker once its row is older than             *)
(* worker_ttl_ms.  Nothing but time orders the two.                        *)
(*                                                                         *)
(* Time is discrete and kept as ages.  An age stops growing at Horizon:    *)
(* beyond the TTL all instants are alike.  The delays of the environment   *)
(* (a database call, the deploys ahead of self-fencing in the queue of the *)
(* state lock, the difference of the clocks) are parameters.               *)
(* The worker keeps its identity: supersession and shutdown are left out.  *)
(***************************************************************************)
EXTENDS Integers

CONSTANTS
  Period,    \* heartbeat_ms, the sleep between two heartbeats
  SelfFence, \* self_fence_ms
  Ttl,       \* worker_ttl_ms
  CallMax,   \* longest heartbeat call, until its reply or its error
  LockMax,   \* longest time a deploy, and those queued behind it ahead of
             \* self-fencing, hold the state lock
  Skew       \* how far the clock of the controller is ahead of the worker's

ASSUME DelayAssumption ==
  /\ Period \in Nat /\ CallMax \in Nat /\ LockMax \in Nat /\ Skew \in Nat
  /\ SelfFence \in Nat \ {0} /\ Ttl \in Nat

(* ClusterSettings::sanitized *)
ASSUME SanitizedAssumption == SelfFence < Ttl

VARIABLES
  rowAge,  \* age of flow_workers.heartbeat_at
  silence, \* age of last_heartbeat_ok
  hb,      \* the heartbeat task: asleep, in its call, or waiting to fence
  hbTime,  \* how long it has been asleep or in its call
  written, \* the statement of the call has been executed
  healthy, \* the last heartbeat succeeded
  halted,  \* WorkerState::halted
  queued,  \* the reconcile task found the worker healthy and waits for the state lock
  lock,    \* who holds the state lock
  lockAge, \* for how long, the deploys before it included while self-fencing waits
  mine,    \* the deploy under the lock found the org placed on this worker
  running, \* the runtime of this worker runs the flows of the org
  view,    \* the current round of the controller has read the row as dead
  moved,   \* the controller has given the org to another worker
  back,    \* history: a heartbeat succeeded since the controller read the row
  raced    \* history: the org was moved although the worker was back

hbVars == <<silence, hb, hbTime, written, healthy>>
lockVars == <<queued, lock, lockAge, mine>>
ctlVars == <<view, moved, raced>>
vars == <<rowAge, hbVars, halted, lockVars, running, ctlVars, back>>

Horizon == Ttl + 1
Age == 0 .. Horizon
Older(a) == IF a < Horizon THEN a + 1 ELSE a

ClocksOK ==
  /\ rowAge \in Age /\ silence \in Age
  /\ hb \in {"sleep", "call", "fence"}
  /\ hbTime \in Nat
  /\ hb = "sleep" => hbTime <= Period
  /\ hb = "call" => hbTime <= CallMax
  /\ hb = "fence" => hbTime = 0
  /\ lock \in {"free", "reconcile", "apply"}
  /\ lockAge \in 0 .. LockMax

FlagsOK ==
  /\ written \in BOOLEAN /\ healthy \in BOOLEAN /\ halted \in BOOLEAN
  /\ queued \in BOOLEAN /\ mine \in BOOLEAN /\ running \in BOOLEAN
  /\ view \in BOOLEAN /\ moved \in BOOLEAN /\ back \in BOOLEAN /\ raced \in BOOLEAN

TypeOK == ClocksOK /\ FlagsOK

(* start: registered by a call that took some time, first heartbeat due. *)
Init ==
  /\ rowAge \in {a \in Age : a <= CallMax} /\ silence = 0
  /\ hb = "sleep" /\ hbTime = Period /\ written = FALSE
  /\ healthy = TRUE /\ halted = FALSE
  /\ queued = FALSE /\ lock = "free" /\ lockAge = 0 /\ mine = FALSE
  /\ running = FALSE
  /\ view = FALSE /\ moved = FALSE /\ back = FALSE /\ raced = FALSE

-----------------------------------------------------------------------------
(* The heartbeat task. *)

(* The sleep is over: heartbeat_once calls store::heartbeat, which takes   *)
(* the instant it will write.                                              *)
Beat ==
  /\ hb = "sleep" /\ hbTime = Period
  /\ hb' = "call" /\ hbTime' = 0 /\ written' = FALSE
  /\ UNCHANGED <<rowAge, silence, healthy, halted, lockVars, running, ctlVars, back>>

(* The database executes the statement: the row is as old as the call. *)
Written ==
  /\ hb = "call" /\ ~written
  /\ written' = TRUE
  /\ rowAge' = IF hbTime < Horizon THEN hbTime ELSE Horizon
  /\ UNCHANGED <<silence, hb, hbTime, healthy, halted, lockVars, running, ctlVars, back>>

(* Ok(true) *)
ReplyOk ==
  /\ hb = "call" /\ written
  /\ silence' = 0 /\ healthy' = TRUE
  /\ hb' = "sleep" /\ hbTime' = 0
  /\ back' = TRUE
  /\ UNCHANGED <<rowAge, written, halted, lockVars, running, ctlVars>>

(* Mutant: silent > self_fence_ms. *)
ReplyErrLate ==
  /\ hb = "call"
  /\ healthy' = FALSE
  /\ hb' = IF silence > SelfFence THEN "fence" ELSE "sleep"
  /\ hbTime' = 0
  /\ UNCHANGED <<rowAge, silence, written, halted, lockVars, running, ctlVars, back>>

(* Mutant: the beats are counted from the beginning of the call. *)
ReplyErrInterval ==
  /\ hb = "call"
  /\ healthy' = FALSE
  /\ hb' = IF silence >= SelfFence THEN "fence" ELSE "sleep"
  /\ UNCHANGED <<rowAge, silence, hbTime, written, halted, lockVars, running, ctlVars, back>>

(* Err: the silence is looked at now, and only now. *)
ReplyErr ==
  /\ hb = "call"
  /\ healthy' = FALSE
  /\ hb' = IF silence >= SelfFence THEN "fence" ELSE "sleep"
  /\ hbTime' = 0
  /\ UNCHANGED <<rowAge, silence, written, halted, lockVars, running, ctlVars, back>>

(* self_fence, once it has the state lock: a reconcile waiting for the     *)
(* lock was there first, its check precedes the failed call.               *)
Fence ==
  /\ hb = "fence" /\ lock = "free" /\ ~queued
  /\ halted' = TRUE /\ running' = FALSE
  /\ hb' = "sleep" /\ lockAge' = 0
  /\ UNCHANGED <<rowAge, silence, hbTime, written, healthy, queued, lock, mine, ctlVars, back>>

-----------------------------------------------------------------------------
(* Deploys.  The state lock is fair: self_fence waits for those queued     *)
(* ahead of it, and LockMax bounds the time of all of them.                *)

(* The round of the reconcile task: healthy is read before the lock is     *)
(* waited for, and may be stale when it is granted.                        *)
ReconcileCheck ==
  /\ healthy /\ ~queued /\ lock # "reconcile"
  /\ queued' = TRUE
  /\ UNCHANGED <<rowAge, hbVars, halted, lock, lockAge, mine, running, ctlVars, back>>

Begin(who) ==
  /\ lock = "free"
  /\ lock' = who /\ mine' = ~moved
  /\ UNCHANGED <<rowAge, hbVars, halted, lockAge, running, ctlVars, back>>

(* reconcile: placements read under the lock. *)
ReconcileBegin == queued /\ queued' = FALSE /\ Begin("reconcile")

(* apply_org: refused when halted or when the org is placed elsewhere. *)
ApplyBegin == ~halted /\ ~moved /\ UNCHANGED queued /\ Begin("apply")

Unlock ==
  /\ lock # "free" /\ lock' = "free"
  /\ lockAge' = IF hb = "fence" THEN lockAge ELSE 0
  /\ UNCHANGED <<queued, mine>>

(* The deploy is done: the runtime runs the org, or not any more. *)
DeployDone ==
  /\ Unlock
  /\ running' = mine
  /\ halted' = IF lock = "reconcile" THEN FALSE ELSE halted
  /\ UNCHANGED <<rowAge, hbVars, ctlVars, back>>

(* The deploy failed.  The runtime is as before, or, when one is up, it    *)
(* has read the new artifact all the same.                                 *)
DeployFailed ==
  /\ Unlock
  /\ running' \in IF halted THEN {running} ELSE {running, mine}
  /\ UNCHANGED <<rowAge, hbVars, halted, ctlVars, back>>

-----------------------------------------------------------------------------
(* A round of the placement controller. *)

(* It reads the row: older than the TTL. *)
DeclareDead ==
  /\ ~view /\ ~moved /\ rowAge + Skew > Ttl
  /\ view' = TRUE /\ back' = FALSE
  /\ UNCHANGED <<rowAge, hbVars, halted, lockVars, running, moved, raced>>

(* It moves the org, on condition that it still is placed on this worker:  *)
(* the row is not read again.                                              *)
Failover ==
  /\ view /\ ~moved
  /\ view' = FALSE /\ moved' = TRUE /\ raced' = back
  /\ UNCHANGED <<rowAge, hbVars, halted, lockVars, running, back>>

(* The round ends without a move: no worker to move to, move budget spent, *)
(* database error.                                                         *)
RoundOver ==
  /\ view
  /\ view' = FALSE
  /\ UNCHANGED <<rowAge, hbVars, halted, lockVars, running, moved, back, raced>>

-----------------------------------------------------------------------------
(* Nothing is due: the sleep, the call and the deploys have time left, and *)
(* the lock is taken while someone waits for it.                           *)
MayWait ==
  /\ hb = "sleep" => hbTime < Period
  /\ hb = "call" => hbTime < CallMax
  /\ (hb = "fence" \/ queued) => lock # "free"
  /\ lock # "free" => lockAge < LockMax

Tick ==
  /\ MayWait
  /\ rowAge' = Older(rowAge) /\ silence' = Older(silence)
  /\ hbTime' = IF hb = "fence" THEN hbTime ELSE hbTime + 1
  /\ lockAge' = IF lock = "free" THEN lockAge ELSE lockAge + 1
  /\ UNCHANGED <<hb, written, healthy, halted, queued, lock, mine, running, ctlVars, back>>

Next ==
  \/ Beat \/ Written \/ ReplyOk \/ ReplyErr \/ Fence
  \/ ReconcileCheck \/ ReconcileBegin \/ ApplyBegin \/ DeployDone \/ DeployFailed
  \/ DeclareDead \/ Failover \/ RoundOver
  \/ Tick

Spec == Init /\ [][Next]_vars

-----------------------------------------------------------------------------
(* The delays fit between self_fence_ms and worker_ttl_ms: one more round  *)
(* of the heartbeat task, the call that wrote the row last, the call that  *)
(* fails, and the lock.                                                    *)
Budget == (SelfFence - 1) + Period + 2 * CallMax + LockMax + Skew <= Ttl

(* The org is never given to another worker while this one runs it, and a  *)
(* worker that lost it does not run it again; except when the worker came  *)
(* back between the read and the move of one round of the controller.      *)
DownBeforeMove == (moved /\ ~raced) => ~running

(***************************************************************************)
(* The inductive invariant: the row is not much older than the silence,    *)
(* and as long as the runtime may run, the silence is bounded by what the  *)
(* heartbeat task is doing.                                                *)
(***************************************************************************)
RowFollows ==
  /\ rowAge <= silence + CallMax
  /\ (hb = "call" /\ written) => rowAge <= hbTime

(* The runtime runs, or may be started without another heartbeat. *)
MayRun == healthy \/ ~halted \/ queued \/ lock # "free" \/ running

SilenceBounded ==
  /\ hb = "fence" => ~healthy
  /\ MayRun =>
       /\ hb = "sleep" => silence <= (SelfFence - 1) + hbTime
       /\ hb = "call" => silence <= (SelfFence - 1) + Period + hbTime
       /\ hb = "fence" => silence <= (SelfFence - 1) + Period + CallMax + lockAge

(* Once declared dead, the runtime is down until a heartbeat succeeds.     *)
DeadIsDown == (view /\ ~moved /\ ~back) => ~MayRun

(* A deploy that found the org here ends before the org moves. *)
DeployOutrunsMove == (lock # "free" /\ moved /\ ~raced) => ~mine

IInv == RowFollows /\ SilenceBounded /\ DeadIsDown /\ DeployOutrunsMove /\ DownBeforeMove

-----------------------------------------------------------------------------
(* Contradicted by the code.  worker.rs says that the controller replaces  *)
(* a worker only after worker_ttl_ms > self_fence_ms: "the old runtime is  *)
(* down first", without exception.                                         *)
OldRuntimeDownFirst == moved => ~running
=============================================================================
