-------------------------- MODULE FlowClusterProofs --------------------------
(***************************************************************************)
(* Proofs about FlowCluster: type correctness, and that a revision the     *)
(* owner has seen stands for the content of the database, for any workers, *)
(* contents and bounds.                                                    *)
(***************************************************************************)
EXTENDS FlowCluster, TLAPS

(* The shape of the row: absent as a whole, or with an epoch from 1 on. *)
RowShape ==
  /\ ~Placed => place = NoRow
  /\ Placed => place.ver[1] # 0

(* A release still to come has its place within the bound, and so has the  *)
(* bump of the call.                                                       *)
RoomLeft ==
  /\ (aged \/ idle # NoOwner) => releases < MaxReleases
  /\ cpc # "idle" => place.ver[2] + 1 <= MaxRev

(* A call awaits the answer to one push at most, and only while it waits. *)
LivePushes ==
  /\ \A n \in Node : lock[n].live => lock[n].by = "apply" /\ cpc = "wait"
  /\ \A n \in Node : \A j \in jobs[n] : j.live => cpc = "wait"
  /\ \A m, n \in Node : lock[m].live /\ lock[n].live => m = n
  /\ \A m, n \in Node : \A j \in jobs[n] : j.live => ~lock[m].live
  /\ \A m, n \in Node : \A i \in jobs[m], j \in jobs[n] : i.live /\ j.live => m = n /\ i = j

-----------------------------------------------------------------------------
(* Versions and fragments. *)
LockRecord ==
  [by : {"none", "project", "reconcile", "apply"}, ver : Ver, frag : Content, live : BOOLEAN]

LEMMA VerFacts ==
  NoVer \in Ver /\ <<1, 0>> \in Ver /\ NoVer # <<1, 0>> /\ FreeLock \in LockRecord
BY ContentAssumption, BoundAssumption DEF Ver, NoVer, LockRecord, FreeLock

LEMMA VerParts ==
  ASSUME NEW v \in Ver
  PROVE  /\ v[1] \in Nat /\ v[2] \in Nat /\ v[1] <= MaxEpoch /\ v[2] <= MaxRev
         /\ v[2] + 1 <= MaxRev => <<v[1], v[2] + 1>> \in Ver
         /\ v[1] < MaxEpoch /\ v[2] + 1 <= MaxRev => <<v[1] + 1, v[2] + 1>> \in Ver
BY BoundAssumption DEF Ver

(* A step that touches no row and no call. *)
NodeStep(n) == NodeLife(n) \/ Reconcile(n) \/ ApplyBegin(n) \/ ApplyCancelled(n) \/ OtherOrgApplied(n)

(* A push that is answered. *)
AnswerStep(n) == ApplyRefused(n) \/ ApplyDone(n) \/ ApplyFails(n)

(* A step of a call that leaves the row alone. *)
CallStep ==
  \/ CallBegin \/ DeleteBegin \/ CallNotRouted
  \/ CallPushes \/ CallTimesOut \/ CallLosesOwner \/ CallMarks \/ CallAborts

(* A step on the row. *)
RowStep ==
  \/ \E w \in Worker : CallPlaces(w) \/ Assign(w) \/ Move(w)
  \/ CallBumps \/ FindIdle \/ Release \/ Age \/ Provisioned

LEMMA StepCases ==
  ASSUME [Next]_vars
  PROVE  \/ \E n \in Node : NodeStep(n) \/ AnswerStep(n)
         \/ CallStep \/ RowStep \/ UNCHANGED vars
BY DEF Next, Apply, Call, Controller, NodeStep, AnswerStep, CallStep, RowStep

LEMMA NodeFrame ==
  ASSUME NEW n \in Node, NodeStep(n)
  PROVE  UNCHANGED <<db, place, aged, callVars, idle, histVars>>
BY DEF NodeStep, NodeLife, Start, Heartbeat, HeartbeatFails, SelfFence, Stop, StopLocked,
       Deregister, Drop, Crash, Reconcile, ReconcileRead, ReconcileReadFails, ReconcileProject,
       ReconcileDone, ReconcileFails, ApplyBegin, ApplyCancelled, OtherOrgApplied, dbVars

LEMMA AnswerFrame ==
  ASSUME NEW n \in Node, AnswerStep(n)
  PROVE  UNCHANGED <<dbVars, idle, releases>>
BY DEF AnswerStep, ApplyRefused, ApplyDone, ApplyFails

LEMMA CallFrame ==
  ASSUME CallStep
  PROVE  UNCHANGED <<place, aged, boot, idle, releases>>
BY DEF CallStep, CallBegin, DeleteBegin, Begin, CallNotRouted, CallPushes, CallTimesOut,
       CallLosesOwner, CallMarks, CallAborts, dbVars, histVars

LEMMA RowFrame ==
  ASSUME RowStep
  PROVE  UNCHANGED <<db, boot, nodeVars>>
BY DEF RowStep, CallPlaces, Assign, Move, CallBumps, FindIdle, Release, Age, Provisioned, dbVars

-----------------------------------------------------------------------------
(* Types, by the part of the state. *)
RowType ==
  /\ db \in Content
  /\ place \in [owner : Worker \cup {NoOwner}, ver : Ver]
  /\ aged \in BOOLEAN
  /\ boot \in [Worker -> Node \cup {NoNode}]
  /\ idle \in Worker \cup {NoOwner}
  /\ releases \in 0 .. MaxReleases

NodeType ==
  /\ life \in [Node -> {"off", "up", "stopping", "stopped", "exited"}]
  /\ healthy \in [Node -> BOOLEAN] /\ halted \in [Node -> BOOLEAN]
  /\ frag \in [Node -> Content] /\ seen \in [Node -> Ver] /\ running \in [Node -> Content]
  /\ lock \in [Node -> LockRecord]
  /\ late \in [Node -> BOOLEAN]
  /\ jobs \in [Node -> SUBSET Job]

CallType ==
  /\ cpc \in {"idle", "push", "wait", "mark", "bump"}
  /\ kind \in {"deploy", "delete"} /\ cand \in Content /\ tries \in 0 .. MaxTries - 1
  /\ faults \in 0 .. MaxFaults
  /\ calm \in BOOLEAN

LEMMA TypeParts == TypeOK <=> RowType /\ NodeType /\ CallType
BY DEF TypeOK, RowType, NodeType, CallType, LockRecord

LEMMA FaultType == ASSUME CallType, Fault PROVE faults' \in 0 .. MaxFaults
BY BoundAssumption DEF CallType, Fault

LEMMA OwnVerType == ASSUME RowType, NEW n \in Node PROVE OwnVer(n) \in Ver
BY VerFacts DEF RowType, OwnVer

LEMMA ForgetType == ASSUME NodeType, NEW n \in Node, Forget(n)
  PROVE  /\ frag' \in [Node -> Content] /\ seen' \in [Node -> Ver] /\ running' \in [Node -> Content]
BY ContentAssumption, VerFacts DEF NodeType, Forget

LEMMA UnlockType == ASSUME NodeType, NEW n \in Node, Unlock(n) PROVE lock' \in [Node -> LockRecord]
BY VerFacts DEF NodeType, Unlock

LEMMA StayLateType == ASSUME NodeType, NEW n \in Node, StayLate(n) PROVE late' \in [Node -> BOOLEAN]
BY DEF NodeType, StayLate

LEMMA LifeTypes ==
  ASSUME RowType, NodeType, CallType, NEW n \in Node, NodeLife(n)
  PROVE  NodeType' /\ boot' \in [Worker -> Node \cup {NoNode}] /\ faults' \in 0 .. MaxFaults
<1>1. boot \in [Worker -> Node \cup {NoNode}] /\ IdOf \in [Node -> Worker] /\ faults \in 0 .. MaxFaults
  BY IdAssumption DEF RowType, CallType
<1>2. CASE Start(n)
  BY <1>1, <1>2 DEF Start, NodeType, stateVars
<1>3. CASE Heartbeat(n)
  BY <1>1, <1>3 DEF Heartbeat, NodeType, stateVars, dbVars
<1>4. CASE HeartbeatFails(n)
  BY <1>1, <1>4, StayLateType, FaultType DEF HeartbeatFails, NodeType, stateVars, dbVars
<1>5. CASE SelfFence(n)
  BY <1>1, <1>5, ForgetType DEF SelfFence, NodeType, dbVars
<1>6. CASE Stop(n)
  BY <1>1, <1>6, StayLateType, FaultType DEF Stop, NodeType, stateVars, dbVars
<1>7. CASE StopLocked(n)
  BY <1>1, <1>7, ForgetType DEF StopLocked, NodeType, dbVars
<1>8. CASE Deregister(n)
  BY <1>1, <1>8 DEF Deregister, NodeType, nodeVars, stateVars
<1>9. CASE Drop(n)
  BY <1>1, <1>9, ForgetType DEF Drop, NodeType, dbVars
<1>10. CASE Crash(n)
  BY <1>1, <1>10, ForgetType, UnlockType, FaultType DEF Crash, NodeType, dbVars
<1> QED
  BY <1>2, <1>3, <1>4, <1>5, <1>6, <1>7, <1>8, <1>9, <1>10 DEF NodeLife

(* What a reconcile takes the lock for: to project the org, or to deploy    *)
(* what is kept of it, if it is the owner what it has seen the version of. *)
LEMMA ReadLock ==
  ASSUME NEW n \in Node, NEW full \in BOOLEAN, ReconcileRead(n, full)
  PROVE  \/ UNCHANGED lock
         \/ \E b \in {"project", "reconcile"} :
              /\ lock' = [lock EXCEPT ![n] =
                   [by |-> b, ver |-> OwnVer(n), frag |-> Kept(n, OwnVer(n)), live |-> FALSE]]
              /\ (b = "reconcile" /\ OwnVer(n) # NoVer) => seen[n] = OwnVer(n)
<1> DEFINE Record(b) == [by |-> b, ver |-> OwnVer(n), frag |-> Kept(n, OwnVer(n)), live |-> FALSE]
<1>1. PICK others \in BOOLEAN :
        IF Changed(n, OwnVer(n), full) \/ Removed(n, OwnVer(n)) \/ full \/ others
          THEN lock' = [lock EXCEPT ![n] =
                          Record(IF Changed(n, OwnVer(n), full) THEN "project" ELSE "reconcile")]
          ELSE UNCHANGED lock
  BY DEF ReconcileRead
<1>2. CASE Changed(n, OwnVer(n), full)
  BY <1>1, <1>2
<1>3. CASE ~Changed(n, OwnVer(n), full)
  <2>1. OwnVer(n) # NoVer => seen[n] = OwnVer(n)
    BY <1>3 DEF Changed
  <2> QED BY <1>1, <1>3, <2>1
<1> QED BY <1>2, <1>3

LEMMA ReconcileTypes ==
  ASSUME RowType, NodeType, CallType, NEW n \in Node, Reconcile(n)
  PROVE  NodeType' /\ UNCHANGED boot /\ faults' \in 0 .. MaxFaults
<1>1. faults \in 0 .. MaxFaults /\ db \in Content
  BY DEF RowType, CallType
<1>2. ASSUME NEW full \in BOOLEAN, ReconcileRead(n, full)
      PROVE  NodeType' /\ UNCHANGED <<boot, faults>>
  <2>1. Kept(n, OwnVer(n)) \in Content
    BY ContentAssumption DEF Kept, NodeType
  <2>2. lock' \in [Node -> LockRecord]
    <3>1. \A b \in {"project", "reconcile"} :
            [by |-> b, ver |-> OwnVer(n), frag |-> Kept(n, OwnVer(n)), live |-> FALSE] \in LockRecord
      BY <2>1, OwnVerType DEF LockRecord
    <3>2. \/ lock' = lock
          \/ \E b \in {"project", "reconcile"} : lock' = [lock EXCEPT ![n] =
               [by |-> b, ver |-> OwnVer(n), frag |-> Kept(n, OwnVer(n)), live |-> FALSE]]
      BY <1>2, ReadLock
    <3> QED BY <3>1, <3>2 DEF NodeType
  <2> QED
    BY <1>2, <2>2 DEF ReconcileRead, NodeType, stateVars, dbVars
<1>3. CASE ReconcileReadFails(n)
  BY <1>1, <1>3, FaultType DEF ReconcileReadFails, NodeType, stateVars, dbVars
<1>4. CASE ReconcileProject(n)
  <2>1. lock' \in [Node -> LockRecord]
    BY <1>1, <1>4 DEF ReconcileProject, NodeType, LockRecord
  <2> QED
    BY <1>1, <1>4, <2>1 DEF ReconcileProject, NodeType, stateVars, dbVars
<1>5. CASE ReconcileDone(n)
  BY <1>1, <1>5, UnlockType DEF ReconcileDone, NodeType, LockRecord, dbVars
<1>6. CASE ReconcileFails(n)
  BY <1>1, <1>6, UnlockType, FaultType
  DEF ReconcileFails, MayHaveDeployed, NodeType, LockRecord, dbVars
<1> QED
  BY <1>1, <1>2, <1>3, <1>4, <1>5, <1>6 DEF Reconcile

LEMMA TakenType ==
  ASSUME NodeType, NEW n \in Node, NEW j \in jobs[n], Taken(n, j)
  PROVE  jobs' \in [Node -> SUBSET Job] /\ j \in Job
BY DEF NodeType, Taken

LEMMA ApplyTypes ==
  ASSUME RowType, NodeType, CallType, NEW n \in Node, Apply(n)
  PROVE  NodeType' /\ UNCHANGED boot /\ faults' \in 0 .. MaxFaults
<1>1. faults \in 0 .. MaxFaults
  BY DEF CallType
<1>2. CASE ApplyBegin(n)
  <2>1. PICK j \in jobs[n] :
          /\ Taken(n, j)
          /\ lock' = [lock EXCEPT ![n] =
               [by |-> "apply", ver |-> OwnVer(n), frag |-> j.frag, live |-> j.live]]
    BY <1>2 DEF ApplyBegin
  <2>2. jobs' \in [Node -> SUBSET Job] /\ j \in Job
    BY <2>1, TakenType
  <2>3. lock' \in [Node -> LockRecord]
    BY <2>1, <2>2, OwnVerType DEF NodeType, LockRecord, Job
  <2> QED
    BY <1>1, <1>2, <2>2, <2>3 DEF ApplyBegin, NodeType, stateVars, dbVars
<1>3. CASE ApplyRefused(n)
  <2>1. PICK j \in jobs[n] : Taken(n, j)
    BY <1>3 DEF ApplyRefused
  <2>2. faults' \in 0 .. MaxFaults
    BY <1>1, <1>3, FaultType DEF ApplyRefused
  <2> QED
    BY <1>3, <2>1, <2>2, TakenType DEF ApplyRefused, NodeType, stateVars, dbVars
<1>4. CASE ApplyDone(n)
  BY <1>1, <1>4, UnlockType DEF ApplyDone, NodeType, LockRecord, dbVars
<1>5. CASE ApplyFails(n)
  BY <1>1, <1>5, UnlockType, FaultType DEF ApplyFails, MayHaveDeployed, NodeType, LockRecord, dbVars
<1>6. CASE ApplyCancelled(n)
  <2>1. PICK j \in jobs[n] : Taken(n, j)
    BY <1>6 DEF ApplyCancelled
  <2> QED
    BY <1>1, <1>6, <2>1, TakenType DEF ApplyCancelled, NodeType, stateVars, dbVars
<1>7. CASE OtherOrgApplied(n)
  BY <1>1, <1>7 DEF OtherOrgApplied, NodeType, dbVars
<1> QED
  BY <1>2, <1>3, <1>4, <1>5, <1>6, <1>7 DEF Apply

-----------------------------------------------------------------------------
(* Where a call goes. *)
CallVarsType ==
  /\ cpc \in {"idle", "push", "wait", "mark", "bump"}
  /\ kind \in {"deploy", "delete"} /\ cand \in Content /\ tries \in 0 .. MaxTries - 1

LEMMA OutcomeTypes ==
  ASSUME CallType,
         \/ EndCall \/ PushFailed \/ PushAgain \/ Acknowledged
         \/ At("wait") \/ At("bump") \/ UNCHANGED callVars
  PROVE  CallVarsType'
BY ContentAssumption, BoundAssumption
DEF CallType, CallVarsType, EndCall, PushFailed, PushAgain, Acknowledged, At, callVars

LEMMA AnswerTypes ==
  ASSUME CallType, NEW n \in Node, AnswerStep(n)
  PROVE  CallVarsType' /\ calm' \in BOOLEAN
<1>1. calm \in BOOLEAN
  BY DEF CallType
<1>2. CASE ApplyRefused(n)
  BY <1>1, <1>2, OutcomeTypes DEF ApplyRefused, Answer, Calmly
<1>3. CASE ApplyDone(n)
  BY <1>1, <1>3, OutcomeTypes DEF ApplyDone, Answer, Calmly
<1>4. CASE ApplyFails(n)
  BY <1>1, <1>4, OutcomeTypes DEF ApplyFails, Answer, Calmly
<1> QED BY <1>2, <1>3, <1>4 DEF AnswerStep

LEMMA DetachType == ASSUME NodeType, Detach PROVE NodeType'
<1>1. /\ jobs' = [n \in Node |-> {[j EXCEPT !.live = FALSE] : j \in jobs[n]}]
      /\ lock' = [n \in Node |-> [lock[n] EXCEPT !.live = FALSE]]
  BY DEF Detach
<1>2. \A j \in Job : [j EXCEPT !.live = FALSE] \in Job
  BY DEF Job
<1>3. \A l \in LockRecord : [l EXCEPT !.live = FALSE] \in LockRecord
  BY DEF LockRecord
<1>4. \A n \in Node : {[j EXCEPT !.live = FALSE] : j \in jobs[n]} \in SUBSET Job
  BY <1>2 DEF NodeType
<1>5. \A n \in Node : [lock[n] EXCEPT !.live = FALSE] \in LockRecord
  BY <1>3 DEF NodeType
<1>6. jobs' \in [Node -> SUBSET Job] /\ lock' \in [Node -> LockRecord]
  BY <1>1, <1>4, <1>5
<1> QED BY <1>6 DEF Detach, NodeType, stateVars

LEMMA CallTypes ==
  ASSUME RowType, NodeType, CallType, CallStep
  PROVE  NodeType' /\ CallType' /\ db' \in Content
<1>1. db \in Content /\ cand \in Content /\ calm \in BOOLEAN /\ faults \in 0 .. MaxFaults
  BY DEF RowType, CallType
<1>2. CASE CallBegin \/ DeleteBegin
  <2>1. /\ cpc' = "push" /\ kind' \in {"deploy", "delete"} /\ tries' = 0 /\ cand' \in Content
        /\ db' \in {db, cand'} /\ UNCHANGED <<nodeVars, faults, histVars>>
    BY <1>2 DEF CallBegin, DeleteBegin, Begin, dbVars
  <2> QED
    BY <1>1, <2>1, BoundAssumption DEF CallType, NodeType, nodeVars, stateVars, histVars
<1>3. CASE CallNotRouted
  <2>1. CallVarsType' /\ calm' \in BOOLEAN /\ faults' \in 0 .. MaxFaults
    BY <1>1, <1>3, OutcomeTypes, FaultType DEF CallNotRouted, Calmly
  <2> QED
    BY <1>1, <1>3, <2>1 DEF CallNotRouted, CallType, CallVarsType, NodeType, nodeVars, stateVars, dbVars
<1>4. CASE CallPushes
  <2>1. CallVarsType' /\ calm' \in BOOLEAN
    BY <1>1, <1>4, OutcomeTypes DEF CallPushes, Calmly
  <2>2. [frag |-> cand, live |-> TRUE] \in Job
    BY <1>1 DEF Job
  <2>3. jobs' \in [Node -> SUBSET Job]
    <3>1. jobs \in [Node -> SUBSET Job]
      BY DEF NodeType
    <3>2. CASE UNCHANGED jobs
      BY <3>1, <3>2
    <3>3. CASE ~UNCHANGED jobs
      <4>1. PICK n \in Node : jobs' = [jobs EXCEPT ![n] = @ \cup {[frag |-> cand, live |-> TRUE]}]
        BY <1>4, <3>3 DEF CallPushes
      <4>2. jobs[n] \cup {[frag |-> cand, live |-> TRUE]} \in SUBSET Job
        BY <2>2, <3>1
      <4> QED BY <3>1, <4>1, <4>2
    <3> QED BY <3>2, <3>3
  <2> QED
    BY <1>1, <1>4, <2>1, <2>3 DEF CallPushes, CallType, CallVarsType, NodeType, stateVars, dbVars
<1>5. CASE CallTimesOut \/ CallAborts
  <2>1. CallVarsType' /\ calm' = FALSE /\ faults' \in 0 .. MaxFaults /\ Detach /\ UNCHANGED db
    BY <1>5, OutcomeTypes, FaultType DEF CallTimesOut, CallAborts, dbVars
  <2> QED BY <1>1, <2>1, DetachType DEF CallType, CallVarsType
<1>6. CASE CallLosesOwner
  <2>1. CallVarsType' /\ calm' \in BOOLEAN
    BY <1>1, <1>6, OutcomeTypes DEF CallLosesOwner, Calmly
  <2> QED
    BY <1>1, <1>6, <2>1 DEF CallLosesOwner, CallType, CallVarsType, NodeType, nodeVars, stateVars, dbVars
<1>7. CASE CallMarks
  <2>1. CallVarsType' /\ calm' \in BOOLEAN
    BY <1>1, <1>7, OutcomeTypes DEF CallMarks, Calmly
  <2> QED
    BY <1>1, <1>7, <2>1 DEF CallMarks, CallType, CallVarsType, NodeType, nodeVars, stateVars
<1> QED
  BY <1>2, <1>3, <1>4, <1>5, <1>6, <1>7 DEF CallStep

-----------------------------------------------------------------------------
(* The row.  Every step that bumps it leaves room for the bump of the call. *)
LEMMA BumpType ==
  ASSUME RowType, RowShape, Placed, place.ver[2] + 1 <= MaxRev, BumpRevision
  PROVE  /\ place' \in [owner : Worker \cup {NoOwner}, ver : Ver]
         /\ place'.owner = place.owner /\ place'.ver = <<place.ver[1], place.ver[2] + 1>>
         /\ aged' = FALSE
<1>1. place.ver \in Ver /\ <<place.ver[1], place.ver[2] + 1>> \in Ver
  BY VerParts DEF RowType
<1>2. place' = [place EXCEPT !.ver = <<place.ver[1], place.ver[2] + 1>>] /\ aged' = FALSE
  BY DEF BumpRevision, SetRow
<1> QED BY <1>1, <1>2 DEF RowType

LEMMA MoveType ==
  ASSUME RowType, NEW w \in Worker, Move(w)
  PROVE  /\ place' \in [owner : Worker \cup {NoOwner}, ver : Ver]
         /\ place'.owner = w /\ place'.ver = <<place.ver[1] + 1, place.ver[2] + 1>>
         /\ aged' = FALSE /\ place.ver[2] + 1 <= MaxRev /\ (cpc # "idle" => place.ver[2] + 2 <= MaxRev)
<1>1. place.ver \in Ver
  BY DEF RowType
<1>2. place.ver[2] \in Nat /\ MaxRev \in Nat
  BY <1>1, VerParts, BoundAssumption
<1>3. place.ver[2] + 1 <= MaxRev /\ (cpc # "idle" => place.ver[2] + 2 <= MaxRev)
  BY <1>2 DEF Move, Room
<1>4. <<place.ver[1] + 1, place.ver[2] + 1>> \in Ver
  BY <1>1, <1>3, VerParts DEF Move
<1>5. place' = [owner |-> w, ver |-> <<place.ver[1] + 1, place.ver[2] + 1>>] /\ aged' = FALSE
  BY DEF Move, SetRow
<1> QED BY <1>3, <1>4, <1>5

LEMMA InsertType ==
  ASSUME NEW w \in Worker, Insert(w)
  PROVE  /\ place' \in [owner : Worker \cup {NoOwner}, ver : Ver]
         /\ place'.owner = w /\ place'.ver = <<1, 0>>
         /\ aged' = FALSE
BY VerFacts DEF Insert, SetRow

LEMMA ProvisionedType ==
  ASSUME RowType, RowShape, Provisioned
  PROVE  /\ Placed /\ BumpRevision /\ place.ver[2] + 1 <= MaxRev
         /\ (cpc # "idle" => place.ver[2] + 2 <= MaxRev)
         /\ UNCHANGED <<callVars, idle, faults, histVars>>
<1>1. place.ver[2] \in Nat /\ MaxRev \in Nat
  BY VerParts, BoundAssumption DEF RowType
<1> QED BY <1>1 DEF Provisioned, Room

(* Typed, shaped and with room left. *)
RowOK == RowType /\ RowShape /\ RoomLeft

(* A step on the row leaves it so, whether a call is under way or not. *)
LEMMA RowStepOK ==
  ASSUME RowOK, CallType, RowStep
  PROVE  RowOK' /\ CallType'
<1>0. RowType /\ RowShape /\ RoomLeft /\ place.ver \in Ver
  BY DEF RowOK, RowType
<1>1. /\ db \in Content /\ place \in [owner : Worker \cup {NoOwner}, ver : Ver]
      /\ aged \in BOOLEAN /\ boot \in [Worker -> Node \cup {NoNode}]
      /\ idle \in Worker \cup {NoOwner} /\ releases \in Nat /\ releases <= MaxReleases
      /\ MaxReleases \in Nat /\ NoOwner \notin Worker
      /\ place.ver[1] \in Nat /\ place.ver[2] \in Nat /\ MaxRev \in Nat
  <2>1. place.ver[1] \in Nat /\ place.ver[2] \in Nat
    BY <1>0, VerParts
  <2> QED BY <1>0, <2>1, IdAssumption, BoundAssumption DEF RowType
<1>2. db' = db /\ boot' = boot
  BY RowFrame
<1>3. ASSUME place' \in [owner : Worker \cup {NoOwner}, ver : Ver], place'.owner # NoOwner,
             place'.ver[1] # 0, aged' = FALSE, UNCHANGED <<idle, releases>>,
             cpc' # "idle" => place'.ver[2] + 1 <= MaxRev
      PROVE  RowOK'
  BY <1>0, <1>1, <1>2, <1>3 DEF RowOK, RowType, RowShape, RoomLeft, Placed
<1>4. ASSUME NEW w \in Worker, CallPlaces(w) \/ Assign(w)
      PROVE  RowOK' /\ CallType'
  <2>1. Insert(w) /\ ~Placed /\ UNCHANGED <<callVars, idle, faults, histVars>>
    BY <1>4 DEF CallPlaces, Assign
  <2>2. place.ver[2] = 0
    BY <1>0, <2>1 DEF RowShape, NoRow, NoVer
  <2>3. cpc # "idle" => 0 + 1 <= MaxRev
    BY <1>0, <2>2 DEF RoomLeft
  <2>4. /\ place' \in [owner : Worker \cup {NoOwner}, ver : Ver] /\ place'.owner = w
        /\ place'.ver = <<1, 0>> /\ aged' = FALSE
    BY <2>1, InsertType
  <2>5. place'.ver[1] # 0 /\ (cpc' # "idle" => place'.ver[2] + 1 <= MaxRev)
    BY <2>1, <2>3, <2>4 DEF callVars
  <2>6. RowOK'
    BY <1>1, <1>3, <2>1, <2>4, <2>5 DEF histVars
  <2> QED BY <2>1, <2>6 DEF CallType, callVars, histVars
<1>5. ASSUME NEW w \in Worker, Move(w)
      PROVE  RowOK' /\ CallType'
  <2>1. UNCHANGED <<callVars, idle, faults, histVars>>
    BY <1>5 DEF Move
  <2>2. /\ place' \in [owner : Worker \cup {NoOwner}, ver : Ver] /\ place'.owner = w
        /\ place'.ver = <<place.ver[1] + 1, place.ver[2] + 1>> /\ aged' = FALSE
        /\ cpc # "idle" => place.ver[2] + 2 <= MaxRev
    BY <1>0, <1>5, MoveType
  <2>3. place'.ver[1] # 0 /\ (cpc' # "idle" => place'.ver[2] + 1 <= MaxRev)
    BY <1>1, <2>1, <2>2 DEF callVars
  <2>4. RowOK'
    BY <1>1, <1>3, <2>1, <2>2, <2>3 DEF histVars
  <2> QED BY <2>1, <2>4 DEF CallType, callVars, histVars
<1>6. CASE Provisioned
  <2>1. UNCHANGED <<callVars, idle, faults, histVars>>
    BY <1>6 DEF Provisioned
  <2>2. Placed /\ BumpRevision /\ place.ver[2] + 1 <= MaxRev /\ (cpc # "idle" => place.ver[2] + 2 <= MaxRev)
    BY <1>0, <1>6, ProvisionedType
  <2>3. /\ place' \in [owner : Worker \cup {NoOwner}, ver : Ver] /\ place'.owner = place.owner
        /\ place'.ver = <<place.ver[1], place.ver[2] + 1>> /\ aged' = FALSE
    BY <1>0, <2>2, BumpType
  <2>4. place'.ver[1] # 0 /\ (cpc' # "idle" => place'.ver[2] + 1 <= MaxRev)
    BY <1>0, <1>1, <2>1, <2>2, <2>3 DEF callVars, RowShape
  <2>5. RowOK'
    BY <1>1, <1>3, <2>1, <2>2, <2>3, <2>4 DEF histVars, Placed
  <2> QED BY <2>1, <2>5 DEF CallType, callVars, histVars
<1>7. CASE CallBumps
  <2>1. cpc = "bump" /\ cpc' = "idle" /\ UNCHANGED <<idle, faults, releases>>
    BY <1>7 DEF CallBumps, EndCall
  <2>2. CallType'
    <3>1. CallVarsType' /\ calm' \in BOOLEAN
      BY <1>7, OutcomeTypes DEF CallBumps, Calmly, CallType
    <3> QED BY <2>1, <3>1 DEF CallType, CallVarsType
  <2>3. CASE Placed
    <3>1. place.ver[2] + 1 <= MaxRev /\ BumpRevision
      BY <1>0, <1>7, <2>1 DEF RoomLeft, CallBumps
    <3>2. /\ place' \in [owner : Worker \cup {NoOwner}, ver : Ver] /\ place'.owner = place.owner
          /\ place'.ver = <<place.ver[1], place.ver[2] + 1>> /\ aged' = FALSE
      BY <1>0, <2>3, <3>1, BumpType
    <3>3. place'.ver[1] # 0 /\ place'.owner # NoOwner
      BY <1>0, <1>1, <2>3, <3>2 DEF RowShape, Placed
    <3> QED BY <1>3, <2>1, <2>2, <3>2, <3>3
  <2>4. CASE ~Placed
    <3>1. UNCHANGED <<place, aged>>
      BY <1>7, <2>4 DEF CallBumps, BumpRevision
    <3> QED BY <1>0, <1>1, <1>2, <2>1, <2>2, <3>1 DEF RowOK, RowType, RowShape, RoomLeft, Placed
  <2> QED BY <2>3, <2>4
<1>8. CASE FindIdle \/ Age
  <2>1. /\ UNCHANGED <<place, callVars, faults, histVars>>
        /\ aged' \in BOOLEAN /\ idle' \in Worker \cup {NoOwner}
        /\ (aged' \/ idle' # NoOwner) => releases < MaxReleases
    BY <1>0, <1>1, <1>8 DEF FindIdle, Age, dbVars, RoomLeft
  <2> QED
    BY <1>0, <1>1, <1>2, <2>1
    DEF RowOK, RowType, RowShape, RoomLeft, Placed, CallType, callVars, histVars
<1>9. CASE Release
  <2>1. UNCHANGED <<callVars, faults, calm>> /\ idle # NoOwner /\ idle' = NoOwner
    BY <1>9 DEF Release
  <2>2. releases < MaxReleases
    BY <1>0, <2>1 DEF RoomLeft
  <2>3. CallType'
    BY <2>1 DEF CallType, callVars
  <2>4. CASE place.owner = idle
    <3>1. place' = NoRow /\ aged' = FALSE /\ releases' = releases + 1
      BY <1>9, <2>4 DEF Release, SetRow
    <3>2. cpc # "idle" => 0 + 1 <= MaxRev
      BY <1>0, <1>1 DEF RoomLeft
    <3>3. place'.ver = NoVer /\ place'.ver[2] = 0 /\ place'.owner = NoOwner
      BY <3>1 DEF NoRow, NoVer
    <3>4. RowType'
      <4>1. place' \in [owner : Worker \cup {NoOwner}, ver : Ver]
        BY <3>1, VerFacts DEF NoRow
      <4>2. releases' \in 0 .. MaxReleases
        BY <1>1, <2>2, <3>1
      <4> QED BY <1>1, <1>2, <2>1, <3>1, <4>1, <4>2 DEF RowType
    <3>5. RowShape' /\ RoomLeft'
      BY <2>1, <3>1, <3>2, <3>3 DEF RowShape, RoomLeft, Placed, callVars
    <3> QED BY <2>3, <3>4, <3>5 DEF RowOK
  <2>5. CASE place.owner # idle
    <3>1. UNCHANGED <<place, aged, releases>>
      BY <1>9, <2>5 DEF Release
    <3> QED
      BY <1>0, <1>1, <1>2, <2>1, <2>2, <2>3, <3>1
      DEF RowOK, RowType, RowShape, RoomLeft, Placed, callVars
  <2> QED BY <2>4, <2>5
<1> QED BY <1>4, <1>5, <1>6, <1>7, <1>8, <1>9 DEF RowStep

-----------------------------------------------------------------------------
(* The pushes awaited. *)
NoneLive == \A n \in Node : ~lock[n].live /\ \A j \in jobs[n] : ~j.live

LEMMA NotWaiting == ASSUME LivePushes, cpc # "wait" PROVE NoneLive
BY DEF LivePushes, NoneLive

LEMMA NoneLiveIsEnough == NoneLive' => LivePushes'
BY DEF LivePushes, NoneLive

(* Pushes are dropped or answered, and none is added. *)
Fewer ==
  \A m \in Node :
    /\ jobs'[m] \subseteq jobs[m]
    /\ lock'[m].live \/ lock'[m].by = "apply" => lock'[m] = lock[m]

LEMMA FewerLive == ASSUME LivePushes, Fewer, UNCHANGED cpc PROVE LivePushes'
BY DEF LivePushes, Fewer

LEMMA FewerNone == ASSUME NoneLive, Fewer PROVE NoneLive'
BY DEF NoneLive, Fewer

(* No step of a node or of its reconcile adds a push. *)
LEMMA NodeFewer ==
  ASSUME NodeType, LivePushes, NEW n \in Node,
         NodeLife(n) \/ Reconcile(n) \/ OtherOrgApplied(n) \/ ApplyCancelled(n)
  PROVE  Fewer
<1>1. lock \in [Node -> LockRecord] /\ jobs \in [Node -> SUBSET Job]
  BY DEF NodeType
<1>2. ASSUME UNCHANGED <<lock, jobs>> PROVE Fewer
  BY <1>2 DEF Fewer
<1>3. ASSUME UNCHANGED jobs, NEW l, lock' = [lock EXCEPT ![n] = l], ~l.live, l.by # "apply"
      PROVE  Fewer
  BY <1>1, <1>3 DEF Fewer
<1>4. ~FreeLock.live /\ FreeLock.by # "apply"
  BY DEF FreeLock
<1>5. CASE NodeLife(n)
  <2>1. CASE Crash(n)
    BY <1>1, <1>4, <2>1 DEF Crash, Unlock, Fewer
  <2>2. CASE ~Crash(n)
    <3>1. UNCHANGED <<lock, jobs>>
      BY <1>5, <2>2
      DEF NodeLife, Start, Heartbeat, HeartbeatFails, SelfFence, Stop, StopLocked, Deregister, Drop, nodeVars
    <3> QED BY <1>2, <3>1
  <2> QED BY <2>1, <2>2
<1>6. ASSUME NEW full \in BOOLEAN, ReconcileRead(n, full) PROVE Fewer
  <2>1. UNCHANGED jobs
    BY <1>6 DEF ReconcileRead
  <2>2. CASE UNCHANGED lock
    BY <1>2, <2>1, <2>2
  <2>3. CASE ~UNCHANGED lock
    <3> DEFINE Read(b) == [by |-> b, ver |-> OwnVer(n), frag |-> Kept(n, OwnVer(n)), live |-> FALSE]
    <3>1. PICK b \in {"project", "reconcile"} : lock' = [lock EXCEPT ![n] = Read(b)]
      BY <1>6, <2>3, ReadLock
    <3>2. ~Read(b).live /\ Read(b).by # "apply"
      OBVIOUS
    <3> QED BY <1>3, <2>1, <3>1, <3>2
  <2> QED BY <2>2, <2>3
<1>7. CASE ReconcileReadFails(n) \/ OtherOrgApplied(n)
  BY <1>2, <1>7 DEF ReconcileReadFails, OtherOrgApplied
<1>8. CASE ReconcileProject(n)
  <2>1. ~lock[n].live
    BY <1>8 DEF ReconcileProject, LivePushes
  <2>2. UNCHANGED jobs /\ ~lock'[n].live /\ lock'[n].by = "reconcile" /\ \A m \in Node : m # n => lock'[m] = lock[m]
    BY <1>1, <1>8, <2>1 DEF ReconcileProject
  <2> QED BY <2>2 DEF Fewer
<1>9. CASE ReconcileDone(n) \/ ReconcileFails(n)
  BY <1>3, <1>4, <1>9 DEF ReconcileDone, ReconcileFails, Unlock
<1>10. CASE ApplyCancelled(n)
  <2>1. UNCHANGED lock /\ \E j \in jobs[n] : jobs' = [jobs EXCEPT ![n] = @ \ {j}]
    BY <1>10 DEF ApplyCancelled, Taken
  <2> QED BY <1>1, <2>1 DEF Fewer
<1> QED
  BY <1>5, <1>6, <1>7, <1>8, <1>9, <1>10 DEF Reconcile

(* A push that takes the lock is still the only one awaited. *)
LEMMA BeginLive ==
  ASSUME NodeType, LivePushes, NEW n \in Node, ApplyBegin(n)
  PROVE  LivePushes'
<1>1. PICK j \in jobs[n] :
        /\ jobs' = [jobs EXCEPT ![n] = @ \ {j}]
        /\ lock' = [lock EXCEPT ![n] =
             [by |-> "apply", ver |-> OwnVer(n), frag |-> j.frag, live |-> j.live]]
  BY DEF ApplyBegin, Taken
<1>2. lock \in [Node -> LockRecord] /\ jobs \in [Node -> SUBSET Job] /\ cpc' = cpc /\ lock[n].by = "none"
  BY DEF NodeType, ApplyBegin, callVars
<1>3. /\ lock'[n].by = "apply" /\ lock'[n].live = j.live
      /\ \A m \in Node : m # n => lock'[m] = lock[m] /\ jobs'[m] = jobs[m]
      /\ jobs'[n] = jobs[n] \ {j} /\ ~lock[n].live
  BY <1>1, <1>2 DEF LivePushes
<1>4. CASE j.live
  <2>1. \A m \in Node : ~lock[m].live /\ \A i \in jobs[m] : i.live => m = n /\ i = j
    BY <1>4 DEF LivePushes
  <2>2. \A m \in Node : \A i \in jobs'[m] : ~i.live
    BY <1>3, <2>1
  <2>3. \A m \in Node : lock'[m].live => m = n
    BY <1>3, <2>1
  <2>4. cpc = "wait"
    BY <1>4 DEF LivePushes
  <2> QED BY <1>2, <1>3, <2>2, <2>3, <2>4 DEF LivePushes
<1>5. CASE ~j.live
  <2>1. \A m \in Node : (lock'[m].live => lock[m].live) /\ jobs'[m] \subseteq jobs[m]
                           /\ (m # n => lock'[m] = lock[m])
    BY <1>3, <1>5
  <2> QED BY <1>2, <1>3, <1>5, <2>1 DEF LivePushes
<1> QED BY <1>4, <1>5

(* An answer: of a push nobody awaits, or of the one the call waits for,   *)
(* and then none is awaited any more.                                      *)
LEMMA AnswerCases ==
  ASSUME NodeType, LivePushes, NEW n \in Node, AnswerStep(n)
  PROVE  /\ Fewer
         /\ \/ UNCHANGED callVars
            \/ cpc = "wait" /\ NoneLive'
<1>1. lock \in [Node -> LockRecord] /\ jobs \in [Node -> SUBSET Job]
      /\ ~FreeLock.live /\ FreeLock.by = "none"
  BY DEF NodeType, FreeLock
<1>2. CASE ApplyRefused(n)
  <2>1. PICK j \in jobs[n] :
          /\ jobs' = [jobs EXCEPT ![n] = @ \ {j}]
          /\ Answer(j.live, PushAgain) \/ Answer(j.live, PushFailed)
    BY <1>2 DEF ApplyRefused, Taken
  <2>2. UNCHANGED lock
    BY <1>2 DEF ApplyRefused
  <2>3. Fewer
    BY <1>1, <2>1, <2>2 DEF Fewer
  <2>4. CASE j.live
    <3>1. \A m \in Node : ~lock[m].live /\ \A i \in jobs[m] : i.live => m = n /\ i = j
      BY <2>4 DEF LivePushes
    <3>2. NoneLive'
      BY <1>1, <2>1, <2>2, <3>1 DEF NoneLive
    <3> QED BY <2>3, <2>4, <3>2 DEF LivePushes
  <2>5. CASE ~j.live
    BY <2>1, <2>3, <2>5 DEF Answer
  <2> QED BY <2>4, <2>5
<1>3. CASE ApplyDone(n) \/ ApplyFails(n)
  <2>1. /\ UNCHANGED jobs /\ lock' = [lock EXCEPT ![n] = FreeLock]
        /\ Answer(lock[n].live, Acknowledged) \/ Answer(lock[n].live, PushFailed)
    BY <1>3 DEF ApplyDone, ApplyFails, Unlock
  <2>2. Fewer
    BY <1>1, <2>1 DEF Fewer
  <2>3. CASE lock[n].live
    <3>1. \A m \in Node : (lock[m].live => m = n) /\ \A i \in jobs[m] : ~i.live
      BY <2>3 DEF LivePushes
    <3>2. NoneLive'
      BY <1>1, <2>1, <3>1 DEF NoneLive
    <3> QED BY <2>2, <2>3, <3>2 DEF LivePushes
  <2>4. CASE ~lock[n].live
    BY <2>1, <2>2, <2>4 DEF Answer
  <2> QED BY <2>3, <2>4
<1> QED BY <1>2, <1>3 DEF AnswerStep

(* A step of the call awaits one push more only when none is awaited. *)
LEMMA CallLive ==
  ASSUME NodeType, LivePushes, CallStep
  PROVE  LivePushes'
<1>1. lock \in [Node -> LockRecord] /\ jobs \in [Node -> SUBSET Job]
  BY DEF NodeType
<1>2. ASSUME NoneLive, UNCHANGED nodeVars PROVE LivePushes'
  BY <1>2, NoneLiveIsEnough DEF NoneLive, nodeVars
<1>3. CASE CallBegin \/ DeleteBegin \/ CallNotRouted \/ CallMarks
  <2>1. cpc # "wait" /\ UNCHANGED nodeVars
    BY <1>3 DEF CallBegin, DeleteBegin, Begin, CallNotRouted, CallMarks
  <2> QED BY <1>2, <2>1, NotWaiting
<1>4. CASE CallLosesOwner
  <2>1. NoneLive /\ UNCHANGED nodeVars
    BY <1>4 DEF CallLosesOwner, Awaited, NoneLive
  <2> QED BY <1>2, <2>1
<1>5. CASE CallTimesOut \/ CallAborts
  <2>1. /\ jobs' = [n \in Node |-> {[j EXCEPT !.live = FALSE] : j \in jobs[n]}]
        /\ lock' = [n \in Node |-> [lock[n] EXCEPT !.live = FALSE]]
    BY <1>5 DEF CallTimesOut, CallAborts, Detach
  <2>2. \A n \in Node : lock[n] \in LockRecord /\ \A j \in jobs[n] : j \in Job
    BY <1>1
  <2>3. \A n \in Node : ~lock'[n].live
    BY <2>1, <2>2 DEF LockRecord
  <2>4. \A n \in Node : \A j \in jobs'[n] : ~j.live
    <3> SUFFICES ASSUME NEW n \in Node, NEW j \in jobs[n] PROVE ~[j EXCEPT !.live = FALSE].live
      BY <2>1
    <3> QED BY <2>2 DEF Job
  <2> QED BY <2>3, <2>4, NoneLiveIsEnough DEF NoneLive
<1>6. CASE CallPushes
  <2> DEFINE pushed == [frag |-> cand, live |-> TRUE]
  <2>1. NoneLive /\ UNCHANGED lock
    BY <1>6, NotWaiting DEF CallPushes
  <2>2. CASE UNCHANGED jobs
    BY <2>1, <2>2, NoneLiveIsEnough DEF NoneLive
  <2>3. CASE ~UNCHANGED jobs
    <3>1. PICK n \in Node : jobs' = [jobs EXCEPT ![n] = @ \cup {pushed}] /\ cpc' = "wait"
      BY <1>6, <2>3 DEF CallPushes, At
    <3> HIDE DEF pushed
    <3>2. \A m \in Node : \A j \in jobs'[m] : j.live => m = n /\ j = pushed
      BY <1>1, <2>1, <3>1 DEF NoneLive
    <3>3. \A m \in Node : ~lock'[m].live
      BY <2>1 DEF NoneLive
    <3> QED BY <3>1, <3>2, <3>3 DEF LivePushes
  <2> QED BY <2>2, <2>3
<1> QED BY <1>3, <1>4, <1>5, <1>6 DEF CallStep

LEMMA RowLive ==
  ASSUME LivePushes, RowStep
  PROVE  LivePushes'
<1>1. UNCHANGED <<lock, jobs>>
  BY RowFrame DEF nodeVars
<1>2. CASE CallBumps
  <2>1. NoneLive
    BY <1>2, NotWaiting DEF CallBumps
  <2> QED BY <1>1, <2>1, NoneLiveIsEnough DEF NoneLive
<1>3. CASE ~CallBumps
  <2>1. UNCHANGED cpc
    BY <1>3 DEF RowStep, CallPlaces, Assign, Move, FindIdle, Release, Age, Provisioned, callVars
  <2> QED BY <1>1, <2>1 DEF LivePushes
<1> QED BY <1>2, <1>3

-----------------------------------------------------------------------------
(* The bounded state is an invariant: types, the shape of the row, room    *)
(* for what is still to come, and one awaited push at most.                *)
Bounded == RowOK /\ NodeType /\ CallType /\ LivePushes

LEMMA BoundedInit == Init => Bounded
<1> SUFFICES ASSUME Init PROVE Bounded
  OBVIOUS
<1>1. RowType
  <2>1. NoRow \in [owner : Worker \cup {NoOwner}, ver : Ver]
    BY VerFacts DEF NoRow
  <2>2. 0 \in 0 .. MaxReleases
    BY BoundAssumption
  <2>3. [w \in Worker |-> NoNode] \in [Worker -> Node \cup {NoNode}]
    OBVIOUS
  <2> QED BY <2>1, <2>2, <2>3, ContentAssumption DEF Init, RowType
<1>2. NodeType
  BY ContentAssumption, VerFacts DEF Init, NodeType
<1>3. CallType
  BY ContentAssumption, BoundAssumption DEF Init, CallType
<1>4. RowShape /\ RoomLeft
  BY DEF Init, RowShape, RoomLeft, Placed, NoRow
<1>5. LivePushes
  BY DEF Init, LivePushes, FreeLock
<1> QED BY <1>1, <1>2, <1>3, <1>4, <1>5 DEF Bounded, RowOK

LEMMA BoundedNext == Bounded /\ [Next]_vars => Bounded'
<1> SUFFICES ASSUME RowOK, NodeType, CallType, LivePushes, [Next]_vars
             PROVE  RowOK' /\ NodeType' /\ CallType' /\ LivePushes'
  BY DEF Bounded
<1>0. RowType /\ RowShape /\ RoomLeft
  BY DEF RowOK
<1>1. ASSUME NEW n \in Node, NodeStep(n)
      PROVE  RowOK' /\ NodeType' /\ CallType' /\ LivePushes'
  <2>1. UNCHANGED <<db, place, aged, callVars, idle, histVars>>
    BY <1>1, NodeFrame
  <2>2. NodeType' /\ boot' \in [Worker -> Node \cup {NoNode}] /\ faults' \in 0 .. MaxFaults
    <3>1. NodeLife(n) \/ Reconcile(n) \/ Apply(n)
      BY <1>1 DEF NodeStep, Apply
    <3> QED BY <1>0, <3>1, LifeTypes, ReconcileTypes, ApplyTypes DEF RowType
  <2>3. LivePushes'
    <3>1. CASE ApplyBegin(n)
      BY <3>1, BeginLive
    <3>2. CASE ~ApplyBegin(n)
      <4>1. Fewer /\ UNCHANGED cpc
        BY <1>1, <2>1, <3>2, NodeFewer DEF NodeStep, callVars
      <4> QED BY <4>1, FewerLive
    <3> QED BY <3>1, <3>2
  <2>4. RowOK'
    BY <1>0, <2>1, <2>2 DEF RowOK, RowType, RowShape, RoomLeft, Placed, callVars, histVars
  <2>5. CallType'
    BY <2>1, <2>2 DEF CallType, callVars, histVars
  <2> QED BY <2>2, <2>3, <2>4, <2>5
<1>2. ASSUME NEW n \in Node, AnswerStep(n)
      PROVE  RowOK' /\ NodeType' /\ CallType' /\ LivePushes'
  <2>1. UNCHANGED <<dbVars, idle, releases>>
    BY <1>2, AnswerFrame
  <2>2. NodeType' /\ faults' \in 0 .. MaxFaults
    BY <1>0, <1>2, ApplyTypes DEF Apply, AnswerStep
  <2>3. CallType'
    BY <1>2, <2>2, AnswerTypes DEF CallType, CallVarsType
  <2>4. Fewer /\ (UNCHANGED callVars \/ (cpc = "wait" /\ NoneLive'))
    BY <1>2, AnswerCases
  <2>5. LivePushes'
    BY <2>4, FewerLive, NoneLiveIsEnough DEF callVars
  <2>6. cpc' # "idle" => cpc # "idle"
    BY <2>4 DEF callVars
  <2>7. RowOK'
    BY <1>0, <2>1, <2>6 DEF RowOK, RowType, RowShape, RoomLeft, Placed, dbVars
  <2> QED BY <2>2, <2>3, <2>5, <2>7
<1>3. CASE CallStep
  <2>1. UNCHANGED <<place, aged, boot, idle, releases>>
    BY <1>3, CallFrame
  <2>2. NodeType' /\ CallType' /\ db' \in Content
    BY <1>0, <1>3, CallTypes
  <2>3. cpc' # "idle" => place.ver[2] + 1 <= MaxRev
    <3>1. CASE cpc = "idle"
      <4>1. CallBegin \/ DeleteBegin
        BY <1>3, <3>1
        DEF CallStep, CallNotRouted, CallPushes, CallTimesOut, CallLosesOwner, CallMarks, CallAborts
      <4>2. place.ver[2] \in Nat /\ MaxRev \in Nat
        BY <1>0, VerParts, BoundAssumption DEF RowType
      <4> QED BY <3>1, <4>1, <4>2 DEF CallBegin, DeleteBegin, Begin, Room
    <3>2. CASE cpc # "idle"
      BY <1>0, <3>2 DEF RoomLeft
    <3> QED BY <3>1, <3>2
  <2>4. RowOK'
    BY <1>0, <2>1, <2>2, <2>3 DEF RowOK, RowType, RowShape, RoomLeft, Placed
  <2> QED BY <1>3, <2>2, <2>4, CallLive
<1>4. CASE RowStep
  <2>1. NodeType'
    BY <1>4, RowFrame DEF NodeType, nodeVars, stateVars
  <2> QED BY <1>4, <2>1, RowStepOK, RowLive
<1>5. CASE UNCHANGED vars
  BY <1>0, <1>5
  DEF RowOK, RowType, RowShape, RoomLeft, Placed, NodeType, CallType, LivePushes,
      vars, dbVars, nodeVars, stateVars, callVars, histVars
<1> QED BY <1>1, <1>2, <1>3, <1>4, <1>5, StepCases

(* Every variable keeps its type and no bound is exceeded, for any         *)
(* workers, incarnations, contents and bounds.                             *)
THEOREM TypeCorrect == Spec => []TypeOK
<1>1. Bounded => TypeOK
  BY TypeParts DEF Bounded, RowOK
<1> QED BY <1>1, BoundedInit, BoundedNext, PTL DEF Spec

-----------------------------------------------------------------------------
(* What a node knows of the versions of the row: nothing of a row that is  *)
(* not there, never more than the row has reached, and the version of now  *)
(* only on its owner, whose lock then carries it too.                      *)
Versioned(n) ==
  /\ ~Placed => seen[n] = NoVer /\ lock[n].ver = NoVer
  /\ seen[n][2] <= place.ver[2] /\ lock[n].ver[2] <= place.ver[2]
  /\ Placed =>
       /\ seen[n] = place.ver => place.owner = IdOf[n]
       /\ lock[n].ver = place.ver => place.owner = IdOf[n]
       /\ lock[n].by # "none" /\ seen[n] = place.ver => lock[n].ver = place.ver

(* The row gets a version nobody has seen. *)
NewVersion ==
  /\ Placed' /\ place.ver[2] <= place'.ver[2]
  /\ \A v \in Ver : (v[2] <= place.ver[2] /\ (~Placed => v = NoVer)) => v # place'.ver

LEMMA RowEffect ==
  ASSUME Bounded, RowStep, releases' = 0
  PROVE  /\ releases = 0
         /\ UNCHANGED place \/ NewVersion
         /\ UNCHANGED <<cpc, calm>> \/ (cpc = "bump" /\ (NewVersion \/ ~Placed'))
<1>0. RowType /\ RowShape /\ RoomLeft /\ place.ver \in Ver /\ NoOwner \notin Worker
  BY IdAssumption DEF Bounded, RowOK, RowType
<1>1. place.ver[1] \in Nat /\ place.ver[2] \in Nat
  BY <1>0, VerParts
<1>2. ASSUME NEW w \in Worker, Insert(w), ~Placed PROVE NewVersion
  <2>1. place'.ver = <<1, 0>> /\ place'.owner = w
    BY <1>2, InsertType
  <2>2. place.ver[2] = 0
    BY <1>0, <1>2 DEF RowShape, NoRow, NoVer
  <2> QED BY <1>0, <1>2, <2>1, <2>2, VerFacts DEF NewVersion, Placed
<1>3. ASSUME Placed, place'.owner # NoOwner, NEW e \in Nat, place'.ver = <<e, place.ver[2] + 1>>
      PROVE  NewVersion
  <2>1. \A v \in Ver : v[2] <= place.ver[2] => v # place'.ver
    <3> SUFFICES ASSUME NEW v \in Ver, v[2] <= place.ver[2], v = place'.ver PROVE FALSE
      OBVIOUS
    <3>1. v[2] = place.ver[2] + 1
      BY <1>3
    <3> QED BY <1>1, <3>1
  <2> QED BY <1>1, <1>3, <2>1 DEF NewVersion, Placed
<1>4. ASSUME NEW w \in Worker, CallPlaces(w) \/ Assign(w)
      PROVE  NewVersion /\ UNCHANGED <<cpc, calm, releases>>
  BY <1>2, <1>4 DEF CallPlaces, Assign, callVars, histVars
<1>5. ASSUME NEW w \in Worker, Move(w)
      PROVE  NewVersion /\ UNCHANGED <<cpc, calm, releases>>
  <2>1. Placed /\ UNCHANGED <<cpc, calm, releases>>
    BY <1>5 DEF Move, callVars, histVars
  <2>2. place'.owner = w /\ place'.ver = <<place.ver[1] + 1, place.ver[2] + 1>>
    BY <1>0, <1>5, MoveType
  <2> QED BY <1>0, <1>1, <1>3, <2>1, <2>2
<1>6. CASE Provisioned
  <2>1. Placed /\ BumpRevision /\ place.ver[2] + 1 <= MaxRev /\ UNCHANGED <<cpc, calm, releases>>
    BY <1>0, <1>6, ProvisionedType DEF callVars, histVars
  <2>2. place'.owner = place.owner /\ place'.ver = <<place.ver[1], place.ver[2] + 1>>
    BY <1>0, <2>1, BumpType
  <2> QED BY <1>1, <1>3, <2>1, <2>2 DEF Placed
<1>7. CASE CallBumps
  <2>1. cpc = "bump" /\ BumpRevision /\ UNCHANGED releases
    BY <1>7 DEF CallBumps
  <2>2. CASE Placed
    <3>1. place.ver[2] + 1 <= MaxRev
      BY <1>0, <2>1 DEF RoomLeft
    <3>2. place'.owner = place.owner /\ place'.ver = <<place.ver[1], place.ver[2] + 1>>
      BY <1>0, <2>1, <2>2, <3>1, BumpType
    <3> QED BY <1>1, <1>3, <2>1, <2>2, <3>2 DEF Placed
  <2>3. CASE ~Placed
    BY <2>1, <2>3 DEF BumpRevision, Placed
  <2> QED BY <2>2, <2>3
<1>8. CASE FindIdle \/ Age
  BY <1>8 DEF FindIdle, Age, dbVars, callVars, histVars
<1>9. CASE Release
  <2>1. UNCHANGED <<cpc, calm>> /\ (UNCHANGED <<place, releases>> \/ releases' = releases + 1)
    BY <1>9 DEF Release, callVars
  <2>2. releases \in Nat
    BY <1>0, BoundAssumption DEF RowType
  <2> QED BY <2>1, <2>2
<1> QED BY <1>4, <1>5, <1>6, <1>7, <1>8, <1>9 DEF RowStep

LEMMA NewVersioned ==
  ASSUME Bounded, Bounded', NewVersion, NEW n \in Node, Versioned(n), UNCHANGED <<seen, lock>>
  PROVE  Versioned(n)' /\ seen[n] # place'.ver /\ lock[n].ver # place'.ver
<1>1. seen[n] \in Ver /\ lock[n].ver \in Ver /\ place.ver \in Ver /\ place'.ver \in Ver
  BY DEF Bounded, RowOK, RowType, NodeType, LockRecord
<1>2. /\ seen[n][2] \in Nat /\ lock[n].ver[2] \in Nat /\ place.ver[2] \in Nat /\ place'.ver[2] \in Nat
  BY <1>1, VerParts
<1>3. seen[n] # place'.ver /\ lock[n].ver # place'.ver
  BY <1>1 DEF Versioned, NewVersion
<1>4. seen[n][2] <= place'.ver[2] /\ lock[n].ver[2] <= place'.ver[2]
  BY <1>2 DEF Versioned, NewVersion
<1> QED BY <1>3, <1>4 DEF Versioned, NewVersion

(* What a step of node n does to its lock and to what it has seen. *)
VersionStep(n) ==
  \/ /\ lock'[n].ver = lock[n].ver /\ (lock[n].by = "none" => lock'[n].by = "none")
     /\ seen'[n] \in {seen[n], NoVer}
  \/ lock'[n] = FreeLock /\ seen'[n] \in {seen[n], NoVer, lock[n].ver}
  \/ lock'[n].ver = OwnVer(n) /\ seen'[n] = seen[n]

LEMMA VersionStepOK ==
  ASSUME Bounded, NEW n \in Node, Versioned(n), VersionStep(n), UNCHANGED place
  PROVE  Versioned(n)'
<1>0. RowShape /\ place.ver[1] \in Nat /\ place.ver[2] \in Nat
  <2>1. place.ver \in Ver /\ RowShape
    BY DEF Bounded, RowOK, RowType
  <2> QED BY <2>1, VerParts
<1>1. NoVer[1] = 0 /\ NoVer[2] = 0 /\ FreeLock.ver = NoVer /\ FreeLock.by = "none"
  BY DEF NoVer, FreeLock
<1>2. (Placed <=> Placed') /\ place' = place
  BY DEF Placed
<1>3. Placed => place.ver # NoVer
  BY <1>0, <1>1 DEF RowShape
<1>4. OwnVer(n)[2] <= place.ver[2]
  BY <1>0, <1>1 DEF OwnVer
<1>5. CASE /\ lock'[n].ver = lock[n].ver /\ (lock[n].by = "none" => lock'[n].by = "none")
           /\ seen'[n] \in {seen[n], NoVer}
  BY <1>0, <1>1, <1>2, <1>3, <1>5 DEF Versioned
<1>6. CASE lock'[n] = FreeLock /\ seen'[n] \in {seen[n], NoVer, lock[n].ver}
  BY <1>0, <1>1, <1>2, <1>3, <1>6 DEF Versioned
<1>7. CASE lock'[n].ver = OwnVer(n) /\ seen'[n] = seen[n]
  <2>1. ~Placed => OwnVer(n) = NoVer
    BY <1>0 DEF RowShape, OwnVer, NoRow
  <2>2. Placed /\ OwnVer(n) = place.ver => place.owner = IdOf[n]
    BY <1>3 DEF OwnVer
  <2>3. place.owner = IdOf[n] => OwnVer(n) = place.ver
    BY DEF OwnVer
  <2> QED BY <1>2, <1>4, <1>7, <2>1, <2>2, <2>3 DEF Versioned
<1> QED BY <1>5, <1>6, <1>7 DEF VersionStep

LEMMA NodeVersions ==
  ASSUME Bounded, NEW n \in Node, NodeStep(n) \/ AnswerStep(n)
  PROVE  \A m \in Node :
           IF m = n THEN VersionStep(n) ELSE UNCHANGED <<seen[m], lock[m], frag[m], running[m]>>
<1>0. /\ seen \in [Node -> Ver] /\ lock \in [Node -> LockRecord]
      /\ frag \in [Node -> Content] /\ running \in [Node -> Content]
  BY DEF Bounded, NodeType
<1>1. FreeLock.ver = NoVer /\ FreeLock.by = "none"
  BY DEF FreeLock
<1> DEFINE Others == \A m \in Node : m # n => UNCHANGED <<seen[m], lock[m], frag[m], running[m]>>
<1>2. ASSUME UNCHANGED <<seen, lock>>
      PROVE  VersionStep(n)
  BY <1>2 DEF VersionStep
<1>3. CASE \/ Start(n) \/ Heartbeat(n) \/ HeartbeatFails(n) \/ Stop(n) \/ Deregister(n)
           \/ ReconcileReadFails(n) \/ ApplyRefused(n) \/ ApplyCancelled(n)
  <2>1. UNCHANGED <<stateVars, lock>>
    BY <1>3
    DEF Start, Heartbeat, HeartbeatFails, Stop, Deregister, ReconcileReadFails, ApplyRefused,
        ApplyCancelled, nodeVars
  <2> QED BY <1>2, <2>1 DEF stateVars
<1>4. CASE SelfFence(n) \/ StopLocked(n) \/ Drop(n)
  <2>1. Forget(n) /\ UNCHANGED lock
    BY <1>4 DEF SelfFence, StopLocked, Drop
  <2>2. Others
    BY <1>0, <2>1 DEF Forget
  <2>3. VersionStep(n)
    BY <1>0, <2>1 DEF Forget, VersionStep
  <2> QED BY <2>2, <2>3
<1>5. CASE Crash(n)
  <2>1. Forget(n) /\ Unlock(n)
    BY <1>5 DEF Crash
  <2>2. Others
    BY <1>0, <2>1 DEF Forget, Unlock
  <2>3. VersionStep(n)
    BY <1>0, <2>1 DEF Forget, Unlock, VersionStep
  <2> QED BY <2>2, <2>3
<1>6. ASSUME NEW full \in BOOLEAN, ReconcileRead(n, full)
      PROVE  Others /\ VersionStep(n)
  <2>1. UNCHANGED stateVars
    BY <1>6 DEF ReconcileRead
  <2>2. CASE UNCHANGED lock
    BY <1>2, <2>1, <2>2 DEF stateVars
  <2>3. CASE ~UNCHANGED lock
    <3> DEFINE Read(b) == [by |-> b, ver |-> OwnVer(n), frag |-> Kept(n, OwnVer(n)), live |-> FALSE]
    <3>1. PICK b \in {"project", "reconcile"} : lock' = [lock EXCEPT ![n] = Read(b)]
      BY <1>6, <2>3, ReadLock
    <3>2. Read(b).ver = OwnVer(n)
      OBVIOUS
    <3> HIDE DEF Read
    <3> QED BY <1>0, <2>1, <3>1, <3>2 DEF stateVars, VersionStep
  <2> QED BY <2>2, <2>3
<1>7. CASE ReconcileProject(n)
  <2>1. UNCHANGED stateVars /\ lock' = [lock EXCEPT ![n].by = "reconcile", ![n].frag = db]
        /\ lock[n].by = "project"
    BY <1>7 DEF ReconcileProject
  <2>2. lock'[n].ver = lock[n].ver /\ \A m \in Node : m # n => lock'[m] = lock[m]
    BY <1>0, <2>1
  <2> QED BY <2>1, <2>2 DEF stateVars, VersionStep
<1>8. CASE ReconcileDone(n) \/ ApplyDone(n)
  <2>1. /\ running' = [running EXCEPT ![n] = lock[n].frag]
        /\ frag' = [frag EXCEPT ![n] = lock[n].frag]
        /\ seen' = [seen EXCEPT ![n] = lock[n].ver]
        /\ lock' = [lock EXCEPT ![n] = FreeLock]
    BY <1>8 DEF ReconcileDone, ApplyDone, Unlock
  <2> QED BY <1>0, <2>1 DEF VersionStep
<1>9. CASE ReconcileFails(n) \/ ApplyFails(n)
  <2>1. /\ UNCHANGED running \/ running' = [running EXCEPT ![n] = lock[n].frag]
        /\ UNCHANGED <<frag, seen>>
        /\ lock' = [lock EXCEPT ![n] = FreeLock]
    BY <1>9 DEF ReconcileFails, ApplyFails, MayHaveDeployed, Unlock
  <2> QED BY <1>0, <2>1 DEF VersionStep
<1>10. CASE ApplyBegin(n)
  <2>1. PICK j \in jobs[n] : lock' = [lock EXCEPT ![n] =
          [by |-> "apply", ver |-> OwnVer(n), frag |-> j.frag, live |-> j.live]]
    BY <1>10 DEF ApplyBegin
  <2>2. UNCHANGED stateVars
    BY <1>10 DEF ApplyBegin
  <2> QED BY <1>0, <2>1, <2>2 DEF stateVars, VersionStep
<1>11. CASE OtherOrgApplied(n)
  <2>1. UNCHANGED <<seen, lock, frag>> /\ running' = [running EXCEPT ![n] = frag[n]]
    BY <1>11 DEF OtherOrgApplied
  <2> QED BY <1>0, <1>2, <2>1
<1> QED
  BY <1>3, <1>4, <1>5, <1>6, <1>7, <1>8, <1>9, <1>10, <1>11
  DEF NodeStep, AnswerStep, NodeLife, Reconcile

(* As long as no placement is released, a version is never used twice. *)
Versions == releases = 0 => \A n \in Node : Versioned(n)

LEMMA VersionsNext ==
  ASSUME Bounded, Bounded', Versions, [Next]_vars
  PROVE  Versions'
<1> SUFFICES ASSUME releases' = 0, NEW m \in Node
             PROVE  Versioned(m)'
  BY DEF Versions
<1>1. ASSUME NEW n \in Node, NodeStep(n) \/ AnswerStep(n)
      PROVE  Versioned(m)'
  <2>1. UNCHANGED <<place, releases>>
    BY <1>1, NodeFrame, AnswerFrame DEF dbVars, histVars
  <2>2. Versioned(m)
    BY <2>1 DEF Versions
  <2>3. VersionStep(m)
    BY <1>1, NodeVersions DEF VersionStep
  <2> QED BY <2>1, <2>2, <2>3, VersionStepOK
<1>2. CASE CallStep
  <2>1. UNCHANGED <<place, releases>>
    BY <1>2, CallFrame
  <2>2. UNCHANGED seen /\ lock'[m].ver = lock[m].ver /\ lock'[m].by = lock[m].by
    <3>1. CASE CallTimesOut \/ CallAborts
      <4>1. lock' = [n \in Node |-> [lock[n] EXCEPT !.live = FALSE]] /\ UNCHANGED seen
        BY <3>1 DEF CallTimesOut, CallAborts, Detach, stateVars
      <4>2. lock[m] \in LockRecord
        BY DEF Bounded, NodeType
      <4> QED BY <4>1, <4>2 DEF LockRecord
    <3>2. CASE ~(CallTimesOut \/ CallAborts)
      BY <1>2, <3>2
      DEF CallStep, CallBegin, DeleteBegin, CallNotRouted, CallPushes, CallLosesOwner, CallMarks,
          nodeVars, stateVars
    <3> QED BY <3>1, <3>2
  <2>3. Versioned(m) /\ VersionStep(m)
    BY <2>1, <2>2 DEF Versions, VersionStep
  <2> QED BY <2>1, <2>3, VersionStepOK
<1>3. CASE RowStep
  <2>1. releases = 0 /\ (UNCHANGED place \/ NewVersion)
    BY <1>3, RowEffect
  <2>2. Versioned(m) /\ UNCHANGED <<seen, lock>>
    BY <1>3, <2>1, RowFrame DEF Versions, nodeVars, stateVars
  <2>3. CASE UNCHANGED place
    BY <2>2, <2>3, VersionStepOK DEF VersionStep
  <2>4. CASE NewVersion
    BY <2>2, <2>4, NewVersioned
  <2> QED BY <2>1, <2>3, <2>4
<1>4. CASE UNCHANGED vars
  <2>1. UNCHANGED <<place, seen, lock, releases>>
    BY <1>4 DEF vars, dbVars, nodeVars, stateVars, histVars
  <2> QED BY <2>1, VersionStepOK DEF Versions, VersionStep
<1> QED BY <1>1, <1>2, <1>3, <1>4, StepCases

-----------------------------------------------------------------------------
(* As long as no call has failed or been given up, every push is awaited. *)
AllAwaited ==
  calm => \A n \in Node : (lock[n].by = "apply" => lock[n].live) /\ \A j \in jobs[n] : j.live

LEMMA FewerAwaited == ASSUME AllAwaited, Fewer, calm' => calm PROVE AllAwaited'
BY DEF AllAwaited, Fewer

LEMMA AwaitedNext ==
  ASSUME Bounded, AllAwaited, [Next]_vars
  PROVE  AllAwaited'
<1>0. NodeType /\ LivePushes /\ lock \in [Node -> LockRecord] /\ jobs \in [Node -> SUBSET Job]
  BY DEF Bounded, NodeType
<1>1. ASSUME NEW n \in Node, NodeStep(n)
      PROVE  AllAwaited'
  <2>1. calm' = calm
    BY <1>1, NodeFrame DEF histVars
  <2>2. CASE ApplyBegin(n)
    <3>1. PICK j \in jobs[n] :
            /\ jobs' = [jobs EXCEPT ![n] = @ \ {j}]
            /\ lock' = [lock EXCEPT ![n] =
                 [by |-> "apply", ver |-> OwnVer(n), frag |-> j.frag, live |-> j.live]]
      BY <2>2 DEF ApplyBegin, Taken
    <3>2. lock'[n].live = j.live /\ \A m \in Node : m # n => lock'[m] = lock[m]
      BY <1>0, <3>1
    <3>3. \A m \in Node : jobs'[m] \subseteq jobs[m]
      BY <1>0, <3>1
    <3> QED BY <2>1, <3>2, <3>3 DEF AllAwaited
  <2>3. CASE ~ApplyBegin(n)
    <3>1. Fewer
      BY <1>0, <1>1, <2>3, NodeFewer DEF NodeStep
    <3> QED BY <2>1, <3>1, FewerAwaited
  <2> QED BY <2>2, <2>3
<1>2. ASSUME NEW n \in Node, AnswerStep(n)
      PROVE  AllAwaited'
  <2>1. Fewer
    BY <1>0, <1>2, AnswerCases
  <2>2. calm' => calm
    BY <1>2 DEF AnswerStep, ApplyRefused, ApplyDone, ApplyFails, Answer, Calmly
  <2> QED BY <2>1, <2>2, FewerAwaited
<1>3. CASE CallStep
  <2>1. CASE CallTimesOut \/ CallAborts
    BY <2>1 DEF CallTimesOut, CallAborts, AllAwaited
  <2>2. CASE CallPushes
    <3> DEFINE pushed == [frag |-> cand, live |-> TRUE]
    <3>1. UNCHANGED jobs \/ \E n \in Node : jobs' = [jobs EXCEPT ![n] = @ \cup {pushed}]
      BY <2>2 DEF CallPushes
    <3>2. UNCHANGED lock /\ (calm' => calm)
      BY <2>2 DEF CallPushes, Calmly
    <3>3. pushed.live
      OBVIOUS
    <3> HIDE DEF pushed
    <3>4. \A m \in Node : \A j \in jobs'[m] : j \in jobs[m] \/ j = pushed
      BY <1>0, <3>1
    <3> QED BY <3>2, <3>3, <3>4 DEF AllAwaited
  <2>3. CASE ~(CallTimesOut \/ CallAborts \/ CallPushes)
    <3>1. UNCHANGED nodeVars /\ (UNCHANGED calm \/ Calmly)
      <4>1. CASE CallBegin \/ DeleteBegin
        BY <4>1 DEF CallBegin, DeleteBegin, histVars
      <4>2. CASE CallNotRouted \/ CallLosesOwner \/ CallMarks
        BY <4>2 DEF CallNotRouted, CallLosesOwner, CallMarks
      <4> QED BY <1>3, <2>3, <4>1, <4>2 DEF CallStep
    <3>2. UNCHANGED <<lock, jobs>>
      BY <3>1 DEF nodeVars
    <3>3. calm' => calm
      BY <3>1 DEF Calmly
    <3> QED BY <3>2, <3>3 DEF AllAwaited
  <2> QED BY <2>1, <2>2, <2>3
<1>4. CASE RowStep
  <2>1. UNCHANGED <<lock, jobs>>
    BY <1>4, RowFrame DEF nodeVars
  <2>2. calm' => calm
    BY <1>4
    DEF RowStep, CallPlaces, Assign, Move, CallBumps, FindIdle, Release, Age, Provisioned, Calmly,
        histVars
  <2> QED BY <2>1, <2>2 DEF AllAwaited
<1>5. CASE UNCHANGED vars
  BY <1>5 DEF AllAwaited, vars, nodeVars, histVars
<1> QED BY <1>1, <1>2, <1>3, <1>4, <1>5, StepCases

(* A call that ends calmly ends with its bump. *)
LEMMA CalmEnd ==
  ASSUME Bounded, AllAwaited, calm', cpc' = "idle"
  PROVE  /\ ~CallStep
         /\ \A n \in Node : ~AnswerStep(n) /\ ~(cpc = "idle" /\ ApplyBegin(n))
<1>0. LivePushes
  BY DEF Bounded
<1>1. ASSUME CallStep PROVE FALSE
  BY <1>1
  DEF CallStep, CallBegin, DeleteBegin, Begin, CallNotRouted, CallPushes, CallTimesOut, CallLosesOwner,
      CallMarks, CallAborts, Calmly, At
<1>2. ASSUME NEW n \in Node, AnswerStep(n) PROVE FALSE
  <2>1. \E live \in BOOLEAN : Calmly /\ (live \/ UNCHANGED callVars)
    BY <1>2 DEF AnswerStep, ApplyRefused, ApplyDone, ApplyFails, Answer
  <2>2. calm
    BY <2>1 DEF Calmly
  <2>3. lock[n].by = "apply" \/ \E j \in jobs[n] : TRUE
    BY <1>2 DEF AnswerStep, ApplyRefused, ApplyDone, ApplyFails
  <2>4. cpc = "wait"
    BY <1>0, <2>2, <2>3 DEF AllAwaited, LivePushes
  <2> QED BY <2>1, <2>4 DEF Calmly
<1>3. ASSUME NEW n \in Node, cpc = "idle", ApplyBegin(n) PROVE FALSE
  <2>1. calm /\ \E j \in jobs[n] : TRUE
    BY <1>3 DEF ApplyBegin, histVars
  <2> QED BY <1>0, <1>3, <2>1 DEF AllAwaited, LivePushes
<1> QED BY <1>1, <1>2, <1>3

-----------------------------------------------------------------------------
(* What node n has of the version of now is what the database says: what   *)
(* it runs and keeps, and what it is about to deploy.                      *)
Applied(n) ==
  /\ seen[n] = place.ver => frag[n] = db /\ running[n] = db
  /\ lock[n].by = "reconcile" /\ lock[n].ver = place.ver => lock[n].frag = db

AppliedSeen == releases = 0 /\ calm /\ cpc = "idle" /\ Placed => \A n \in Node : Applied(n)

(* A step of the node itself keeps it. *)
LEMMA NodeApplied ==
  ASSUME Bounded, Placed, NEW n \in Node, Versioned(n), Applied(n), NodeStep(n), ~ApplyBegin(n)
  PROVE  Applied(n)'
<1>0. /\ lock \in [Node -> LockRecord] /\ seen \in [Node -> Ver]
      /\ frag \in [Node -> Content] /\ running \in [Node -> Content]
  BY DEF Bounded, NodeType
<1>1. place.ver # NoVer /\ FreeLock.by = "none"
  BY DEF Bounded, RowOK, RowShape, NoVer, FreeLock
<1>2. UNCHANGED <<db, place>>
  BY NodeFrame
<1>3. ASSUME UNCHANGED stateVars, UNCHANGED lock
      PROVE  Applied(n)'
  BY <1>2, <1>3 DEF Applied, stateVars
<1>4. ASSUME Forget(n), UNCHANGED lock \/ Unlock(n)
      PROVE  Applied(n)'
  <2>1. seen'[n] = NoVer
    BY <1>0, <1>4 DEF Forget
  <2>2. lock'[n] = lock[n] \/ lock'[n] = FreeLock
    BY <1>0, <1>4 DEF Unlock
  <2> QED BY <1>1, <1>2, <2>1, <2>2 DEF Applied
<1>5. CASE NodeLife(n)
  <2>1. CASE Start(n) \/ Heartbeat(n) \/ HeartbeatFails(n) \/ Stop(n) \/ Deregister(n)
    BY <1>3, <2>1 DEF Start, Heartbeat, HeartbeatFails, Stop, Deregister, nodeVars
  <2>2. CASE SelfFence(n) \/ StopLocked(n) \/ Drop(n) \/ Crash(n)
    BY <1>4, <2>2 DEF SelfFence, StopLocked, Drop, Crash
  <2> QED BY <1>5, <2>1, <2>2 DEF NodeLife
<1>6. ASSUME NEW full \in BOOLEAN, ReconcileRead(n, full)
      PROVE  Applied(n)'
  <2>1. UNCHANGED stateVars
    BY <1>6 DEF ReconcileRead
  <2>2. CASE UNCHANGED lock
    BY <1>3, <2>1, <2>2
  <2>3. CASE ~UNCHANGED lock
    <3> DEFINE Read(b) == [by |-> b, ver |-> OwnVer(n), frag |-> Kept(n, OwnVer(n)), live |-> FALSE]
    <3>1. PICK b \in {"project", "reconcile"} :
            /\ lock' = [lock EXCEPT ![n] = Read(b)]
            /\ (b = "reconcile" /\ OwnVer(n) # NoVer) => seen[n] = OwnVer(n)
      BY <1>6, <2>3, ReadLock
    <3>2. Read(b).by = b /\ Read(b).ver = OwnVer(n) /\ Read(b).frag = Kept(n, OwnVer(n))
      OBVIOUS
    <3>3. lock'[n] = Read(b)
      BY <1>0, <3>1
    <3> HIDE DEF Read
    <3>4. b = "reconcile" /\ OwnVer(n) = place.ver => Kept(n, OwnVer(n)) = db
      BY <1>1, <3>1 DEF Applied, Kept
    <3> QED BY <1>2, <2>1, <3>2, <3>3, <3>4 DEF Applied, stateVars
  <2> QED BY <2>2, <2>3
<1>7. CASE ReconcileReadFails(n) \/ ApplyCancelled(n)
  BY <1>3, <1>7 DEF ReconcileReadFails, ApplyCancelled
<1>8. CASE ReconcileProject(n)
  <2>1. UNCHANGED stateVars /\ lock' = [lock EXCEPT ![n].by = "reconcile", ![n].frag = db]
    BY <1>8 DEF ReconcileProject
  <2>2. lock'[n].frag = db
    BY <1>0, <2>1 DEF LockRecord
  <2> QED BY <1>2, <2>1, <2>2 DEF Applied, stateVars
<1>9. CASE ReconcileDone(n)
  <2>1. /\ running'[n] = lock[n].frag /\ frag'[n] = lock[n].frag /\ seen'[n] = lock[n].ver
        /\ lock'[n] = FreeLock /\ lock[n].by = "reconcile"
    BY <1>0, <1>9 DEF ReconcileDone, Unlock
  <2> QED BY <1>1, <1>2, <2>1 DEF Applied
<1>10. CASE ReconcileFails(n)
  <2>1. /\ lock'[n] = FreeLock /\ UNCHANGED <<frag, seen>>
        /\ \/ running'[n] = running[n]
           \/ running'[n] = lock[n].frag /\ lock[n].by = "reconcile"
    BY <1>0, <1>10 DEF ReconcileFails, MayHaveDeployed, Unlock
  <2>2. lock[n].by = "reconcile" /\ seen[n] = place.ver => lock[n].frag = db
    BY DEF Versioned, Applied
  <2> QED BY <1>1, <1>2, <2>1, <2>2 DEF Applied
<1>11. CASE OtherOrgApplied(n)
  <2>1. running'[n] = frag[n] /\ UNCHANGED <<frag, seen, lock>>
    BY <1>0, <1>11 DEF OtherOrgApplied
  <2> QED BY <1>2, <2>1 DEF Applied
<1> QED
  BY <1>5, <1>6, <1>7, <1>8, <1>9, <1>10, <1>11 DEF NodeStep, Reconcile

LEMMA AppliedNext ==
  ASSUME Bounded, Bounded', Versions, AllAwaited, AppliedSeen, [Next]_vars
  PROVE  AppliedSeen'
<1> SUFFICES ASSUME releases' = 0, calm', cpc' = "idle", Placed', NEW m \in Node
             PROVE  Applied(m)'
  BY DEF AppliedSeen
<1>1. ASSUME NEW n \in Node, NodeStep(n)
      PROVE  Applied(m)'
  <2>1. UNCHANGED <<db, place, cpc, calm, releases>>
    BY <1>1, NodeFrame DEF callVars, histVars
  <2>2. Placed /\ Versioned(m) /\ Applied(m)
    BY <2>1 DEF Placed, Versions, AppliedSeen
  <2>3. CASE m = n
    <3>1. ~ApplyBegin(n)
      BY <2>1, CalmEnd
    <3> QED BY <1>1, <2>2, <2>3, <3>1, NodeApplied
  <2>4. CASE m # n
    <3>1. UNCHANGED <<seen[m], lock[m], frag[m], running[m]>>
      BY <1>1, <2>4, NodeVersions
    <3> QED BY <2>1, <2>2, <3>1 DEF Applied
  <2> QED BY <2>3, <2>4
<1>2. ~CallStep /\ \A n \in Node : ~AnswerStep(n)
  BY CalmEnd
<1>3. CASE RowStep
  <2>1. UNCHANGED <<db, frag, seen, running, lock>>
    BY <1>3, RowFrame DEF nodeVars, stateVars
  <2>2. releases = 0 /\ (UNCHANGED place \/ NewVersion) /\ (UNCHANGED <<cpc, calm>> \/ NewVersion)
    BY <1>3, RowEffect
  <2>3. Versioned(m)
    BY <2>2 DEF Versions
  <2>4. CASE NewVersion
    BY <2>1, <2>3, <2>4, NewVersioned DEF Applied
  <2>5. CASE UNCHANGED <<place, cpc, calm>>
    BY <2>1, <2>2, <2>5 DEF AppliedSeen, Applied, Placed
  <2> QED BY <2>2, <2>4, <2>5
<1>4. CASE UNCHANGED vars
  BY <1>4
  DEF AppliedSeen, Applied, Placed, vars, dbVars, nodeVars, stateVars, callVars, histVars
<1> QED BY <1>1, <1>2, <1>3, <1>4, StepCases

Faithful == Bounded /\ Versions /\ AllAwaited /\ AppliedSeen

LEMMA FaithfulInit == Init => Faithful
<1> SUFFICES ASSUME Init PROVE Versions /\ AllAwaited /\ AppliedSeen
  BY BoundedInit DEF Faithful
<1>1. ~Placed
  BY DEF Init, Placed, NoRow
<1>2. Versions
  BY <1>1 DEF Init, Versions, Versioned, NoRow, FreeLock, NoVer
<1>3. AllAwaited
  BY DEF Init, AllAwaited, FreeLock
<1> QED BY <1>1, <1>2, <1>3 DEF AppliedSeen

LEMMA FaithfulNext == Faithful /\ [Next]_vars => Faithful'
<1> SUFFICES ASSUME Faithful, [Next]_vars PROVE Faithful'
  OBVIOUS
<1>1. Bounded /\ Versions /\ AllAwaited /\ AppliedSeen
  BY DEF Faithful
<1>2. Bounded'
  BY <1>1, BoundedNext
<1> QED BY <1>1, <1>2, VersionsNext, AwaitedNext, AppliedNext DEF Faithful

(* As long as no call fails and no placement is released, an idle owner    *)
(* that has seen the version of now runs what the database says, for any   *)
(* workers, incarnations, contents and bounds, and however moves, resyncs, *)
(* bumps, self-fencing, crashes and failed reconciles interleave with the  *)
(* calls.                                                                  *)
THEOREM SeenApplied == Spec => []SeenIsApplied
<1>1. Faithful => SeenIsApplied
  <2> SUFFICES ASSUME Faithful, NEW n \in Node, UpToDate(n), cpc = "idle", calm, releases = 0
               PROVE  running[n] = db /\ frag[n] = db
    BY DEF SeenIsApplied
  <2>1. Placed /\ seen[n] = place.ver
    <3>1. RowShape
      BY DEF Faithful, Bounded, RowOK
    <3> QED BY <3>1 DEF UpToDate, OwnVer, RowShape, NoRow
  <2> QED BY <2>1 DEF Faithful, AppliedSeen, Applied
<1> QED BY <1>1, FaithfulInit, FaithfulNext, PTL DEF Spec
==============================================================================
