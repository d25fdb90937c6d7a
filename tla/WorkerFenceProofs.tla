-------------------------- MODULE WorkerFenceProofs --------------------------
(***************************************************************************)
(* Theorems about WorkerFence: types, and the timing argument behind       *)
(* self-fencing for every choice of the delays that meets Budget.          *)
(***************************************************************************)
EXTENDS WorkerFence, TLAPS

USE DelayAssumption, SanitizedAssumption DEF DelayAssumption, SanitizedAssumption

LEMMA InitTypes == Init => TypeOK
<1>1. Init => ClocksOK
  BY DEF Init, ClocksOK, Age, Horizon
<1>2. Init => FlagsOK
  BY DEF Init, FlagsOK
<1> QED
  BY <1>1, <1>2 DEF TypeOK

(* What the deploys do to the clocks and to the lock, their flags aside. *)
LEMMA BeginFacts ==
  ASSUME ReconcileBegin \/ ApplyBegin
  PROVE  /\ UNCHANGED <<rowAge, silence, hb, hbTime, written, healthy, halted, running, ctlVars, back>>
         /\ lock = "free" /\ lock' \in {"reconcile", "apply"} /\ lockAge' = lockAge
         /\ (queued \/ ~halted) /\ (queued' => queued)
<1>1. CASE ReconcileBegin
  BY <1>1, Zenon DEF ReconcileBegin, Begin, hbVars
<1>2. CASE ApplyBegin
  BY <1>2, Zenon DEF ApplyBegin, Begin, hbVars
<1> QED
  BY <1>1, <1>2

LEMMA DoneFacts ==
  ASSUME DeployDone \/ DeployFailed
  PROVE  /\ UNCHANGED <<rowAge, silence, hb, hbTime, written, healthy, ctlVars, back>>
         /\ lock # "free" /\ lock' = "free" /\ UNCHANGED <<queued, mine>>
         /\ lockAge' = IF hb = "fence" THEN lockAge ELSE 0
<1>1. CASE DeployDone
  BY <1>1, Zenon DEF DeployDone, Unlock, hbVars
<1>2. CASE DeployFailed
  BY <1>2, Zenon DEF DeployFailed, Unlock, hbVars
<1> QED
  BY <1>1, <1>2

LEMMA NextClocks == ClocksOK /\ [Next]_vars => ClocksOK'
<1> SUFFICES ASSUME ClocksOK, [Next]_vars PROVE ClocksOK'
  OBVIOUS
<1> USE DEF ClocksOK, Age, Horizon, hbVars, lockVars
<1>1. CASE Beat
  BY <1>1 DEF Beat
<1>2. CASE Written
  BY <1>2 DEF Written
<1>3. CASE ReplyOk
  BY <1>3 DEF ReplyOk
<1>4. CASE ReplyErr
  BY <1>4 DEF ReplyErr
<1>5. CASE Fence
  BY <1>5 DEF Fence
<1>6. CASE ReconcileBegin \/ ApplyBegin
  BY <1>6, BeginFacts
<1>7. CASE DeployDone \/ DeployFailed
  BY <1>7, DoneFacts
<1>8. CASE DeclareDead \/ Failover \/ RoundOver \/ ReconcileCheck
  BY <1>8 DEF DeclareDead, Failover, RoundOver, ReconcileCheck
<1>9. CASE Tick
  BY <1>9 DEF Tick, MayWait, Older
<1>10. CASE UNCHANGED vars
  BY <1>10 DEF vars
<1> QED
  BY <1>1, <1>2, <1>3, <1>4, <1>5, <1>6, <1>7, <1>8, <1>9, <1>10 DEF Next

LEMMA NextFlags == FlagsOK /\ [Next]_vars => FlagsOK'
<1> SUFFICES ASSUME FlagsOK, [Next]_vars PROVE FlagsOK'
  OBVIOUS
<1> USE DEF FlagsOK, hbVars, lockVars, ctlVars
<1>1. CASE Beat \/ Written \/ ReplyOk \/ ReplyErr \/ Fence
  BY <1>1, Zenon DEF Beat, Written, ReplyOk, ReplyErr, Fence
<1>2. CASE ReconcileBegin \/ ApplyBegin
  BY <1>2, Zenon DEF ReconcileBegin, ApplyBegin, Begin
<1>3. CASE DeployDone
  BY <1>3, Zenon DEF DeployDone, Unlock
<1>4. CASE DeployFailed
  <2>1. (running' = running) \/ (running' = mine)
    BY <1>4 DEF DeployFailed
  <2> QED
    BY <1>4, <2>1, Zenon DEF DeployFailed, Unlock
<1>5. CASE DeclareDead \/ Failover \/ RoundOver \/ ReconcileCheck
  BY <1>5, Zenon DEF DeclareDead, Failover, RoundOver, ReconcileCheck
<1>6. CASE Tick
  BY <1>6, Zenon DEF Tick
<1>7. CASE UNCHANGED vars
  BY <1>7, Zenon DEF vars
<1> QED
  BY <1>1, <1>2, <1>3, <1>4, <1>5, <1>6, <1>7, Zenon DEF Next

(* Every reachable state is well typed, whatever the delays: no call nor   *)
(* lock outlasts its bound.                                                *)
THEOREM TypeCorrect == Spec => []TypeOK
<1>1. TypeOK /\ [Next]_vars => TypeOK'
  BY NextClocks, NextFlags DEF TypeOK
<1> QED
  BY InitTypes, <1>1, PTL DEF Spec

-----------------------------------------------------------------------------
LEMMA InitInv == Init => IInv
BY DEF Init, IInv, RowFollows, SilenceBounded, DeadIsDown, DeployOutrunsMove, DownBeforeMove, Age, Horizon

(* While the runtime may run, the row is not old enough to be called dead. *)
LEMMA NotDeadYet ==
  ASSUME Budget, ClocksOK, RowFollows, SilenceBounded, MayRun
  PROVE  ~(rowAge + Skew > Ttl)
<1>1. silence <= (SelfFence - 1) + Period + CallMax + LockMax
  BY DEF SilenceBounded, ClocksOK, Age, Horizon
<1> QED
  BY <1>1 DEF Budget, RowFollows, ClocksOK, Age, Horizon

LEMMA NextRowFollows == ClocksOK /\ RowFollows /\ [Next]_vars => RowFollows'
<1> SUFFICES ASSUME ClocksOK, RowFollows, [Next]_vars
             PROVE  RowFollows'
  OBVIOUS
<1> USE DEF ClocksOK, RowFollows, Age, Horizon, hbVars, lockVars
<1>1. CASE Beat
  BY <1>1 DEF Beat
<1>2. CASE Written
  BY <1>2 DEF Written
<1>3. CASE ReplyOk
  BY <1>3 DEF ReplyOk
<1>4. CASE ReplyErr
  BY <1>4 DEF ReplyErr
<1>5. CASE Fence
  BY <1>5 DEF Fence
<1>6. CASE ReconcileBegin \/ ApplyBegin
  BY <1>6, BeginFacts
<1>7. CASE DeployDone \/ DeployFailed
  BY <1>7, DoneFacts
<1>8. CASE DeclareDead \/ Failover \/ RoundOver \/ ReconcileCheck
  BY <1>8 DEF DeclareDead, Failover, RoundOver, ReconcileCheck
<1>9. CASE Tick
  BY <1>9 DEF Tick, MayWait, Older
<1>10. CASE UNCHANGED vars
  BY <1>10 DEF vars
<1> QED
  BY <1>1, <1>2, <1>3, <1>4, <1>5, <1>6, <1>7, <1>8, <1>9, <1>10 DEF Next

(* MayRun begins with a heartbeat that succeeds, which ends the silence;   *)
(* while it lasts only time adds to it.                                    *)
LEMMA NextSilenceBounded == ClocksOK /\ SilenceBounded /\ [Next]_vars => SilenceBounded'
<1> SUFFICES ASSUME ClocksOK, SilenceBounded, [Next]_vars PROVE SilenceBounded'
  OBVIOUS
<1> USE DEF ClocksOK, SilenceBounded, MayRun, Age, Horizon, hbVars, lockVars
<1>1. CASE Beat
  BY <1>1 DEF Beat
<1>2. CASE Written
  BY <1>2 DEF Written
<1>3. CASE ReplyOk
  BY <1>3 DEF ReplyOk
<1>4. CASE ReplyErr
  BY <1>4 DEF ReplyErr
<1>5. CASE Fence
  BY <1>5 DEF Fence
<1>6. CASE ReconcileBegin \/ ApplyBegin
  BY <1>6, BeginFacts
<1>7. CASE DeployDone \/ DeployFailed
  BY <1>7, DoneFacts
<1>8. CASE DeclareDead \/ Failover \/ RoundOver \/ ReconcileCheck
  BY <1>8 DEF DeclareDead, Failover, RoundOver, ReconcileCheck
<1>9. CASE Tick
  BY <1>9 DEF Tick, MayWait, Older
<1>10. CASE UNCHANGED vars
  BY <1>10 DEF vars
<1> QED
  BY <1>1, <1>2, <1>3, <1>4, <1>5, <1>6, <1>7, <1>8, <1>9, <1>10 DEF Next

(* Declared dead implies down (NotDeadYet); what may run again after that  *)
(* takes a heartbeat that succeeds.                                        *)
LEMMA NextDeadIsDown ==
  ASSUME Budget, ClocksOK, RowFollows, SilenceBounded, DeadIsDown, [Next]_vars
  PROVE  DeadIsDown'
<1> USE DEF DeadIsDown, MayRun, hbVars, lockVars, ctlVars
<1>1. CASE DeclareDead
  <2>1. ~MayRun
    BY <1>1, NotDeadYet DEF DeclareDead
  <2> QED
    BY <1>1, <2>1, Zenon DEF DeclareDead
<1>2. CASE Failover \/ RoundOver
  BY <1>2, Zenon DEF Failover, RoundOver
<1>3. CASE Beat \/ Written \/ ReplyErr
  BY <1>3 DEF Beat, Written, ReplyErr
<1>4. CASE ReplyOk
  BY <1>4 DEF ReplyOk
<1>5. CASE Fence
  BY <1>5 DEF Fence
<1>6. CASE ReconcileBegin \/ ApplyBegin
  BY <1>6, BeginFacts, Zenon
<1>7. CASE DeployDone \/ DeployFailed
  BY <1>7, DoneFacts, Zenon
<1>8. CASE Tick
  BY <1>8 DEF Tick
<1>9. CASE ReconcileCheck
  BY <1>9, Zenon DEF ReconcileCheck
<1>10. CASE UNCHANGED vars
  BY <1>10, Zenon DEF vars
<1> QED
  BY <1>1, <1>2, <1>3, <1>4, <1>5, <1>6, <1>7, <1>8, <1>9, <1>10 DEF Next

(* A move finds the runtime down, unless the worker is back; a deploy that *)
(* begins after the move finds the org elsewhere.                          *)
LEMMA NextDown ==
  ASSUME FlagsOK, DeadIsDown, DeployOutrunsMove, DownBeforeMove, [Next]_vars
  PROVE  DeployOutrunsMove' /\ DownBeforeMove'
<1> USE DEF DeployOutrunsMove, DownBeforeMove, hbVars, lockVars, ctlVars
<1>1. CASE Failover
  <2>1. back \/ (~running /\ lock = "free")
    BY <1>1, Zenon DEF Failover, DeadIsDown, MayRun
  <2>2. moved' /\ raced' = back /\ UNCHANGED <<running, lock>>
    BY <1>1, Zenon DEF Failover
  <2>3. raced' \/ (~running' /\ lock' = "free")
    BY <2>1, <2>2
  <2>4. DownBeforeMove'
    BY <2>3, Zenon
  <2>5. DeployOutrunsMove'
    BY <2>3, Zenon
  <2> QED
    BY <2>4, <2>5
<1>2. CASE DeclareDead \/ RoundOver \/ ReconcileCheck
  <2>1. UNCHANGED <<lock, mine, moved, raced, running>>
    BY <1>2 DEF DeclareDead, RoundOver, ReconcileCheck
  <2> QED
    BY <2>1, Zenon
<1>3. CASE ReconcileBegin \/ ApplyBegin
  <2>1. mine' = ~moved
    BY <1>3, Zenon DEF ReconcileBegin, ApplyBegin, Begin
  <2>2. DeployOutrunsMove'
    BY <1>3, <2>1, BeginFacts, Zenon
  <2>3. DownBeforeMove'
    BY <1>3, BeginFacts, Zenon
  <2> QED
    BY <2>2, <2>3
<1>4. CASE DeployDone
  BY <1>4, Zenon DEF DeployDone, Unlock
<1>5. CASE DeployFailed
  <2>1. lock # "free" /\ lock' = "free" /\ UNCHANGED <<moved, raced>>
    BY <1>5, Zenon DEF DeployFailed, Unlock
  <2>2. (running' = running) \/ (running' = mine)
    BY <1>5 DEF DeployFailed
  <2>3. (moved /\ ~raced) => (~running /\ ~mine)
    BY <2>1, Zenon
  <2>4. DownBeforeMove'
    BY <2>1, <2>2, <2>3, Zenon
  <2> QED
    BY <2>1, <2>4, Zenon
<1>6. CASE Beat \/ Written \/ ReplyOk \/ ReplyErr
  <2>1. UNCHANGED <<lock, mine, moved, raced, running>>
    BY <1>6 DEF Beat, Written, ReplyOk, ReplyErr
  <2> QED
    BY <2>1, Zenon
<1>7. CASE Fence
  BY <1>7, Zenon DEF Fence
<1>8. CASE Tick
  BY <1>8, Zenon DEF Tick
<1>9. CASE UNCHANGED vars
  BY <1>9, Zenon DEF vars
<1> QED
  BY <1>1, <1>2, <1>3, <1>4, <1>5, <1>6, <1>7, <1>8, <1>9, Zenon DEF Next

(* The timing argument of worker.rs: if the delays fit in Budget, an org   *)
(* is moved away from a worker only when its runtime is down, the worker   *)
(* that comes back during the round of the controller excepted.            *)
THEOREM FencedBeforeFailover == Budget => (Spec => []DownBeforeMove)
<1> SUFFICES ASSUME Budget PROVE Spec => []DownBeforeMove
  OBVIOUS
<1>1. ClocksOK /\ FlagsOK /\ IInv /\ [Next]_vars => IInv'
  BY NextRowFollows, NextSilenceBounded, NextDeadIsDown, NextDown DEF IInv
<1>2. TypeOK => ClocksOK /\ FlagsOK
  BY DEF TypeOK
<1>3. IInv => DownBeforeMove
  BY DEF IInv
<1> QED
  BY InitInv, TypeCorrect, <1>1, <1>2, <1>3, PTL DEF Spec
=============================================================================
