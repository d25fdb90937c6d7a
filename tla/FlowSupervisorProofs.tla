------------------------ MODULE FlowSupervisorProofs ------------------------
(***************************************************************************)
(* Proofs about FlowSupervisor and FlowRuntime, for every set of flows,    *)
(* versions and processes, and every capacity of the pipe.                 *)
(***************************************************************************)
EXTENDS FlowSupervisor, TLAPS

(* The empty artifact gives no flow a tab. *)
LEMMA EmptyArtifactType == EmptyArtifact \in Artifact /\ Tabs(EmptyArtifact) = {}
BY DEF EmptyArtifact, Artifact, Tabs

(* The flows with a tab are flows. *)
LEMMA TabsType == \A a : Tabs(a) \in SUBSET Flow
BY DEF Tabs

(* The types are kept when a process begins, dies or is signalled. *)
LEMMA LifeType ==
  ASSUME RuntimeTypeOK, NEW p \in Pid,
         Fork(p) \/ Kill(p) \/ Signal(p) \/ Die(p) \/ UNCHANGED procVars,
         file' \in Artifact \cup {NoFile}
  PROVE  RuntimeTypeOK'
<1> USE EmptyArtifactType DEF RuntimeTypeOK, procVars, farmVars, Stage
<1>1. ASSUME NEW stage \in Stage, Blank(p, stage) PROVE RuntimeTypeOK'
  BY <1>1 DEF Blank
<1>2. CASE Fork(p)
  BY <1>1, <1>2 DEF Fork
<1>3. CASE Die(p)
  BY <1>1, <1>3 DEF Die
<1>4. CASE UNCHANGED procVars
  BY <1>4
<1>5. CASE Kill(p)
  BY <1>3, <1>4, <1>5 DEF Kill
<1>6. CASE SetUsr1(p)
  BY <1>6 DEF SetUsr1
<1>7. CASE Signal(p)
  BY <1>3, <1>4, <1>6, <1>7 DEF Signal
<1> QED
  BY <1>2, <1>3, <1>4, <1>5, <1>7

(* The types are kept when a cycle starts. *)
LEMMA ReadType ==
  ASSUME RuntimeTypeOK, NEW p \in Pid, NEW stage \in Stage, ReadTabs(p, stage),
         file # NoFile, UNCHANGED file, usr1' \in [Pid -> BOOLEAN]
  PROVE  RuntimeTypeOK'
<1>1. Tabs(file) \in SUBSET Flow /\ file \in Artifact
  BY TabsType DEF RuntimeTypeOK
<1>2. art' \in [Pid -> Artifact] /\ todo' \in [Pid -> SUBSET Flow] /\ st' \in [Pid -> Stage]
  BY <1>1 DEF RuntimeTypeOK, ReadTabs
<1> QED
  BY <1>2 DEF RuntimeTypeOK, ReadTabs

(* The types are kept by the outcome of one tab. *)
LEMMA OutcomeType ==
  ASSUME RuntimeTypeOK, NEW p \in Pid, NEW f \in Flow,
         NEW eng \in Ver \cup {NoVer}, NEW bad \in Ver \cup {NoVer},
         NEW kind \in {"started", "error", "stopped"},
         Outcome(p, f, eng, bad, kind), UNCHANGED file
  PROVE  RuntimeTypeOK'
<1> USE DEF RuntimeTypeOK, Outcome
<1>1. engines' \in [Pid -> Artifact] /\ failed' \in [Pid -> Artifact]
  BY DEF Artifact
<1>2. out' \in [Pid -> Seq(Event)]
  <2>1. [ev |-> kind, flow |-> f] \in Event
    BY DEF Event
  <2>2. Append(out[p], [ev |-> kind, flow |-> f]) \in Seq(Event)
    BY <2>1
  <2> QED
    BY <2>2
<1> QED
  BY <1>1, <1>2

(* The types are kept by every step of a runtime process. *)
LEMMA ChildType ==
  ASSUME RuntimeTypeOK, NEW p \in Pid, RuntimeStep(p) \/ Crash(p)
  PROVE  RuntimeTypeOK'
<1> USE DEF RuntimeTypeOK
<1>1. CASE BootRead(p)
  <2>1. CASE file = NoFile
    BY <1>1, <2>1, LifeType DEF BootRead
  <2>2. CASE file # NoFile
    BY <1>1, <2>2, ReadType DEF BootRead, Stage
  <2> QED
    BY <2>1, <2>2
<1>2. CASE BootTab(p)
  <2>1. PICK f \in todo[p] : \/ Outcome(p, f, art[p][f], NoVer, "started")
                             \/ Outcome(p, f, NoVer, art[p][f], "error")
    BY <1>2 DEF BootTab
  <2>2. f \in Flow /\ art[p][f] \in Ver \cup {NoVer} /\ UNCHANGED file
    BY <1>2 DEF Artifact, BootTab
  <2> QED
    BY <2>1, <2>2, OutcomeType
<1>3. CASE BootDone(p) \/ ReloadDone(p)
  BY <1>3, EmptyArtifactType DEF BootDone, ReloadDone, CycleDone, Stage
<1>4. CASE ReloadRead(p)
  <2>1. CASE file = NoFile
    BY <1>4, <2>1 DEF ReloadRead, farmVars
  <2>2. CASE file # NoFile
    BY <1>4, <2>2, ReadType DEF ReloadRead, Stage
  <2> QED
    BY <2>1, <2>2
<1>5. CASE ReloadTab(p)
  <2>1. PICK f \in todo[p] :
          \E e \in {art[p][f], engines[p][f], NoVer}, b \in {art[p][f], failed[p][f], NoVer},
             k \in {"started", "error"} : Outcome(p, f, e, b, k)
    BY <1>5 DEF ReloadTab
  <2>2. f \in Flow /\ UNCHANGED file
    BY <1>5 DEF ReloadTab
  <2>3. {art[p][f], engines[p][f], failed[p][f], NoVer} \subseteq Ver \cup {NoVer}
    BY <2>2 DEF Artifact
  <2> HIDE DEF RuntimeTypeOK
  <2> QED
    BY <2>1, <2>2, <2>3, OutcomeType
<1>6. CASE RemoveTab(p)
  <2>1. PICK f \in Stale(p) :
          \E b \in {failed[p][f], NoVer} : Outcome(p, f, NoVer, b, "stopped")
    BY <1>6 DEF RemoveTab
  <2>2. f \in Flow /\ UNCHANGED file /\ failed[p][f] \in Ver \cup {NoVer}
    BY <1>6 DEF RemoveTab, Stale, Artifact
  <2> QED
    BY <2>1, <2>2, OutcomeType
<1>7. CASE Reaped(p)
  BY <1>7 DEF Reaped, farmVars, Stage
<1>8. CASE Crash(p)
  BY <1>8, LifeType DEF Crash
<1> QED
  BY <1>1, <1>2, <1>3, <1>4, <1>5, <1>6, <1>7, <1>8 DEF RuntimeStep

-----------------------------------------------------------------------------
(* The supervisor's own variables keep their type, once the processes do. *)
SupTypeOK ==
  /\ handle \in Pid \cup {NoPid}
  /\ wanted \in BOOLEAN
  /\ pc \in {"loop", "preflight", "write", "launch", "ack", "stopped"}
  /\ cur \in Request \cup {NoReq}
  /\ pc \in {"preflight", "write", "launch", "ack"} => cur \in Request
  /\ alive \in BOOLEAN
  /\ (pc = "launch" /\ alive) => handle \in Pid
  /\ pending \in Flow \cup {NoFlow}
  /\ ackRes \in {"none", "ok", "error"}
  /\ haltReq \in BOOLEAN
  /\ fenced \in BOOLEAN

(* A step of the loop between two deploys keeps the types. *)
LEMMA LoopType == TypeOK /\ (LoopStep \/ AskHalt) => TypeOK'
<1> SUFFICES ASSUME TypeOK, LoopStep \/ AskHalt PROVE TypeOK'
  OBVIOUS
<1>1. RuntimeTypeOK'
  <2> USE DEF TypeOK
  <2>1. CASE ChildExited \/ TakeDeploy \/ AskHalt
    BY <2>1 DEF ChildExited, TakeDeploy, AskHalt, RuntimeTypeOK, procVars, farmVars
  <2>2. ASSUME NEW p \in Pid, Respawn(p) PROVE RuntimeTypeOK'
    <3>1. Fork(p) /\ file' \in Artifact \cup {NoFile} /\ RuntimeTypeOK
      BY <2>2 DEF Respawn, RuntimeTypeOK
    <3> QED
      BY <3>1, LifeType
  <2>3. CASE Halt \/ Disconnected
    <3>1. KillChild /\ RuntimeTypeOK /\ file' \in Artifact \cup {NoFile}
      BY <2>3 DEF Halt, Disconnected, RuntimeTypeOK
    <3>2. CASE handle = NoPid
      BY <3>1, <3>2 DEF KillChild, RuntimeTypeOK, procVars, farmVars
    <3>3. CASE handle # NoPid
      <4>1. handle \in Pid /\ Kill(handle)
        BY <3>1, <3>3 DEF KillChild
      <4> QED
        BY <3>1, <4>1, LifeType
    <3> QED
      BY <3>2, <3>3
  <2> QED
    BY <2>1, <2>2, <2>3 DEF LoopStep
<1>2. SupTypeOK'
  <2> USE DEF TypeOK, SupTypeOK
  <2>1. CASE ChildExited
    BY <2>1 DEF ChildExited
  <2>2. ASSUME NEW p \in Pid, Respawn(p) PROVE SupTypeOK'
    BY <2>2 DEF Respawn
  <2>3. CASE TakeDeploy
    BY <2>3 DEF TakeDeploy
  <2>4. CASE Halt \/ Disconnected
    BY <2>4 DEF Halt, Disconnected, KillChild
  <2>5. CASE AskHalt
    BY <2>5 DEF AskHalt
  <2> QED
    BY <2>1, <2>2, <2>3, <2>4, <2>5 DEF LoopStep
<1> QED
  BY <1>1, <1>2 DEF TypeOK, SupTypeOK

(* A reply keeps the types of the supervisor's variables. *)
LEMMA ReplyType ==
  ASSUME SupTypeOK, NEW ok \in BOOLEAN, Reply(ok), handle' \in Pid \cup {NoPid}
  PROVE  SupTypeOK'
BY DEF SupTypeOK, Reply

(* So does the wait for the acknowledgement. *)
LEMMA AwaitAckType ==
  ASSUME SupTypeOK, pc = "launch", AwaitAck, handle' \in Pid \cup {NoPid}
  PROVE  SupTypeOK'
<1>1. CASE pending # NoFlow \/ ackRes # "none"
  BY <1>1 DEF AwaitAck, SupTypeOK
<1>2. CASE ~(pending # NoFlow \/ ackRes # "none")
  BY <1>2, ReplyType DEF AwaitAck
<1> QED
  BY <1>1, <1>2

(* A step of handle_deploy keeps the types. *)
LEMMA DeployType == TypeOK /\ DeployStep => TypeOK'
<1> SUFFICES ASSUME TypeOK, DeployStep PROVE TypeOK'
  OBVIOUS
<1>0. SupTypeOK /\ RuntimeTypeOK
  BY DEF TypeOK, SupTypeOK
<1>1. RuntimeTypeOK'
  <2>1. CASE PreflightDown \/ PreflightReports \/ PreflightDies \/ WriteFails
             \/ LaunchNothing \/ LaunchFails \/ AckReceived \/ AckTimeout
    <3>1. UNCHANGED <<file, procVars>>
      BY <2>1 DEF PreflightDown, PreflightReports, PreflightDies, PreflightGreen, WriteFails,
                  LaunchNothing, LaunchFails, AckReceived, AckTimeout
    <3> QED
      BY <1>0, <3>1 DEF RuntimeTypeOK, procVars, farmVars
  <2>2. CASE WriteArtifact
    <3>1. cur.art \in Artifact
      BY <1>0, <2>2 DEF WriteArtifact, SupTypeOK, Request
    <3> QED
      BY <1>0, <2>2, <3>1 DEF WriteArtifact, RuntimeTypeOK, procVars, farmVars
  <2>3. ASSUME NEW p \in Pid, LaunchSpawn(p) PROVE RuntimeTypeOK'
    <3>1. Fork(p) /\ file' \in Artifact \cup {NoFile}
      BY <1>0, <2>3 DEF LaunchSpawn, RuntimeTypeOK
    <3> QED
      BY <1>0, <3>1, LifeType
  <2>4. CASE LaunchSignal
    <3>1. file' \in Artifact \cup {NoFile}
      BY <1>0, <2>4 DEF LaunchSignal, RuntimeTypeOK
    <3>2. CASE ~PidAlive(handle)
      BY <1>0, <2>4, <3>1, <3>2 DEF LaunchSignal, RuntimeTypeOK, procVars, farmVars
    <3>3. CASE PidAlive(handle)
      <4>1. handle \in Pid /\ Signal(handle)
        BY <1>0, <2>4, <3>3 DEF LaunchSignal, SupTypeOK
      <4> QED
        BY <1>0, <3>1, <4>1, LifeType
    <3> QED
      BY <3>2, <3>3
  <2> QED
    BY <2>1, <2>2, <2>3, <2>4 DEF DeployStep
<1>2. SupTypeOK'
  <2>1. CASE PreflightDown \/ WriteFails \/ LaunchNothing \/ LaunchFails \/ AckReceived
             \/ AckTimeout
    <3>1. \E ok \in BOOLEAN : Reply(ok)
      BY <2>1 DEF PreflightDown, WriteFails, LaunchNothing, LaunchFails, AckReceived, AckTimeout
    <3>2. handle' \in Pid \cup {NoPid}
      BY <1>0, <2>1 DEF PreflightDown, WriteFails, LaunchNothing, LaunchFails, AckReceived,
                        AckTimeout, SupTypeOK
    <3> QED
      BY <1>0, <3>1, <3>2, ReplyType
  <2>2. CASE PreflightGreen /\ pc = "preflight"
    BY <1>0, <2>2 DEF PreflightGreen, SupTypeOK
  <2>3. CASE PreflightReports \/ PreflightDies
    <3>1. CASE Reply(FALSE) /\ UNCHANGED handle
      <4>1. handle' \in Pid \cup {NoPid}
        BY <1>0, <3>1 DEF SupTypeOK
      <4> QED
        BY <1>0, <3>1, <4>1, ReplyType
    <3> QED
      BY <2>2, <2>3, <3>1 DEF PreflightReports, PreflightDies
  <2>4. CASE WriteArtifact
    BY <1>0, <2>4 DEF WriteArtifact, SupTypeOK, Request
  <2>5. ASSUME NEW p \in Pid, LaunchSpawn(p) PROVE SupTypeOK'
    BY <1>0, <2>5, AwaitAckType DEF LaunchSpawn
  <2>6. CASE LaunchSignal
    <3>1. handle' \in Pid \cup {NoPid} /\ pc = "launch"
      BY <1>0, <2>6 DEF LaunchSignal, SupTypeOK
    <3> QED
      BY <1>0, <2>6, <3>1, AwaitAckType, ReplyType DEF LaunchSignal
  <2> QED
    BY <2>1, <2>3, <2>4, <2>5, <2>6 DEF DeployStep
<1> QED
  BY <1>1, <1>2 DEF TypeOK, SupTypeOK

(* The pump keeps the types. *)
LEMMA PumpType == ASSUME TypeOK, NEW p \in Pid, Pump(p) PROVE TypeOK'
<1>1. out[p] \in Seq(Event) /\ out[p] # <<>>
  BY DEF TypeOK, RuntimeTypeOK, Pump
<1>2. Tail(out[p]) \in Seq(Event)
  BY <1>1
<1>3. RuntimeTypeOK'
  BY <1>2 DEF TypeOK, RuntimeTypeOK, Pump, farmVars
<1>4. pending' \in Flow \cup {NoFlow} /\ ackRes' \in {"none", "ok", "error"}
  BY DEF TypeOK, Pump
<1> QED
  BY <1>3, <1>4 DEF TypeOK, Pump

(* Every variable keeps its type; in particular a deploy that signals a    *)
(* child has one (the expect("live child") of handle_deploy).              *)
THEOREM TypeCorrect == Spec => []TypeOK
<1>1. Init => TypeOK
  <2>1. RuntimeInit => RuntimeTypeOK
    BY EmptyArtifactType DEF RuntimeInit, RuntimeTypeOK, Stage
  <2> QED
    BY <2>1 DEF Init, TypeOK
<1>2. TypeOK /\ [Next]_vars => TypeOK'
  <2> SUFFICES ASSUME TypeOK, [Next]_vars PROVE TypeOK'
    OBVIOUS
  <2>1. ASSUME NEW p \in Pid, ChildStep(p) \/ (Crash(p) /\ UNCHANGED supVars) PROVE TypeOK'
    <3>1. RuntimeTypeOK /\ (RuntimeStep(p) \/ Crash(p)) /\ UNCHANGED supVars
      BY <2>1 DEF ChildStep, TypeOK
    <3>2. RuntimeTypeOK'
      BY <3>1, ChildType
    <3> QED
      BY <3>1, <3>2 DEF TypeOK, supVars
  <2>2. CASE UNCHANGED vars
    BY <2>2 DEF vars, procVars, farmVars, supVars, TypeOK, RuntimeTypeOK
  <2> QED
    BY <2>1, <2>2, LoopType, DeployType, PumpType DEF Next, Terminated
<1> QED
  BY <1>1, <1>2, PTL DEF Spec

-----------------------------------------------------------------------------
(* The inductive invariant. *)

(* flows.json holding an artifact is not NoFile. *)
LEMMA ArtifactIsFile == \A a \in Artifact : a # NoFile
BY FileAssumption DEF Artifact

(* A step of the supervisor that leaves the processes, flows.json and the  *)
(* handle alone, outside of the launch, keeps the invariant.               *)
LEMMA QuietStep ==
  ASSUME TypeOK, IInv, UNCHANGED <<file, st, farmVars, usr1, handle, fenced>>,
         pc # "launch", pc' # "launch",
         pc' = "ack" => pc = "ack",
         pc = "stopped" => pc' = "stopped",
         wanted' = wanted \/ pc = "ack"
  PROVE  IInv'
<1> USE DEF IInv, farmVars
<1>1. OnlyHandleLives'
  BY DEF OnlyHandleLives, Live
<1>2. LaunchKnows'
  BY DEF LaunchKnows
<1>3. WantedSince'
  BY DEF WantedSince
<1>4. CycleProgress'
  BY DEF CycleProgress, Applied, Tabs
<1>5. RuntimeRunsArtifact'
  BY DEF RuntimeRunsArtifact, Live, Applied
<1> QED
  BY <1>1, <1>2, <1>3, <1>4, <1>5

(* When no process lives, what is left of the invariant is WantedSince. *)
LEMMA NobodyLives ==
  ASSUME TypeOK', \A p \in Pid : ~Live(p)', WantedSince',
         \A p \in Pid : todo[p]' \subseteq Tabs(art[p])'
  PROVE  IInv'
BY DEF IInv, OnlyHandleLives, LaunchKnows, CycleProgress, RuntimeRunsArtifact, Live

(* Killing the child that is held leaves no process alive. *)
LEMMA KillChildKills ==
  ASSUME TypeOK, IInv, KillChild
  PROVE  /\ \A p \in Pid : ~Live(p)'
         /\ \A p \in Pid : todo[p]' \subseteq Tabs(art[p])'
<1>1. CASE handle = NoPid
  BY <1>1, NoneAssumption DEF KillChild, TypeOK, IInv, OnlyHandleLives, CycleProgress, Live, procVars, farmVars, Tabs
<1>2. CASE handle # NoPid /\ ~Live(handle)
  BY <1>2 DEF KillChild, Kill, TypeOK, IInv, OnlyHandleLives, CycleProgress, Live, procVars, farmVars, Tabs
<1>3. CASE handle # NoPid /\ Live(handle)
  <2>1. handle \in Pid /\ Blank(handle, "zombie")
    BY <1>3 DEF KillChild, Kill, Die, TypeOK
  <2>2. \A p \in Pid : st[p]' = IF p = handle THEN "zombie" ELSE st[p]
    BY <2>1 DEF Blank, TypeOK, RuntimeTypeOK
  <2>3. \A p \in Pid : ~Live(p)'
    BY <2>2 DEF Live, IInv, OnlyHandleLives
  <2>4. \A p \in Pid : todo[p]' = (IF p = handle THEN {} ELSE todo[p])
                      /\ (p # handle => art[p]' = art[p])
    BY <2>1 DEF Blank, TypeOK, RuntimeTypeOK
  <2> QED
    BY <2>3, <2>4 DEF IInv, CycleProgress, Tabs
<1> QED
  BY <1>1, <1>2, <1>3

(* A process forked when none lives is the only one, and at its start. *)
LEMMA ForkStep ==
  ASSUME TypeOK, TypeOK', IInv, NEW p \in Pid, Fork(p), handle' = p,
         \A q \in Pid : ~Live(q), UNCHANGED file, file # NoFile, pc' # "launch", WantedSince'
  PROVE  IInv'
<1>1. \A q \in Pid : /\ st[q]' = IF q = p THEN "start" ELSE st[q]
                     /\ todo[q]' = IF q = p THEN {} ELSE todo[q]
                     /\ art[q]' = IF q = p THEN EmptyArtifact ELSE art[q]
                     /\ engines[q]' = IF q = p THEN EmptyArtifact ELSE engines[q]
  BY DEF Fork, Blank, TypeOK, RuntimeTypeOK
<1>2. \A q \in Pid : Live(q)' => (q = p /\ st[q]' = "start")
  BY <1>1 DEF Live
<1>3. OnlyHandleLives'
  BY <1>2 DEF OnlyHandleLives
<1>4. CycleProgress'
  BY <1>1, <1>2 DEF CycleProgress, Live, IInv, Tabs
<1>5. RuntimeRunsArtifact'
  BY <1>2 DEF RuntimeRunsArtifact
<1>6. LaunchKnows'
  BY DEF LaunchKnows
<1> QED
  BY <1>3, <1>4, <1>5, <1>6 DEF IInv

(* The loop between two deploys keeps the invariant. *)
LEMMA LoopInv == TypeOK /\ TypeOK' /\ IInv /\ (LoopStep \/ AskHalt) => IInv'
<1> SUFFICES ASSUME TypeOK, TypeOK', IInv, LoopStep \/ AskHalt PROVE IInv'
  OBVIOUS
<1>1. CASE ChildExited
  <2>1. \A p \in Pid : ~Live(p)
    BY <1>1 DEF ChildExited, IInv, OnlyHandleLives, Live, PidAlive
  <2>2. \A p \in Pid : ~Live(p)' /\ todo[p]' \subseteq Tabs(art[p])'
    BY <1>1, <2>1 DEF ChildExited, IInv, CycleProgress, Live, Tabs, procVars, farmVars
  <2>3. WantedSince'
    BY <1>1 DEF ChildExited, IInv, WantedSince
  <2> QED
    BY <2>2, <2>3, NobodyLives
<1>2. ASSUME NEW p \in Pid, Respawn(p) PROVE IInv'
  <2>1. \A q \in Pid : ~Live(q)
    BY <1>2, NoneAssumption DEF Respawn, IInv, OnlyHandleLives
  <2>2. WantedSince' /\ file # NoFile /\ pc' # "launch"
    BY <1>2 DEF Respawn, IInv, WantedSince
  <2> QED
    BY <1>2, <2>1, <2>2, ForkStep DEF Respawn
<1>3. CASE TakeDeploy
  BY <1>3, QuietStep DEF TakeDeploy, procVars
<1>5. CASE AskHalt
  <2>1. UNCHANGED <<file, st, art, todo, engines, failed, usr1, handle, wanted, pc, alive, fenced>>
    BY <1>5 DEF AskHalt, procVars, farmVars
  <2> QED
    BY <2>1 DEF IInv, OnlyHandleLives, LaunchKnows, WantedSince, CycleProgress,
                RuntimeRunsArtifact, Live, Applied, Tabs
<1>4. CASE Halt \/ Disconnected
  <2>1. KillChild
    BY <1>4 DEF Halt, Disconnected
  <2>2. WantedSince'
    BY <1>4 DEF Halt, Disconnected, KillChild, IInv, WantedSince
  <2> QED
    BY <2>1, <2>2, KillChildKills, NobodyLives
<1> QED
  BY <1>1, <1>2, <1>3, <1>4, <1>5 DEF LoopStep

(* handle_deploy keeps the invariant: in particular its SIGUSR1 reaches    *)
(* the only process whose tabs are no longer those of flows.json.          *)
LEMMA DeployInv == TypeOK /\ TypeOK' /\ IInv /\ DeployStep => IInv'
<1> SUFFICES ASSUME TypeOK, TypeOK', IInv, DeployStep PROVE IInv'
  OBVIOUS
<1>1. CASE PreflightDown \/ PreflightReports \/ PreflightDies \/ WriteFails
           \/ AckReceived \/ AckTimeout
  <2>1. UNCHANGED <<file, st, farmVars, usr1, handle, fenced>>
    BY <1>1 DEF PreflightDown, PreflightReports, PreflightDies, PreflightGreen, WriteFails,
                AckReceived, AckTimeout, Reply, procVars
  <2>2. /\ pc \in {"preflight", "write", "ack"} /\ pc' \in {"loop", "write"}
        /\ wanted' = wanted \/ pc = "ack"
    BY <1>1 DEF PreflightDown, PreflightReports, PreflightDies, PreflightGreen, WriteFails,
                AckReceived, AckTimeout, Reply
  <2> QED
    BY <2>1, <2>2, QuietStep
<1>2. CASE WriteArtifact
  <2>1. file' # NoFile /\ pc' = "launch" /\ ~fenced'
    BY <1>2, ArtifactIsFile DEF WriteArtifact, TypeOK, Request
  <2>2. UNCHANGED <<st, art, todo, engines, failed, usr1, handle, wanted>>
    BY <1>2 DEF WriteArtifact, procVars, farmVars
  <2>3. OnlyHandleLives' /\ WantedSince' /\ RuntimeRunsArtifact'
    BY <2>1, <2>2 DEF OnlyHandleLives, WantedSince, RuntimeRunsArtifact, Live, IInv
  <2>4. CycleProgress'
    BY <2>1, <2>2 DEF CycleProgress, Applied, Tabs, IInv
  <2>5. LaunchKnows'
    <3>1. \A p \in Pid : Live(p) => (handle = p /\ PidAlive(p))
      BY DEF IInv, OnlyHandleLives, Live, PidAlive
    <3>2. \A p \in Pid : Live(p) => alive'
      BY <1>2, <3>1, NoneAssumption DEF WriteArtifact
    <3> QED
      BY <2>2, <3>2 DEF LaunchKnows, Live
  <2> QED
    BY <2>3, <2>4, <2>5 DEF IInv
<1>3. CASE LaunchNothing \/ LaunchFails
  <2>1. \A p \in Pid : ~Live(p)
    BY <1>3 DEF LaunchNothing, LaunchFails, IInv, LaunchKnows
  <2>2. \A p \in Pid : ~Live(p)' /\ todo[p]' \subseteq Tabs(art[p])'
    BY <1>3, <2>1 DEF LaunchNothing, LaunchFails, IInv, CycleProgress, Live, Tabs, procVars, farmVars
  <2>3. WantedSince'
    BY <1>3 DEF LaunchNothing, LaunchFails, Reply, IInv, WantedSince
  <2> QED
    BY <2>2, <2>3, NobodyLives
<1>4. ASSUME NEW p \in Pid, LaunchSpawn(p) PROVE IInv'
  <2>1. \A q \in Pid : ~Live(q)
    BY <1>4 DEF LaunchSpawn, IInv, LaunchKnows
  <2>2. WantedSince' /\ file # NoFile /\ pc' # "launch"
    BY <1>4 DEF LaunchSpawn, AwaitAck, Reply, IInv, WantedSince
  <2> QED
    BY <1>4, <2>1, <2>2, ForkStep DEF LaunchSpawn
<1>5. CASE LaunchSignal
  <2>1. pc = "launch" /\ alive /\ handle \in Pid /\ UNCHANGED <<file, handle>> /\ pc' # "launch"
    BY <1>5 DEF LaunchSignal, AwaitAck, Reply, TypeOK
  <2>2. WantedSince'
    BY <1>5, <2>1 DEF LaunchSignal, AwaitAck, Reply, IInv, WantedSince
  <2>3. LaunchKnows'
    BY <2>1 DEF LaunchKnows
  <2>4. CASE PidAlive(handle) /\ st[handle] \in {"serve", "reload"}
    <3>1. SetUsr1(handle)
      BY <1>5, <2>4 DEF LaunchSignal, Signal
    <3>2. UNCHANGED <<st, art, todo, engines, failed>> /\ usr1[handle]' = TRUE
          /\ \A q \in Pid : q # handle => usr1[q]' = usr1[q]
      BY <2>1, <3>1 DEF SetUsr1, farmVars, TypeOK, RuntimeTypeOK
    <3>3. OnlyHandleLives'
      BY <2>1, <3>2 DEF OnlyHandleLives, Live, IInv
    <3>4. \A q \in Pid : Live(q) => (q = handle /\ st[q] \in {"serve", "reload"})
      BY <2>4 DEF IInv, OnlyHandleLives
    <3>5. CycleProgress'
      BY <2>1, <3>2, <3>4 DEF CycleProgress, Applied, Tabs, IInv, Live
    <3>6. RuntimeRunsArtifact'
      <4>1. \A q \in Pid : Live(q)' => Live(q)
        BY <3>2 DEF Live
      <4>2. \A q \in Pid : Live(q)' => usr1[q]' = TRUE
        BY <2>1, <3>2, <3>4, <4>1
      <4> QED
        BY <4>2 DEF RuntimeRunsArtifact
    <3> QED
      BY <2>2, <2>3, <3>3, <3>5, <3>6 DEF IInv
  <2>5. CASE PidAlive(handle) /\ st[handle] \in {"start", "boot"}
    <3>1. Blank(handle, "zombie")
      BY <1>5, <2>5 DEF LaunchSignal, Signal, Die
    <3>2. \A q \in Pid : /\ st[q]' = IF q = handle THEN "zombie" ELSE st[q]
                         /\ todo[q]' = IF q = handle THEN {} ELSE todo[q]
                         /\ (q # handle => art[q]' = art[q])
      BY <2>1, <3>1 DEF Blank, TypeOK, RuntimeTypeOK
    <3>3. \A q \in Pid : ~Live(q)' /\ todo[q]' \subseteq Tabs(art[q])'
      BY <3>2 DEF Live, IInv, OnlyHandleLives, CycleProgress, Tabs
    <3> QED
      BY <2>2, <3>3, NobodyLives
  <2>6. CASE ~Live(handle)
    <3>1. UNCHANGED procVars
      BY <1>5, <2>6 DEF LaunchSignal, Signal, Live
    <3>2. \A q \in Pid : ~Live(q)' /\ todo[q]' \subseteq Tabs(art[q])'
      BY <2>6, <3>1 DEF Live, IInv, OnlyHandleLives, CycleProgress, Tabs, procVars, farmVars
    <3> QED
      BY <2>2, <3>2, NobodyLives
  <2> QED
    BY <2>4, <2>5, <2>6 DEF Live, PidAlive
<1> QED
  BY <1>1, <1>2, <1>3, <1>4, <1>5 DEF DeployStep

(* What the outcome of one tab means for the other processes and flows. *)
LEMMA OutcomeFrame ==
  ASSUME TypeOK, NEW p \in Pid, NEW f \in Flow, NEW eng, NEW bad, NEW kind,
         Outcome(p, f, eng, bad, kind)
  PROVE  /\ UNCHANGED <<st, art, usr1>>
         /\ todo[p]' = todo[p] \ {f}
         /\ engines[p]'[f] = eng /\ failed[p]'[f] = bad
         /\ \A g \in Flow : g # f => engines[p]'[g] = engines[p][g] /\ failed[p]'[g] = failed[p][g]
         /\ \A q \in Pid : q # p => /\ todo[q]' = todo[q]
                                   /\ engines[q]' = engines[q]
                                   /\ failed[q]' = failed[q]
BY DEF Outcome, TypeOK, RuntimeTypeOK, Artifact

(* A process that handles the tab of one flow, or removes one, keeps the   *)
(* invariant: that flow is done, the others are as they were.              *)
LEMMA OutcomeInv ==
  ASSUME TypeOK, IInv, NEW p \in Pid, NEW f \in Flow, NEW eng, NEW bad, NEW kind,
         Outcome(p, f, eng, bad, kind), UNCHANGED <<file, supVars>>,
         st[p] \in {"boot", "reload"},
         f \in Tabs(art[p]) => art[p][f] \in {eng, bad},
         f \notin Tabs(art[p]) => eng = NoVer
  PROVE  IInv'
<1>1. UNCHANGED <<file, st, art, usr1, handle, wanted, pc, alive, fenced>>
  BY OutcomeFrame DEF supVars
<1>2. OnlyHandleLives' /\ LaunchKnows' /\ WantedSince'
  BY <1>1 DEF IInv, OnlyHandleLives, LaunchKnows, WantedSince, Live
<1>3. RuntimeRunsArtifact'
  BY <1>1, OutcomeFrame DEF IInv, RuntimeRunsArtifact, Live, Applied
<1>4. ASSUME NEW g \in Flow
      PROVE  /\ g # f => Applied(p, art[p], g) = Applied(p, art[p], g)'
             /\ Applied(p, art[p], f)'
  BY <1>1, OutcomeFrame DEF Applied, Tabs
<1>5. CycleProgress'
  <2> SUFFICES ASSUME NEW q \in Pid
               PROVE  /\ st[q]' = "start" => engines[q]' = EmptyArtifact
                      /\ st[q]' = "boot" =>
                           /\ art[q]' = file' \/ pc' = "launch"
                           /\ \A g \in Flow \ todo[q]' : Applied(q, art[q], g)'
                      /\ st[q]' = "reload" =>
                           /\ art[q]' = file' \/ usr1[q]' \/ pc' = "launch"
                           /\ \A g \in Tabs(art[q])' \ todo[q]' : Applied(q, art[q], g)'
                      /\ todo[q]' \subseteq Tabs(art[q])'
    BY DEF CycleProgress
  <2>1. CASE q # p
    BY <1>1, <2>1, OutcomeFrame DEF IInv, CycleProgress, Applied, Tabs
  <2>2. CASE q = p
    <3>1. todo[p]' \subseteq Tabs(art[p])' /\ Tabs(art[p])' = Tabs(art[p])
      BY <1>1, OutcomeFrame DEF IInv, CycleProgress, Tabs
    <3>2. CASE st[p] = "boot"
      <4>1. art[p] = file \/ pc = "launch"
        BY <3>2 DEF IInv, CycleProgress
      <4>2. \A g \in Flow \ todo[p] : Applied(p, art[p], g)
        BY <3>2 DEF IInv, CycleProgress
      <4>3. \A g \in Flow \ todo[p]' : Applied(p, art[p], g)'
        BY <1>4, <4>2, OutcomeFrame
      <4> QED
        BY <1>1, <2>2, <3>1, <3>2, <4>1, <4>3
    <3>3. CASE st[p] = "reload"
      <4>1. art[p] = file \/ usr1[p] \/ pc = "launch"
        BY <3>3 DEF IInv, CycleProgress
      <4>2. \A g \in Tabs(art[p]) \ todo[p] : Applied(p, art[p], g)
        BY <3>3 DEF IInv, CycleProgress
      <4>3. \A g \in Tabs(art[p]) \ todo[p]' : Applied(p, art[p], g)'
        BY <1>4, <4>2, OutcomeFrame DEF Tabs
      <4> QED
        BY <1>1, <2>2, <3>1, <3>3, <4>1, <4>3
    <3> QED
      BY <3>2, <3>3
  <2> QED
    BY <2>1, <2>2
<1> QED
  BY <1>2, <1>3, <1>5 DEF IInv

(* A process that dies takes nothing of the invariant with it. *)
LEMMA DieInv ==
  ASSUME TypeOK, TypeOK', IInv, NEW p \in Pid, Die(p), Live(p), UNCHANGED <<file, supVars>>
  PROVE  IInv'
<1>1. \A q \in Pid : /\ st[q]' = IF q = p THEN "zombie" ELSE st[q]
                     /\ todo[q]' = IF q = p THEN {} ELSE todo[q]
                     /\ (q # p => art[q]' = art[q])
  BY DEF Die, Blank, TypeOK, RuntimeTypeOK
<1>2. \A q \in Pid : ~Live(q)' /\ todo[q]' \subseteq Tabs(art[q])'
  BY <1>1 DEF Live, IInv, OnlyHandleLives, CycleProgress, Tabs
<1>3. WantedSince'
  BY DEF IInv, WantedSince, supVars
<1> QED
  BY <1>2, <1>3, NobodyLives

(* A process that starts a cycle works on the current flows.json. *)
LEMMA ReadInv ==
  ASSUME TypeOK, TypeOK', IInv, NEW p \in Pid, NEW stage \in {"boot", "reload"},
         ReadTabs(p, stage), UNCHANGED <<file, supVars>>, file # NoFile,
         stage = "boot" => engines[p] = EmptyArtifact,
         Live(p), \A q \in Pid : q # p => usr1[q]' = usr1[q]
  PROVE  IInv'
<1>1. /\ UNCHANGED <<file, engines, failed, handle, wanted, pc, alive, fenced>>
      /\ \A q \in Pid : /\ st[q]' = IF q = p THEN stage ELSE st[q]
                        /\ art[q]' = IF q = p THEN file ELSE art[q]
                        /\ todo[q]' = IF q = p THEN Tabs(file) ELSE todo[q]
  BY DEF ReadTabs, supVars, TypeOK, RuntimeTypeOK
<1>2. \A q \in Pid : Live(q) => q = p
  BY DEF IInv, OnlyHandleLives
<1>3. \A q \in Pid : Live(q)' => (q = p /\ st[q]' = stage)
  BY <1>1, <1>2 DEF Live
<1>4. OnlyHandleLives' /\ LaunchKnows' /\ WantedSince'
  BY <1>1, <1>3 DEF IInv, OnlyHandleLives, LaunchKnows, WantedSince
<1>5. RuntimeRunsArtifact'
  BY <1>3 DEF RuntimeRunsArtifact
<1>6. /\ stage = "boot" => \A f \in Flow \ Tabs(file) : Applied(p, file, f)'
      /\ \A f \in Tabs(file) \ Tabs(file) : Applied(p, file, f)'
  BY <1>1 DEF Applied, Tabs, EmptyArtifact
<1>7. CycleProgress'
  <2>1. ASSUME NEW q \in Pid, q # p
        PROVE  /\ st[q]' \notin {"start", "boot", "reload"}
               /\ todo[q]' \subseteq Tabs(art[q])'
    <3>1. st[q]' \notin {"start", "boot", "reload"}
      BY <1>3, <2>1 DEF Live
    <3>2. todo[q] \subseteq Tabs(art[q])
      BY DEF IInv, CycleProgress
    <3> QED
      BY <1>1, <2>1, <3>1, <3>2 DEF Tabs
  <2>2. /\ st[p]' = stage /\ art[p]' = file' /\ Tabs(art[p])' = Tabs(file)
        /\ todo[p]' = Tabs(file)
    BY <1>1 DEF Tabs
  <2>3. /\ stage = "boot" => \A f \in Flow \ todo[p]' : Applied(p, art[p], f)'
        /\ \A f \in Tabs(art[p])' \ todo[p]' : Applied(p, art[p], f)'
    BY <1>1, <1>6, <2>2 DEF Applied
  <2> QED
    BY <2>1, <2>2, <2>3 DEF CycleProgress
<1> QED
  BY <1>4, <1>5, <1>7 DEF IInv

(* A process that ends its cycle has applied the artifact it read, which   *)
(* is the current one unless a signal is pending or about to be sent.      *)
LEMMA DoneInv ==
  ASSUME TypeOK, TypeOK', IInv, NEW p \in Pid, CycleDone(p), UNCHANGED <<file, supVars>>,
         st[p] \in {"boot", "reload"}, todo[p] = {},
         \A f \in Flow : Applied(p, art[p], f)
  PROVE  IInv'
<1>1. /\ UNCHANGED <<file, todo, engines, failed, usr1, handle, wanted, pc, alive, fenced>>
      /\ \A q \in Pid : /\ st[q]' = IF q = p THEN "serve" ELSE st[q]
                        /\ art[q]' = IF q = p THEN EmptyArtifact ELSE art[q]
  BY DEF CycleDone, supVars, TypeOK, RuntimeTypeOK
<1>2. \A q \in Pid : Live(q) => (q = p /\ file # NoFile)
  BY DEF IInv, OnlyHandleLives, Live
<1>3. \A q \in Pid : Live(q)' => q = p
  BY <1>1, <1>2 DEF Live
<1>4. OnlyHandleLives' /\ LaunchKnows' /\ WantedSince'
  BY <1>1, <1>2, <1>3 DEF IInv, OnlyHandleLives, LaunchKnows, WantedSince, Live
<1>5. CycleProgress'
  <2>1. ASSUME NEW q \in Pid, q # p
        PROVE  /\ st[q]' \notin {"start", "boot", "reload"}
               /\ todo[q]' \subseteq Tabs(art[q])'
    <3>1. st[q]' \notin {"start", "boot", "reload"}
      BY <1>3, <2>1 DEF Live
    <3>2. todo[q] \subseteq Tabs(art[q])
      BY DEF IInv, CycleProgress
    <3> QED
      BY <1>1, <2>1, <3>1, <3>2 DEF Tabs
  <2>2. st[p]' = "serve" /\ todo[p]' = {}
    BY <1>1
  <2> QED
    BY <2>1, <2>2 DEF CycleProgress
<1>6. RuntimeRunsArtifact'
  <2>1. art[p] = file \/ usr1[p] \/ pc = "launch"
    BY DEF IInv, CycleProgress
  <2>2. (~usr1[p] /\ pc # "launch") => \A f \in Flow : Applied(p, file, f)'
    BY <1>1, <2>1 DEF Applied
  <2>3. file # NoFile
    BY <1>2 DEF Live
  <2> QED
    BY <1>1, <1>3, <2>2, <2>3 DEF RuntimeRunsArtifact
<1> QED
  BY <1>4, <1>5, <1>6 DEF IInv

(* Every step of a process keeps the invariant. *)
LEMMA ChildInv ==
  ASSUME TypeOK, TypeOK', IInv, NEW p \in Pid, RuntimeStep(p) \/ Crash(p), UNCHANGED supVars
  PROVE  IInv'
<1>1. CASE BootRead(p)
  <2>1. file # NoFile /\ Live(p) /\ engines[p] = EmptyArtifact
    BY <1>1 DEF BootRead, Live, IInv, OnlyHandleLives, CycleProgress
  <2>2. ReadTabs(p, "boot") /\ UNCHANGED <<file, usr1>>
    BY <1>1, <2>1 DEF BootRead
  <2> QED
    BY <2>1, <2>2, ReadInv
<1>2. CASE BootTab(p)
  <2>1. PICK f \in todo[p] : \/ Outcome(p, f, art[p][f], NoVer, "started")
                             \/ Outcome(p, f, NoVer, art[p][f], "error")
    BY <1>2 DEF BootTab
  <2>2. f \in Flow /\ f \in Tabs(art[p]) /\ st[p] = "boot" /\ UNCHANGED file
    BY <1>2 DEF BootTab, IInv, CycleProgress, TypeOK, RuntimeTypeOK
  <2> QED
    BY <2>1, <2>2, OutcomeInv
<1>3. CASE BootDone(p)
  <2>1. \A f \in Flow : Applied(p, art[p], f)
    BY <1>3 DEF BootDone, IInv, CycleProgress
  <2> QED
    BY <1>3, <2>1, DoneInv DEF BootDone
<1>4. CASE ReloadRead(p)
  <2>1. file # NoFile /\ Live(p)
    BY <1>4 DEF ReloadRead, Live, IInv, OnlyHandleLives
  <2>2. ReadTabs(p, "reload") /\ UNCHANGED file
    BY <1>4, <2>1 DEF ReloadRead
  <2>3. \A q \in Pid : q # p => usr1[q]' = usr1[q]
    BY <1>4 DEF ReloadRead, TypeOK, RuntimeTypeOK
  <2> QED
    BY <2>1, <2>2, <2>3, ReadInv
<1>5. CASE ReloadTab(p)
  <2>1. PICK f \in todo[p] :
          \E e, b : /\ \E k : Outcome(p, f, e, b, k)
                   /\ art[p][f] \in {e, b}
    BY <1>5 DEF ReloadTab
  <2>2. f \in Flow /\ f \in Tabs(art[p]) /\ st[p] = "reload" /\ UNCHANGED file
    BY <1>5 DEF ReloadTab, IInv, CycleProgress, TypeOK, RuntimeTypeOK
  <2> QED
    BY <2>1, <2>2, OutcomeInv
<1>6. CASE RemoveTab(p)
  <2>1. PICK f \in Stale(p) : \E b : Outcome(p, f, NoVer, b, "stopped")
    BY <1>6 DEF RemoveTab
  <2>2. f \in Flow /\ f \notin Tabs(art[p]) /\ st[p] = "reload" /\ UNCHANGED file
    BY <1>6 DEF RemoveTab, Stale
  <2> QED
    BY <2>1, <2>2, OutcomeInv
<1>7. CASE ReloadDone(p)
  <2>1. \A f \in Tabs(art[p]) : Applied(p, art[p], f)
    BY <1>7 DEF ReloadDone, IInv, CycleProgress
  <2>2. \A f \in Flow \ Tabs(art[p]) : Applied(p, art[p], f)
    BY <1>7 DEF ReloadDone, Stale, Applied, Tabs
  <2> QED
    BY <1>7, <2>1, <2>2, DoneInv DEF ReloadDone
<1>8. CASE Reaped(p)
  <2>1. /\ UNCHANGED <<file, art, todo, engines, failed, usr1, handle, wanted, pc, alive, fenced>>
        /\ \A q \in Pid : st[q]' = IF q = p THEN "gone" ELSE st[q]
    BY <1>8 DEF Reaped, farmVars, supVars, TypeOK, RuntimeTypeOK
  <2>2. OnlyHandleLives' /\ LaunchKnows' /\ WantedSince'
    BY <2>1 DEF IInv, OnlyHandleLives, LaunchKnows, WantedSince, Live
  <2>3. CycleProgress'
    BY <2>1 DEF IInv, CycleProgress, Applied, Tabs
  <2>4. RuntimeRunsArtifact'
    BY <2>1 DEF IInv, RuntimeRunsArtifact, Live, Applied
  <2> QED
    BY <2>2, <2>3, <2>4 DEF IInv
<1>9. CASE Crash(p)
  BY <1>9, DieInv DEF Crash
<1> QED
  BY <1>1, <1>2, <1>3, <1>4, <1>5, <1>6, <1>7, <1>8, <1>9 DEF RuntimeStep

(* The inductive invariant holds. *)
THEOREM Inductive == Spec => []IInv
<1>1. Init => IInv
  BY NoneAssumption
     DEF Init, RuntimeInit, IInv, OnlyHandleLives, LaunchKnows, WantedSince, CycleProgress,
         RuntimeRunsArtifact, Live
<1>2. TypeOK /\ TypeOK' /\ IInv /\ [Next]_vars => IInv'
  <2> SUFFICES ASSUME TypeOK, TypeOK', IInv, [Next]_vars PROVE IInv'
    OBVIOUS
  <2>1. ASSUME NEW p \in Pid, ChildStep(p) \/ (Crash(p) /\ UNCHANGED supVars) PROVE IInv'
    BY <2>1, ChildInv DEF ChildStep
  <2>2. ASSUME UNCHANGED <<file, st, farmVars, usr1, handle, wanted, pc, alive, fenced>>
        PROVE  IInv'
    BY <2>2 DEF IInv, OnlyHandleLives, LaunchKnows, WantedSince, CycleProgress,
                RuntimeRunsArtifact, Live, Applied, Tabs, farmVars
  <2>3. ASSUME NEW p \in Pid, Pump(p) PROVE IInv'
    BY <2>2, <2>3 DEF Pump
  <2>4. CASE UNCHANGED vars
    BY <2>2, <2>4 DEF vars, procVars, supVars
  <2> QED
    BY <2>1, <2>3, <2>4, LoopInv, DeployInv DEF Next, Terminated
<1> QED
  BY <1>1, <1>2, TypeCorrect, PTL DEF Spec

(* A supervisor never has two live runtimes: only the child it holds       *)
(* lives, and it forks only when that one is gone.                         *)
THEOREM AtMostOneRuntime == Spec => []OneRuntime
<1>1. IInv => OneRuntime
  BY DEF IInv, OnlyHandleLives, OneRuntime
<1> QED
  BY <1>1, Inductive, PTL

(* Supervisor::halt is a fence: nothing runs until the next deploy. *)
THEOREM HaltIsAFence == Spec => []HaltFences
<1>1. IInv => HaltFences
  BY NoneAssumption DEF IInv, OnlyHandleLives, WantedSince, HaltFences
<1> QED
  BY <1>1, Inductive, PTL

(* No SIGUSR1 is lost: an idle runtime runs what flows.json says. *)
THEOREM NoReloadLost == Spec => []RuntimeRunsArtifact
<1>1. IInv => RuntimeRunsArtifact
  BY DEF IInv
<1> QED
  BY <1>1, Inductive, PTL
=============================================================================
