--------------------------- MODULE FlowSupervisor ---------------------------
(***************************************************************************)
(* The supervision loop of one flow runtime (services/flow_supervisor):    *)
(* deploys (pre-flight, write of flows.json, spawn or SIGUSR1, per-flow    *)
(* acknowledgement), halts, restarts of a dead child, and the pump that    *)
(* turns the events of the child into acknowledgements.                    *)
(*                                                                         *)
(* The channel of commands is abstracted: whenever the loop is free it may *)
(* receive any request of its callers.  A request to halt is remembered    *)
(* until it is served.                                                     *)
(***************************************************************************)
EXTENDS FlowRuntime

CONSTANTS NoFlow, NoPid, NoReq

ASSUME NoneAssumption == NoFlow \notin Flow /\ NoPid \notin Pid

VARIABLES
  handle,  \* the child the loop holds (ChildProc), NoPid if none
  wanted,  \* runtime_wanted
  pc,      \* where the loop is
  cur,     \* the DeployRequest being handled
  alive,   \* handle_deploy's local: the child was alive before the write
  pending, \* flow whose acknowledgement is registered in PendingAcks
  ackRes,  \* what the pump sent to the acknowledgement being awaited
  haltReq, \* a caller awaits the end of Supervisor::halt
  fenced   \* history: halted, and nothing deployed since

supVars == <<handle, wanted, pc, cur, alive, pending, ackRes, haltReq, fenced>>
vars == <<file, procVars, supVars>>

(* What the callers send: reconcile of the worker or reprojection of an    *)
(* org (no acknowledgement), deploy of one flow (its tab is in the         *)
(* artifact), stop of one flow (it is not).                                *)
Request == [art : Artifact, ack : Flow \cup {NoFlow}]

(* A deploy, the request whose pre-flight failure is blocking. *)
Enforced(r) == r.ack \in Tabs(r.art)

TypeOK ==
  /\ RuntimeTypeOK
  /\ handle \in Pid \cup {NoPid}
  /\ wanted \in BOOLEAN
  /\ pc \in {"loop", "preflight", "write", "launch", "ack", "stopped"}
  /\ cur \in Request \cup {NoReq}
  /\ pc \in {"preflight", "write", "launch", "ack"} => cur \in Request
  /\ alive \in BOOLEAN
  /\ (pc = "launch" /\ alive) => handle \in Pid
  /\ pending \in Flow \cup {NoFlow}
  /\ ackRes \in {"none", "ok", "error"}
  /\ haltReq \in BOOLEAN
  /\ fenced \in BOOLEAN

Init ==
  /\ RuntimeInit
  /\ handle = NoPid /\ wanted = FALSE
  /\ pc = "loop" /\ cur = NoReq /\ alive = FALSE
  /\ pending = NoFlow /\ ackRes = "none"
  /\ haltReq = FALSE /\ fenced = FALSE

-----------------------------------------------------------------------------
(* The supervision loop between two commands. *)

(* Mutant: the handle of the dead child is kept. *)
ChildExitedUnnoticed ==
  /\ pc = "loop" /\ handle # NoPid /\ ~PidAlive(handle)
  /\ UNCHANGED vars

(* Step 1: the exit of the child has been reported. *)
ChildExited ==
  /\ pc = "loop" /\ handle # NoPid /\ ~PidAlive(handle)
  /\ handle' = NoPid
  /\ UNCHANGED <<file, procVars, wanted, pc, cur, alive, pending, ackRes, haltReq, fenced>>

(* A pid whose process is over and whose pipe is read may be reused. *)
CanFork(p) == ~PidAlive(p) /\ out[p] = <<>> /\ handle # p

(* Step 2: scheduled restart.  The backoff is any delay; a launch that     *)
(* fails is tried again later.                                             *)
Respawn(p) ==
  /\ pc = "loop" /\ wanted /\ handle = NoPid /\ CanFork(p)
  /\ Fork(p)
  /\ handle' = p
  /\ UNCHANGED <<file, wanted, pc, cur, alive, pending, ackRes, haltReq, fenced>>

(* Step 3: a deploy is received.  A reconcile, or a fragment without tab,  *)
(* has an empty scope and goes without pre-flight.                         *)
TakeDeploy ==
  /\ pc = "loop"
  /\ \E r \in Request :
       /\ cur' = r
       /\ pc' = "preflight" \/ (pc' = "write" /\ ~Enforced(r))
  /\ UNCHANGED <<file, procVars, handle, wanted, alive, pending, ackRes, haltReq, fenced>>

(* A caller (self-fencing, permanent stop) sends Halt. *)
AskHalt ==
  /\ pc # "stopped" /\ ~haltReq
  /\ haltReq' = TRUE
  /\ UNCHANGED <<file, procVars, handle, wanted, pc, cur, alive, pending, ackRes, fenced>>

(* The child the loop holds is killed and no longer held. *)
KillChild ==
  /\ IF handle = NoPid THEN UNCHANGED procVars ELSE Kill(handle)
  /\ handle' = NoPid

(* Mutant: the child is killed but still wanted. *)
HaltStillWanted ==
  /\ pc = "loop" /\ haltReq
  /\ KillChild
  /\ file' = NoFile
  /\ haltReq' = FALSE /\ fenced' = TRUE
  /\ UNCHANGED <<wanted, pc, cur, alive, pending, ackRes>>

(* Step 3: a halt is received. *)
Halt ==
  /\ pc = "loop" /\ haltReq
  /\ wanted' = FALSE
  /\ KillChild
  /\ file' = NoFile
  /\ haltReq' = FALSE /\ fenced' = TRUE
  /\ UNCHANGED <<pc, cur, alive, pending, ackRes>>

(* Step 3: every Supervisor handle is dropped, the channel is closed. *)
Disconnected ==
  /\ pc = "loop" /\ ~haltReq
  /\ pc' = "stopped"
  /\ KillChild
  /\ fenced' = TRUE
  /\ UNCHANGED <<file, wanted, cur, alive, pending, ackRes, haltReq>>

-----------------------------------------------------------------------------
(* handle_deploy *)

(* The reply goes out.  Whatever is still registered is dropped; only a    *)
(* success says whether a runtime is wanted.                               *)
Reply(ok) ==
  /\ pc' = "loop" /\ cur' = NoReq
  /\ pending' = NoFlow /\ ackRes' = "none"
  /\ wanted' = IF ok THEN Tabs(cur.art) # {} ELSE wanted
  /\ alive' = FALSE
  /\ UNCHANGED <<haltReq, fenced>>

(* The deployed flow is among the tabs the pre-flight rejects. *)
Blocking == Enforced(cur) /\ cur.art[cur.ack] \in Rejected

(* The pre-flight cannot run, or times out. *)
PreflightDown ==
  /\ pc = "preflight"
  /\ Reply(FALSE)
  /\ UNCHANGED <<file, procVars, handle>>

PreflightGreen ==
  /\ pc' = "write"
  /\ UNCHANGED <<file, procVars, handle, wanted, cur, alive, pending, ackRes, haltReq, fenced>>

(* The pre-flight reports on every tab of its scope. *)
PreflightReports ==
  /\ pc = "preflight"
  /\ IF Blocking
       THEN Reply(FALSE) /\ UNCHANGED <<file, procVars, handle>>
       ELSE PreflightGreen

(* The pre-flight dies before it reports on the deployed flow: its exit    *)
(* status is not looked at, what it reported counts.                       *)
PreflightDies ==
  /\ pc = "preflight"
  /\ PreflightGreen

(* flows.json cannot be written: it keeps its content. *)
WriteFails ==
  /\ pc = "write"
  /\ Reply(FALSE)
  /\ UNCHANGED <<file, procVars, handle>>

(* The acknowledgement is registered, then flows.json replaced.  A flow    *)
(* absent from the artifact needs no acknowledgement of a dead runtime.    *)
WriteArtifact ==
  /\ pc = "write"
  /\ LET up == handle # NoPid /\ PidAlive(handle)
     IN /\ alive' = up
        /\ pending' = IF cur.ack # NoFlow /\ (up \/ cur.ack \in Tabs(cur.art))
                        THEN cur.ack ELSE NoFlow
  /\ file' = cur.art
  /\ fenced' = FALSE
  /\ pc' = "launch"
  /\ UNCHANGED <<procVars, handle, wanted, cur, ackRes, haltReq>>

(* Wait for the acknowledgement, or answer at once if none is expected.    *)
(* One that came already is waited for no longer than any other.           *)
AwaitAck ==
  IF pending # NoFlow \/ ackRes # "none"
    THEN /\ pc' = "ack"
         /\ UNCHANGED <<wanted, cur, alive, pending, ackRes, haltReq, fenced>>
    ELSE Reply(TRUE)

(* Nothing runs and there is nothing to run. *)
LaunchNothing ==
  /\ pc = "launch" /\ ~alive /\ Tabs(cur.art) = {}
  /\ handle' = NoPid
  /\ Reply(TRUE)
  /\ UNCHANGED <<file, procVars>>

(* Mutant: the child is replaced whether it is alive or not. *)
LaunchSpawnAlways(p) ==
  /\ pc = "launch" /\ Tabs(cur.art) # {} /\ CanFork(p)
  /\ Fork(p)
  /\ handle' = p
  /\ AwaitAck
  /\ UNCHANGED file

(* No child alive: it is spawned on the new file. *)
LaunchSpawn(p) ==
  /\ pc = "launch" /\ ~alive /\ Tabs(cur.art) # {} /\ CanFork(p)
  /\ Fork(p)
  /\ handle' = p
  /\ AwaitAck
  /\ UNCHANGED file

(* The spawn fails. *)
LaunchFails ==
  /\ pc = "launch" /\ ~alive /\ Tabs(cur.art) # {}
  /\ handle' = NoPid
  /\ Reply(FALSE)
  /\ UNCHANGED <<file, procVars>>

(* Mutant: the child is only signalled when somebody awaits the outcome. *)
LaunchSignalIfAcked ==
  /\ pc = "launch" /\ alive
  /\ IF PidAlive(handle)
       THEN /\ IF pending = NoFlow THEN UNCHANGED procVars ELSE Signal(handle)
            /\ AwaitAck
       ELSE /\ Reply(FALSE)
            /\ UNCHANGED procVars
  /\ UNCHANGED <<file, handle>>

(* The child was alive: SIGUSR1, an error if it is reaped meanwhile. *)
LaunchSignal ==
  /\ pc = "launch" /\ alive
  /\ IF PidAlive(handle)
       THEN /\ Signal(handle)
            /\ AwaitAck
       ELSE /\ Reply(FALSE)
            /\ UNCHANGED procVars
  /\ UNCHANGED <<file, handle>>

(* The acknowledgement arrived. *)
AckReceived ==
  /\ pc = "ack" /\ ackRes # "none"
  /\ Reply(ackRes = "ok")
  /\ UNCHANGED <<file, procVars, handle>>

(* Mutant: the acknowledgement is awaited without a deadline. *)
AckNeverTimesOut ==
  /\ pc = "ack" /\ ackRes = "none"
  /\ UNCHANGED vars

(* reload_ack_secs elapsed without an acknowledgement. *)
AckTimeout ==
  /\ pc = "ack" /\ ackRes = "none"
  /\ Reply(FALSE)
  /\ UNCHANGED <<file, procVars, handle>>

-----------------------------------------------------------------------------
(* Mutant: the name of the event is passed on as the outcome. *)
PumpRaw(p) ==
  /\ out[p] # <<>>
  /\ LET e == Head(out[p])
     IN /\ pending' = IF pending = e.flow THEN NoFlow ELSE pending
        /\ ackRes' = IF pending = e.flow THEN e.ev ELSE ackRes
  /\ out' = [out EXCEPT ![p] = Tail(@)]
  /\ UNCHANGED <<file, st, farmVars, usr1, handle, wanted, pc, cur, alive, haltReq, fenced>>

(* The pump reads one event of p, dead or alive: whatever the deploy the   *)
(* event stems from, it resolves the acknowledgement of its flow.          *)
Pump(p) ==
  /\ out[p] # <<>>
  /\ LET e == Head(out[p])
         resolves == pending = e.flow
     IN /\ pending' = IF resolves THEN NoFlow ELSE pending
        /\ ackRes' = IF ~resolves THEN ackRes
                     ELSE IF e.ev = "error" THEN "error" ELSE "ok"
  /\ out' = [out EXCEPT ![p] = Tail(@)]
  /\ UNCHANGED <<file, st, farmVars, usr1, handle, wanted, pc, cur, alive, haltReq, fenced>>

LoopStep ==
  \/ ChildExited
  \/ \E p \in Pid : Respawn(p)
  \/ TakeDeploy
  \/ Halt
  \/ Disconnected

DeployStep ==
  \/ PreflightDown
  \/ PreflightReports
  \/ PreflightDies
  \/ WriteFails
  \/ WriteArtifact
  \/ LaunchNothing
  \/ \E p \in Pid : LaunchSpawn(p)
  \/ LaunchFails
  \/ LaunchSignal
  \/ AckReceived
  \/ AckTimeout

ChildStep(p) == RuntimeStep(p) /\ UNCHANGED supVars

(* The supervisor is gone and its last child reaped. *)
Terminated ==
  /\ pc = "stopped"
  /\ \A p \in Pid : ~PidAlive(p) /\ out[p] = <<>>
  /\ UNCHANGED vars

Next ==
  \/ LoopStep
  \/ DeployStep
  \/ AskHalt
  \/ \E p \in Pid : ChildStep(p) \/ (Crash(p) /\ UNCHANGED supVars) \/ Pump(p)
  \/ Terminated

Spec == Init /\ [][Next]_vars

(***************************************************************************)
(* Fairness: the tasks of the backend and the child run.  The supervision  *)
(* loop looks for a dead child and restarts it at every turn, before the   *)
(* commands, and takes the commands in the order of their arrival: hence   *)
(* strong fairness for these steps.                                        *)
(***************************************************************************)
Fairness ==
  /\ WF_vars(DeployStep)
  /\ SF_vars(ChildExited)
  /\ SF_vars(\E p \in Pid : Respawn(p))
  /\ SF_vars(Halt)
  /\ \A p \in Pid : WF_vars(ChildStep(p)) /\ WF_vars(Pump(p))

LiveSpec == Spec /\ Fairness

-----------------------------------------------------------------------------
(* Never two runtimes for one supervisor: every flow would act twice. *)
OneRuntime == \A p, q \in Pid : Live(p) /\ Live(q) => p = q

(* Once halt has returned, and until the next deploy writes flows.json, no *)
(* child runs and none is restarted: what self-fencing relies on.          *)
HaltFences == fenced => \A p \in Pid : ~Live(p)

(* What artifact a asks of flow f has been done in p: the flow is removed, *)
(* or its version runs, or that version is known to fail.                  *)
Applied(p, a, f) ==
  IF a[f] = NoVer
    THEN engines[p][f] = NoVer
    ELSE a[f] \in {engines[p][f], failed[p][f]}

(* No reload is lost: a child that waits for a signal, none being on its   *)
(* way, runs the content of flows.json, whatever the writes and signals    *)
(* that came while it was booting or reloading.                            *)
RuntimeRunsArtifact ==
  \A p \in Pid :
    (Live(p) /\ st[p] = "serve" /\ ~usr1[p] /\ pc # "launch")
      => (file # NoFile /\ \A f \in Flow : Applied(p, file, f))

(* Every content written to flows.json ends up applied, unless it is       *)
(* replaced or the child dies.                                             *)
SettlesOnArtifact ==
  \A a \in Artifact :
    (file = a /\ \E p \in Pid : Live(p))
      ~> \/ file # a
         \/ \A p \in Pid : ~Live(p)
         \/ \E p \in Pid : Live(p) /\ \A f \in Flow : Applied(p, a, f)

(* A wanted runtime that is down is started again, however often it dies   *)
(* and whatever deploys come meanwhile.                                    *)
KeepsRespawning == wanted ~> (~wanted \/ pc = "stopped" \/ \E p \in Pid : Live(p))

(* A halt is served, even behind a deploy whose child never answers. *)
HaltIsServed == haltReq ~> ~haltReq

(***************************************************************************)
(* The inductive invariant behind OneRuntime, HaltFences and               *)
(* RuntimeRunsArtifact.                                                    *)
(***************************************************************************)

(* Only the child the loop holds lives, on an existing flows.json. *)
OnlyHandleLives == \A p \in Pid : Live(p) => (handle = p /\ file # NoFile)

(* What handle_deploy knows of the child between the write and the launch. *)
LaunchKnows ==
  (pc = "launch" /\ ~alive) => \A p \in Pid : ~Live(p)

(* A runtime is wanted only once something was deployed, and not any more  *)
(* after a halt.                                                           *)
WantedSince ==
  /\ wanted => file # NoFile
  /\ pc \in {"launch", "ack"} => (~fenced /\ file # NoFile)
  /\ fenced => (handle = NoPid /\ (pc = "stopped" \/ ~wanted))

(* How far the cycle of a live process is: the tabs handled so far, and    *)
(* whether the artifact it works on is the current one.                    *)
CycleProgress ==
  \A p \in Pid :
    /\ st[p] = "start" => engines[p] = EmptyArtifact
    /\ st[p] = "boot" =>
         /\ art[p] = file \/ pc = "launch"
         /\ \A f \in Flow \ todo[p] : Applied(p, art[p], f)
    /\ st[p] = "reload" =>
         /\ art[p] = file \/ usr1[p] \/ pc = "launch"
         /\ \A f \in Tabs(art[p]) \ todo[p] : Applied(p, art[p], f)
    /\ todo[p] \subseteq Tabs(art[p])

IInv ==
  OnlyHandleLives /\ LaunchKnows /\ WantedSince /\ CycleProgress /\ RuntimeRunsArtifact

-----------------------------------------------------------------------------
(* Contradicted by the code.  lifecycle.rs marks the database after the    *)
(* acknowledgement, so that "the version can no longer be "deployed"       *)
(* without running": a positive acknowledgement would mean that the        *)
(* runtime, if still up, has the version asked for.                        *)
AckedVersionRuns ==
  [][(ackRes = "none" /\ ackRes' = "ok" /\ Enforced(cur))
       => \A p \in Pid : Live(p) => engines[p][cur.ack] = cur.art[cur.ack]]_vars

(* Contradicted by the code.  flow-engine.md says that a deploy renames    *)
(* the candidate "seulement si vert", run_preflight that no check_done     *)
(* report is an error: a version the runtime cannot build would never be   *)
(* written by its own deploy.                                              *)
PreflightGuardsFile == pc = "launch" => ~Blocking

(* Contradicted by the code.  lifecycle.rs says that "an unacknowledged    *)
(* stop leaves the flow deployed and running": its tab would still be in   *)
(* the artifact.                                                           *)
UnackedStopKeepsFlow ==
  [][(pc = "ack" /\ pc' = "loop" /\ ackRes # "ok" /\ cur.art[cur.ack] = NoVer)
       => file'[cur.ack] # NoVer]_vars

(* Contradicted by the code.  The contract of the supervisor says that on  *)
(* SIGUSR1 "the runtime re-reads the file and redeploys": the signal of a  *)
(* deploy would never end the child.                                       *)
SignalOnlyReloads ==
  [][(pc = "launch" /\ pc' # "launch") => \A p \in Pid : Live(p) => Live(p)']_vars
=============================================================================
