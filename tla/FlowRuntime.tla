----------------------------- MODULE FlowRuntime -----------------------------
(***************************************************************************)
(* The flow runtime child processes (crate pnex-flow-runtime): the farm of *)
(* engines, one per flow, its boot, its SIGUSR1 diff reload, and the       *)
(* outcome events it writes to its stdout pipe.                            *)
(*                                                                         *)
(* An artifact gives each flow the version of its tab (its hash), NoVer    *)
(* when the flow has no tab.  Several processes may exist: the supervisor  *)
(* is to keep at most one of them alive.                                   *)
(***************************************************************************)
EXTENDS Naturals, Sequences

CONSTANTS
  Flow,     \* flow ids
  Ver,      \* versions of a tab, told apart by their hash
  Rejected, \* versions that build_engine refuses
  NoVer,    \* no tab for this flow
  NoFile,   \* flows.json does not exist
  Pid,      \* process ids; one is reused once its process is reaped and its pipe read
  PipeCap   \* events the stdout pipe holds before the writer blocks

ASSUME VerAssumption == Rejected \subseteq Ver /\ NoVer \notin Ver
ASSUME FileAssumption == NoFile \notin [Flow -> Ver \cup {NoVer}]
ASSUME PipeAssumption == PipeCap \in Nat \ {0}

VARIABLES
  file,    \* flows.json, or NoFile
  st,      \* per pid: the stage of the process ("zombie": over, not reaped yet)
  art,     \* per pid: the tabs read at the beginning of the cycle, forgotten at its end
  todo,    \* per pid: tabs of art this cycle has not handled yet
  engines, \* per pid: version of the live engine of each flow
  failed,  \* per pid: version of the last failure of each flow
  usr1,    \* per pid: a SIGUSR1 is pending (signals coalesce)
  out      \* per pid: stdout events the pump has not read yet

farmVars == <<art, todo, engines, failed>>
procVars == <<st, farmVars, usr1, out>>

Artifact == [Flow -> Ver \cup {NoVer}]
EmptyArtifact == [f \in Flow |-> NoVer]
Tabs(a) == {f \in Flow : a[f] # NoVer}

Stage == {"start", "boot", "serve", "reload", "zombie", "gone"}
Event == [ev : {"started", "error", "stopped"}, flow : Flow]

RuntimeTypeOK ==
  /\ file \in Artifact \cup {NoFile}
  /\ st \in [Pid -> Stage]
  /\ art \in [Pid -> Artifact]
  /\ todo \in [Pid -> SUBSET Flow]
  /\ engines \in [Pid -> Artifact]
  /\ failed \in [Pid -> Artifact]
  /\ usr1 \in [Pid -> BOOLEAN]
  /\ out \in [Pid -> Seq(Event)]

Live(p) == st[p] \in {"start", "boot", "serve", "reload"}

(* kill(pid, 0) succeeds: a zombie still counts. *)
PidAlive(p) == st[p] # "gone"

RuntimeInit ==
  /\ file = NoFile
  /\ st = [p \in Pid |-> "gone"]
  /\ art = [p \in Pid |-> EmptyArtifact]
  /\ todo = [p \in Pid |-> {}]
  /\ engines = [p \in Pid |-> EmptyArtifact]
  /\ failed = [p \in Pid |-> EmptyArtifact]
  /\ usr1 = [p \in Pid |-> FALSE]
  /\ out = [p \in Pid |-> <<>>]

-----------------------------------------------------------------------------
(* What the supervisor and the system do to process p. *)

(* p begins or ends: it has nothing in memory, its pipe keeps its events. *)
Blank(p, stage) ==
  /\ st' = [st EXCEPT ![p] = stage]
  /\ art' = [art EXCEPT ![p] = EmptyArtifact]
  /\ todo' = [todo EXCEPT ![p] = {}]
  /\ engines' = [engines EXCEPT ![p] = EmptyArtifact]
  /\ failed' = [failed EXCEPT ![p] = EmptyArtifact]
  /\ usr1' = [usr1 EXCEPT ![p] = FALSE]
  /\ UNCHANGED out

Fork(p) == Blank(p, "start")

Die(p) == Blank(p, "zombie")

Kill(p) == IF Live(p) THEN Die(p) ELSE UNCHANGED procVars

SetUsr1(p) ==
  /\ usr1' = [usr1 EXCEPT ![p] = TRUE]
  /\ UNCHANGED <<st, farmVars, out>>

(* Mutant: a signal that arrives during a reload is dropped. *)
SignalIfIdle(p) ==
  CASE st[p] \in {"start", "boot"} -> Die(p)
    [] st[p] = "serve" -> SetUsr1(p)
    [] OTHER -> UNCHANGED procVars

(* SIGUSR1.  Its handler is installed after the boot: until then the       *)
(* default action of the signal ends the process.                          *)
Signal(p) ==
  CASE st[p] \in {"start", "boot"} -> Die(p)
    [] st[p] \in {"serve", "reload"} -> SetUsr1(p)
    [] OTHER -> UNCHANGED procVars

-----------------------------------------------------------------------------
(* The process can write one more event. *)
CanEmit(p) == Len(out[p]) < PipeCap

(* p starts a cycle on the content of flows.json. *)
ReadTabs(p, stage) ==
  /\ st' = [st EXCEPT ![p] = stage]
  /\ art' = [art EXCEPT ![p] = file]
  /\ todo' = [todo EXCEPT ![p] = Tabs(file)]
  /\ UNCHANGED <<engines, failed, out>>

(* p ends its cycle and waits for a signal. *)
CycleDone(p) ==
  /\ st' = [st EXCEPT ![p] = "serve"]
  /\ art' = [art EXCEPT ![p] = EmptyArtifact]
  /\ UNCHANGED <<todo, engines, failed, usr1, out>>

(* p is done with flow f: the version of its engine, the version of its    *)
(* last failure, and the event that tells of it.                           *)
Outcome(p, f, eng, bad, kind) ==
  /\ todo' = [todo EXCEPT ![p] = @ \ {f}]
  /\ engines' = [engines EXCEPT ![p][f] = eng]
  /\ failed' = [failed EXCEPT ![p][f] = bad]
  /\ out' = [out EXCEPT ![p] = Append(@, [ev |-> kind, flow |-> f])]
  /\ UNCHANGED <<st, art, usr1>>

(* run_serve reads the file before anything else: unreadable means exit(1). *)
BootRead(p) ==
  /\ st[p] = "start"
  /\ IF file = NoFile THEN Die(p) ELSE ReadTabs(p, "boot") /\ UNCHANGED usr1
  /\ UNCHANGED file

(* EngineFarm::boot, one tab: build_and_start.  The start of a version     *)
(* that builds may still fail.                                             *)
BootTab(p) ==
  /\ st[p] = "boot" /\ CanEmit(p)
  /\ \E f \in todo[p] :
       LET v == art[p][f]
       IN \/ v \notin Rejected /\ Outcome(p, f, v, NoVer, "started")
          \/ Outcome(p, f, NoVer, v, "error")
  /\ UNCHANGED file

(* The boot is over: the SIGUSR1 handler is installed. *)
BootDone(p) ==
  /\ st[p] = "boot" /\ todo[p] = {}
  /\ CycleDone(p)
  /\ UNCHANGED file

(* A pending SIGUSR1 is consumed and the file read again; an unreadable    *)
(* file keeps the current engines (reload_failed).                         *)
ReloadRead(p) ==
  /\ st[p] = "serve" /\ usr1[p]
  /\ usr1' = [usr1 EXCEPT ![p] = FALSE]
  /\ IF file = NoFile THEN UNCHANGED <<st, farmVars, out>> ELSE ReadTabs(p, "reload")
  /\ UNCHANGED file

(* EngineFarm::reload, the tab of f: unchanged, already failed at this     *)
(* version, built and swapped, built but not startable (the old engine is  *)
(* stopped), or not built (the old engine stays).                          *)
ReloadTab(p) ==
  /\ st[p] = "reload" /\ CanEmit(p)
  /\ \E f \in todo[p] :
       LET v == art[p][f]
           eng == engines[p][f]
           bad == failed[p][f]
       IN \/ eng = v /\ Outcome(p, f, v, bad, "started")
          \/ eng # v /\ bad = v /\ Outcome(p, f, eng, v, "error")
          \/ eng # v /\ bad # v /\ v \notin Rejected /\ Outcome(p, f, v, NoVer, "started")
          \/ eng # v /\ bad # v /\ v \notin Rejected /\ Outcome(p, f, NoVer, v, "error")
          \/ eng # v /\ bad # v /\ v \in Rejected /\ Outcome(p, f, eng, v, "error")
  /\ UNCHANGED file

(* The flows with state in the farm that the artifact no longer has. *)
Stale(p) ==
  {f \in Flow \ Tabs(art[p]) : engines[p][f] # NoVer \/ failed[p][f] # NoVer}

(* One removal: the engine goes first, a failure left beside it goes in a  *)
(* removal of its own (the flow is listed twice), each with its event.     *)
RemoveTab(p) ==
  /\ st[p] = "reload" /\ todo[p] = {} /\ CanEmit(p)
  /\ \E f \in Stale(p) :
       LET bad == IF engines[p][f] # NoVer THEN failed[p][f] ELSE NoVer
       IN Outcome(p, f, NoVer, bad, "stopped")
  /\ UNCHANGED file

(* The cycle is over: back to waiting for a signal. *)
ReloadDone(p) ==
  /\ st[p] = "reload" /\ todo[p] = {} /\ Stale(p) = {}
  /\ CycleDone(p)
  /\ UNCHANGED file

(* The process dies by itself: panic, out of memory, ctrl-c. *)
Crash(p) ==
  /\ Live(p)
  /\ Die(p)
  /\ UNCHANGED file

(* The end-of-life watcher: child.wait() returns. *)
Reaped(p) ==
  /\ st[p] = "zombie"
  /\ st' = [st EXCEPT ![p] = "gone"]
  /\ UNCHANGED <<file, farmVars, usr1, out>>

RuntimeStep(p) ==
  \/ BootRead(p)
  \/ BootTab(p)
  \/ BootDone(p)
  \/ ReloadRead(p)
  \/ ReloadTab(p)
  \/ RemoveTab(p)
  \/ ReloadDone(p)
  \/ Reaped(p)
=============================================================================
