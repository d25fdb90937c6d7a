--------------------------- MODULE DeviceSessions ---------------------------
(***************************************************************************)
(* The sessions of one device with the pods of the backend: the lease by   *)
(* which one at a time is admitted (CLAIM, TOUCH and RELEASE of services   *)
(* device_liveness.rs), the registry of each pod, the route by which       *)
(* commands find the session (services/device_bus.rs), and the life of a   *)
(* session (controllers/ws_device.rs).                                     *)
(*                                                                         *)
(* The unit of time is the interval of the pings of a device (5 s).  The   *)
(* task of a session may stall before each of its calls, however long.     *)
(***************************************************************************)
EXTENDS Naturals

CONSTANTS
  Session,    \* numbers
  Pod,
  Ttl,        \* silence_ttl_secs
  RouteTtl,   \* ROUTE_TTL_SECS
  Period,     \* ROUTE_REFRESH
  MaxFaults,  \* bound on crashes, restarts of Valkey and calls that fail
  NoSession, NoPod

ASSUME TimeAssumption == Ttl \in Nat \ {0} /\ RouteTtl \in Nat \ {0} /\ Period \in Nat
ASSUME BoundAssumption == MaxFaults \in Nat
ASSUME NoneAssumption == Session \subseteq Nat /\ NoSession \notin Session /\ NoPod \notin Pod

VARIABLES
  device,   \* the session the device is connected on
  pc,       \* where the task of a session is
  pod,      \* where it runs
  registry, \* DEVICE_SESSIONS of a pod
  lease,    \* owner, and what is left of it
  route,    \* session it leads to, and what is left of it
  since,    \* age of last_route of a session, up to Period
  pinged,   \* the device has sent a frame in this unit of time
  faults

sessionVars == <<device, pc, pod, registry>>
vars == <<sessionVars, lease, route, since, pinged, faults>>

Key(n) == [by : Session \cup {NoSession}, left : 0 .. n]

TypeOK ==
  /\ device \in Session \cup {NoSession}
  /\ pc \in [Session -> {"new", "claim", "insert", "route", "loop", "release", "unroute",
                         "done"}]
  /\ pod \in [Session -> Pod \cup {NoPod}]
  /\ registry \in [Pod -> Session \cup {NoSession}]
  /\ lease \in Key(Ttl) /\ route \in Key(RouteTtl)
  /\ since \in [Session -> 0 .. Period] /\ pinged \in BOOLEAN /\ faults \in 0 .. MaxFaults

NoKey == [by |-> NoSession, left |-> 0]
KeyOf(s, n) == [by |-> s, left |-> n]

Init ==
  /\ device = NoSession
  /\ pc = [s \in Session |-> "new"] /\ pod = [s \in Session |-> NoPod]
  /\ registry = [p \in Pod |-> NoSession]
  /\ lease = NoKey /\ route = NoKey
  /\ since = [s \in Session |-> 0] /\ pinged = FALSE /\ faults = 0

Fault == faults < MaxFaults /\ faults' = faults + 1

Goto(s, from, to) == pc[s] = from /\ pc' = [pc EXCEPT ![s] = to]

Hangup(s) == device' = IF device = s THEN NoSession ELSE device

Free(key, s) == key.by \in {s, NoSession}

-----------------------------------------------------------------------------
(* A session. *)

(* The device connects and its handshake is accepted: the next session.    *)
Connect(s, p) ==
  /\ device = NoSession /\ device' = s
  /\ \A t \in Session : t < s => pc[t] # "new"
  /\ Goto(s, "new", "claim")
  /\ pod' = [pod EXCEPT ![s] = p]
  /\ UNCHANGED <<registry, lease, route, since, pinged, faults>>

(* CLAIM and TOUCH *)
ClaimLease(s) == Free(lease, s) /\ lease' = KeyOf(s, Ttl)

(* Granted; refused because another session holds the lease; or the call   *)
(* has failed, whether the script has run or not.                          *)
Claim(s) ==
  /\ \/ Goto(s, "claim", "insert") /\ ClaimLease(s) /\ UNCHANGED <<device, faults>>
     \/ /\ Goto(s, "claim", "done") /\ Hangup(s)
        /\ \/ ~Free(lease, s) /\ UNCHANGED <<lease, faults>>
           \/ (ClaimLease(s) \/ UNCHANGED lease) /\ Fault
  /\ UNCHANGED <<pod, registry, route, since, pinged>>

(* The registry of the pod: a previous session there ends. *)
Insert(s) ==
  /\ Goto(s, "insert", "route")
  /\ registry' = [registry EXCEPT ![pod[s]] = s]
  /\ UNCHANGED <<device, pod, lease, route, since, pinged, faults>>

(* device_bus::claim, whoever has the route *)
ClaimRoute(s) ==
  /\ Goto(s, "route", "loop")
  /\ (route' = KeyOf(s, RouteTtl) /\ UNCHANGED faults) \/ (UNCHANGED route /\ Fault)
  /\ since' = [since EXCEPT ![s] = 0]
  /\ UNCHANGED <<device, pod, registry, lease, pinged>>

(* Mutant: only the own route is renewed. *)
RefreshOwn(s) == route' = IF route.by = s THEN KeyOf(s, RouteTtl) ELSE route

(* device_bus::refresh *)
Refresh(s) == route' = IF Free(route, s) THEN KeyOf(s, RouteTtl) ELSE route

Due(s) == since[s] = Period
Reroute(s) == IF Due(s) THEN Refresh(s) ELSE UNCHANGED route

(* A frame of the device: the lease is touched, and the route refreshed if *)
(* that is due.  Each call may fail. *)
Frame(s) ==
  /\ device = s /\ pc[s] = "loop"
  /\ pinged' = TRUE
  /\ since' = [since EXCEPT ![s] = IF Due(s) THEN 0 ELSE @]
  /\ \/ ClaimLease(s) /\ Reroute(s) /\ UNCHANGED faults
     \/ /\ ClaimLease(s) \/ UNCHANGED lease
        /\ Reroute(s) \/ UNCHANGED route
        /\ Fault
  /\ UNCHANGED sessionVars

(* A frame of a session that has lost the lease to a newer one. *)
Outrun(s) ==
  /\ Goto(s, "loop", "release") /\ Hangup(s)
  /\ device = s /\ ~Free(lease, s)
  /\ UNCHANGED <<pod, registry, lease, route, since, pinged, faults>>

(* The loop ends: the registry has another session, the socket is closed   *)
(* or the watchdog finds it silent.                                        *)
Leave(s) ==
  /\ Goto(s, "loop", "release") /\ Hangup(s)
  /\ registry[pod[s]] # s \/ device # s
  /\ UNCHANGED <<pod, registry, lease, route, since, pinged, faults>>

(* Mutant: the guard removes whatever session the pod has. *)
ForgetAny(s) == registry' = [registry EXCEPT ![pod[s]] = NoSession]

(* DeviceSessionGuard *)
Forget(s) == registry' = [registry EXCEPT ![pod[s]] = IF @ = s THEN NoSession ELSE @]

(* RELEASE, which may fail, and the drop of the guard. *)
Release(s) ==
  /\ Goto(s, "release", "unroute")
  /\ \/ lease' = (IF Free(lease, s) THEN NoKey ELSE lease) /\ UNCHANGED faults
     \/ UNCHANGED lease /\ Fault
  /\ Forget(s)
  /\ UNCHANGED <<device, pod, route, since, pinged>>

(* device_bus::release *)
Unroute(s) ==
  /\ Goto(s, "unroute", "done")
  /\ \/ route' = (IF route.by = s THEN NoKey ELSE route) /\ UNCHANGED faults
     \/ UNCHANGED route /\ Fault
  /\ UNCHANGED <<device, pod, registry, lease, since, pinged>>

-----------------------------------------------------------------------------
(* The environment. *)

(* The device loses its connection.  The task may not know for long. *)
Cut ==
  /\ device # NoSession /\ device' = NoSession
  /\ UNCHANGED <<pc, pod, registry, lease, route, since, pinged, faults>>

(* Nothing is kept. *)
ValkeyRestart ==
  /\ Fault
  /\ lease' = NoKey /\ route' = NoKey
  /\ UNCHANGED <<sessionVars, since, pinged>>

(* Its sessions end where they are; the next pod has another name in the   *)
(* routes.                                                                 *)
PodCrash(p) ==
  /\ Fault
  /\ pc' = [s \in Session |-> IF pod[s] = p THEN "done" ELSE pc[s]]
  /\ pod' = [s \in Session |-> IF pod[s] = p THEN NoPod ELSE pod[s]]
  /\ registry' = [registry EXCEPT ![p] = NoSession]
  /\ device' = IF \E s \in Session : s = device /\ pod[s] = p THEN NoSession ELSE device
  /\ UNCHANGED <<lease, route, since, pinged>>

(* send_via: a command finds nobody at the end of the route, because the   *)
(* pod has ended or is subscribing to its channel again.                   *)
StaleRoute ==
  /\ route.by # NoSession
  /\ (pod[route.by] = NoPod /\ UNCHANGED faults) \/ Fault
  /\ route' = NoKey
  /\ UNCHANGED <<sessionVars, lease, since, pinged>>

(* Mutant: nothing is left to expire, and still expires. *)
PassedBelow(key) == IF key.left = 1 THEN NoKey ELSE KeyOf(key.by, key.left - 1)

Passed(key) == IF key.left <= 1 THEN NoKey ELSE KeyOf(key.by, key.left - 1)

(* A device that is connected has sent its ping. *)
Tick ==
  /\ device \in Session => (pc[device] = "loop" => pinged)
  /\ pinged' = FALSE
  /\ lease' = Passed(lease) /\ route' = Passed(route)
  /\ since' = [s \in Session |->
                IF pc[s] = "loop" /\ since[s] < Period THEN since[s] + 1 ELSE since[s]]
  /\ UNCHANGED <<sessionVars, faults>>

TaskStep(s) ==
  \/ Claim(s) \/ Insert(s) \/ ClaimRoute(s) \/ Outrun(s) \/ Leave(s)
  \/ Release(s) \/ Unroute(s)

Next ==
  \/ \E s \in Session : TaskStep(s) \/ Frame(s) \/ (\E p \in Pod : Connect(s, p))
  \/ Cut \/ ValkeyRestart \/ (\E p \in Pod : PodCrash(p)) \/ StaleRoute
  \/ Tick

Spec == Init /\ [][Next]_vars

(* Time passes, tasks go on, and a device that is connected sends frames.  *)
(* Nothing makes a device connect, a connection last or commands be sent.  *)
Fairness ==
  /\ WF_vars(Tick)
  /\ \A s \in Session : WF_vars(TaskStep(s)) /\ WF_vars(Frame(s))

LiveSpec == Spec /\ Fairness

-----------------------------------------------------------------------------
(* What a step may do to the registration and to the route of a session.   *)
RegistrationKept(s) ==
  registry[pod[s]] = s => \/ registry'[pod[s]] = s \/ PodCrash(pod[s])
                          \/ \E t \in Session : Insert(t)

RouteKept(s) ==
  route.by = s => \/ route'.by = s \/ ValkeyRestart \/ Tick \/ StaleRoute
                  \/ \E t \in Session : ClaimRoute(t)

NothingTaken ==
  \A s \in Session : device = s /\ pc[s] = "loop" => RegistrationKept(s) /\ RouteKept(s)

(* An older session that ends takes away nothing of the live one: its      *)
(* registration and its route go only by a later claim of them, a crash of *)
(* the pod, a restart of Valkey, the expiry of the route or a command that *)
(* finds the pod deaf.                                                     *)
KeepsRegistrations == [][NothingTaken]_vars

(* target_of and push_to: the session that a command sent on pod p gets to *)
Reached(p) ==
  LET r == route.by
  IN IF r = NoSession \/ r = registry[p] \/ pod[r] = NoPod
     THEN registry[p] ELSE registry[pod[r]]

(* Commands find the session of a device that stays connected, from every  *)
(* pod, whichever stale session has written the route or the registry.     *)
CommandsReach ==
  \A s \in Session : <>[](device = s) => <>[](\A p \in Pod : Reached(p) = s)
=============================================================================
