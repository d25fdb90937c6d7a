------------------------ MODULE DeviceSessionsProofs ------------------------
(***************************************************************************)
(* Theorems of DeviceSessions: type correctness, and that an old session   *)
(* takes nothing away from the live one, for any sessions, pods and times. *)
(***************************************************************************)
EXTENDS DeviceSessions, TLAPS

USE TimeAssumption, BoundAssumption, NoneAssumption DEF TimeAssumption, BoundAssumption, NoneAssumption

Place == {"new", "claim", "insert", "route", "loop", "release", "unroute", "done"}

LEMMA KeyFacts ==
  ASSUME NEW n \in Nat
  PROVE  /\ NoKey \in Key(n)
         /\ \A s \in Session : KeyOf(s, n) \in Key(n)
         /\ \A k \in Key(n) : k.by \in Session \cup {NoSession} /\ Passed(k) \in Key(n)
<1>1. NoKey \in Key(n)
  BY SMTT(30) DEF NoKey, Key
<1>2. \A s \in Session : KeyOf(s, n) \in Key(n)
  BY SMTT(30) DEF KeyOf, Key
<1>3. ASSUME NEW k \in Key(n)
      PROVE  k.by \in Session \cup {NoSession} /\ Passed(k) \in Key(n)
  <2>1. k.by \in Session \cup {NoSession} /\ k.left \in 0 .. n
    BY DEF Key
  <2>2. CASE k.left <= 1
    BY <1>1, <2>1, <2>2 DEF Passed
  <2>3. CASE ~(k.left <= 1)
    <3>1. k.left - 1 \in 0 .. n
      BY <2>1, <2>3
    <3> QED BY <2>1, <2>3, <3>1, SMTT(30) DEF Passed, KeyOf, Key
  <2> QED BY <2>1, <2>2, <2>3
<1> QED BY <1>1, <1>2, <1>3

LEMMA GotoType ==
  ASSUME TypeOK, NEW s \in Session, NEW from, NEW to \in Place, Goto(s, from, to)
  PROVE  pc' \in [Session -> Place]
BY DEF Goto, TypeOK, Place

LEMMA FaultType ==
  ASSUME TypeOK, Fault PROVE faults' \in 0 .. MaxFaults
BY DEF Fault, TypeOK

LEMMA TypeInit == Init => TypeOK
<1> SUFFICES ASSUME Init PROVE TypeOK
  OBVIOUS
<1>1. lease \in Key(Ttl) /\ route \in Key(RouteTtl)
  BY KeyFacts DEF Init
<1>2. /\ pc \in [Session -> Place] /\ pod \in [Session -> Pod \cup {NoPod}]
      /\ registry \in [Pod -> Session \cup {NoSession}] /\ since \in [Session -> 0 .. Period]
  BY DEF Init, Place
<1>3. device \in Session \cup {NoSession} /\ faults \in 0 .. MaxFaults
  BY DEF Init
<1>4. pinged \in BOOLEAN
  BY DEF Init
<1> QED BY <1>1, <1>2, <1>3, <1>4 DEF TypeOK, Place

LEMMA TaskType ==
  ASSUME TypeOK, NEW s \in Session, TaskStep(s)
  PROVE  TypeOK'
<1>k. /\ NoKey \in Key(Ttl) /\ NoKey \in Key(RouteTtl)
      /\ KeyOf(s, Ttl) \in Key(Ttl) /\ KeyOf(s, RouteTtl) \in Key(RouteTtl)
  BY KeyFacts
<1>1. CASE Claim(s)
  <2>1. pc' \in [Session -> Place]
    BY <1>1, GotoType DEF Claim, Place
  <2>2. lease' \in Key(Ttl) /\ device' \in Session \cup {NoSession} /\ faults' \in 0 .. MaxFaults
    BY <1>1, <1>k, FaultType DEF Claim, ClaimLease, Hangup, TypeOK
  <2> QED BY <1>1, <2>1, <2>2 DEF Claim, TypeOK, Place
<1>2. CASE Insert(s)
  <2>1. pc' \in [Session -> Place]
    BY <1>2, GotoType DEF Insert, Place
  <2>2. registry' \in [Pod -> Session \cup {NoSession}]
    BY <1>2 DEF Insert, TypeOK
  <2> QED BY <1>2, <2>1, <2>2 DEF Insert, TypeOK, Place
<1>3. CASE ClaimRoute(s)
  <2>1. pc' \in [Session -> Place]
    BY <1>3, GotoType DEF ClaimRoute, Place
  <2>2. /\ route' \in Key(RouteTtl) /\ since' \in [Session -> 0 .. Period]
        /\ faults' \in 0 .. MaxFaults
    BY <1>3, <1>k, FaultType DEF ClaimRoute, TypeOK
  <2> QED BY <1>3, <2>1, <2>2 DEF ClaimRoute, TypeOK, Place
<1>4. CASE Outrun(s) \/ Leave(s)
  <2>1. pc' \in [Session -> Place] /\ device' \in Session \cup {NoSession}
    BY <1>4, GotoType DEF Outrun, Leave, Hangup, TypeOK, Place
  <2> QED BY <1>4, <2>1 DEF Outrun, Leave, TypeOK, Place
<1>5. CASE Release(s)
  <2>1. pc' \in [Session -> Place]
    BY <1>5, GotoType DEF Release, Place
  <2>2. /\ lease' \in Key(Ttl) /\ registry' \in [Pod -> Session \cup {NoSession}]
        /\ faults' \in 0 .. MaxFaults
    BY <1>5, <1>k, FaultType DEF Release, Forget, TypeOK
  <2> QED BY <1>5, <2>1, <2>2 DEF Release, TypeOK, Place
<1>6. CASE Unroute(s)
  <2>1. pc' \in [Session -> Place]
    BY <1>6, GotoType DEF Unroute, Place
  <2>2. route' \in Key(RouteTtl) /\ faults' \in 0 .. MaxFaults
    BY <1>6, <1>k, FaultType DEF Unroute, TypeOK
  <2> QED BY <1>6, <2>1, <2>2 DEF Unroute, TypeOK, Place
<1> QED BY <1>1, <1>2, <1>3, <1>4, <1>5, <1>6 DEF TaskStep

LEMMA FrameType ==
  ASSUME TypeOK, NEW s \in Session, Frame(s)
  PROVE  TypeOK'
<1>1. lease' \in Key(Ttl) /\ route' \in Key(RouteTtl) /\ faults' \in 0 .. MaxFaults
  BY KeyFacts, FaultType DEF Frame, ClaimLease, Reroute, Refresh, TypeOK
<1>2. since' \in [Session -> 0 .. Period]
  BY DEF Frame, TypeOK
<1> QED BY <1>1, <1>2 DEF Frame, TypeOK, sessionVars

LEMMA TypeNext == TypeOK /\ [Next]_vars => TypeOK'
<1> SUFFICES ASSUME TypeOK, [Next]_vars PROVE TypeOK'
  OBVIOUS
<1>1. ASSUME NEW s \in Session, NEW p \in Pod, Connect(s, p) PROVE TypeOK'
  <2>1. pc' \in [Session -> Place] /\ pod' \in [Session -> Pod \cup {NoPod}]
    BY <1>1, GotoType DEF Connect, TypeOK, Place
  <2> QED BY <1>1, <2>1 DEF Connect, TypeOK, Place
<1>2. CASE Cut
  BY <1>2 DEF Cut, TypeOK
<1>3. CASE ValkeyRestart
  BY <1>3, KeyFacts, FaultType DEF ValkeyRestart, TypeOK, sessionVars
<1>4. ASSUME NEW p \in Pod, PodCrash(p) PROVE TypeOK'
  <2>1. /\ pc' \in [Session -> Place] /\ pod' \in [Session -> Pod \cup {NoPod}]
        /\ registry' \in [Pod -> Session \cup {NoSession}]
    BY <1>4 DEF PodCrash, TypeOK, Place
  <2>2. device' \in Session \cup {NoSession} /\ faults' \in 0 .. MaxFaults
    BY <1>4, FaultType DEF PodCrash, TypeOK
  <2> QED BY <1>4, <2>1, <2>2 DEF PodCrash, TypeOK, Place
<1>5. CASE StaleRoute
  BY <1>5, KeyFacts, FaultType DEF StaleRoute, TypeOK, sessionVars
<1>6. CASE Tick
  <2>1. lease' \in Key(Ttl) /\ route' \in Key(RouteTtl)
    BY <1>6, KeyFacts DEF Tick, TypeOK
  <2>2. since' \in [Session -> 0 .. Period]
    BY <1>6 DEF Tick, TypeOK
  <2> QED BY <1>6, <2>1, <2>2 DEF Tick, TypeOK, sessionVars
<1>7. CASE UNCHANGED vars
  BY <1>7 DEF TypeOK, vars, sessionVars
<1> QED BY <1>1, <1>2, <1>3, <1>4, <1>5, <1>6, <1>7, TaskType, FrameType DEF Next

(* The type invariant, for any sessions, pods and times. *)
THEOREM TypeCorrect == Spec => []TypeOK
BY TypeInit, TypeNext, PTL DEF Spec

-----------------------------------------------------------------------------
LEMMA RegistrationHolds ==
  ASSUME TypeOK, [Next]_vars, NEW s \in Session, pc[s] = "loop"
  PROVE  RegistrationKept(s)
<1> SUFFICES ASSUME registry[pod[s]] = s
             PROVE  registry'[pod[s]] = s \/ PodCrash(pod[s]) \/ \E t \in Session : Insert(t)
  BY DEF RegistrationKept
<1>1. ASSUME NEW t \in Session, Release(t) PROVE registry'[pod[s]] = s
  <2>1. t # s
    BY <1>1 DEF Release, Goto
  <2> QED BY <1>1, <2>1 DEF Release, Forget, TypeOK
<1>2. ASSUME NEW p \in Pod, PodCrash(p), p # pod[s] PROVE registry'[pod[s]] = s
  BY <1>2 DEF PodCrash, TypeOK
<1>3. ASSUME NEW t \in Session,
             \/ Claim(t) \/ ClaimRoute(t) \/ Outrun(t) \/ Leave(t) \/ Unroute(t) \/ Frame(t)
             \/ \E p \in Pod : Connect(t, p)
      PROVE  UNCHANGED registry
  BY <1>3 DEF Claim, ClaimRoute, Outrun, Leave, Unroute, Frame, Connect, sessionVars
<1>4. ASSUME Cut \/ ValkeyRestart \/ StaleRoute \/ Tick \/ UNCHANGED vars
      PROVE  UNCHANGED registry
  BY <1>4 DEF Cut, ValkeyRestart, StaleRoute, Tick, vars, sessionVars
<1> QED BY <1>1, <1>2, <1>3, <1>4 DEF Next, TaskStep

LEMMA RouteHolds ==
  ASSUME TypeOK, [Next]_vars, NEW s \in Session, pc[s] = "loop"
  PROVE  RouteKept(s)
<1> SUFFICES ASSUME route.by = s
             PROVE  \/ route'.by = s \/ ValkeyRestart \/ Tick \/ StaleRoute
                    \/ \E t \in Session : ClaimRoute(t)
  BY DEF RouteKept
<1>1. ASSUME NEW t \in Session, Unroute(t) PROVE route'.by = s
  <2>1. t # s
    BY <1>1 DEF Unroute, Goto
  <2> QED BY <1>1, <2>1 DEF Unroute
<1>2. ASSUME NEW t \in Session, Frame(t) PROVE route'.by = s
  <2>1. CASE UNCHANGED route
    BY <2>1
  <2>2. CASE Refresh(t)
    <3>1. Free(route, t) => t = s
      BY DEF Free
    <3>2. KeyOf(t, RouteTtl).by = t
      BY DEF KeyOf
    <3> QED BY <2>2, <3>1, <3>2 DEF Refresh
  <2> QED BY <1>2, <2>1, <2>2 DEF Frame, Reroute
<1>3. ASSUME NEW t \in Session,
             \/ Claim(t) \/ Insert(t) \/ Outrun(t) \/ Leave(t) \/ Release(t)
             \/ \E p \in Pod : Connect(t, p)
      PROVE  UNCHANGED route
  BY <1>3 DEF Claim, Insert, Outrun, Leave, Release, Connect
<1>4. ASSUME Cut \/ (\E p \in Pod : PodCrash(p)) \/ UNCHANGED vars
      PROVE  UNCHANGED route
  BY <1>4 DEF Cut, PodCrash, vars
<1> QED BY <1>1, <1>2, <1>3, <1>4 DEF Next, TaskStep

(* Whatever sessions, pods and times: a session that ends late takes       *)
(* neither the registration nor the route of the live one (the guard of    *)
(* ws_device.rs, release and refresh of device_bus.rs).                    *)
THEOREM RegistrationsKept == Spec => KeepsRegistrations
<1>1. TypeOK /\ [Next]_vars => [NothingTaken]_vars
  BY RegistrationHolds, RouteHolds DEF NothingTaken
<1> QED BY <1>1, TypeCorrect, PTL DEF Spec, KeepsRegistrations
=============================================================================
